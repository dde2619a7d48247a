------------------------------- MODULE Sessions -------------------------------
(***************************************************************************)
(* Logins and their refresh tokens:                                        *)
(*   backend/app/api/v1/auth.py, backend/app/core/security.py,             *)
(*   backend/app/api/v1/users.py (creation, activation, deactivation)      *)
(*                                                                         *)
(* As in WorkOrders, a request reads in one step or several and commits in *)
(* another.  A refresh token is a signed user id and expiry second, without *)
(* a random part, so the token is named by its user and the second it was  *)
(* issued in; the column token_hash is unique.                             *)
(***************************************************************************)
EXTENDS Naturals

CONSTANTS
    Users,
    Workers,        \* requests that can be in flight at the same time
    MaxTime,        \* bound on the clock, in seconds
    Lifetime,       \* REFRESH_TOKEN_EXPIRE_DAYS, in seconds
    MaxRevocations, \* bound on the revocations of all tokens of a user
    None            \* a token that comes from a login

Times == 0 .. MaxTime
Tokens == Users \X Times

ASSUME TimeAssumption == MaxTime \in Nat /\ Lifetime \in Nat /\ MaxRevocations \in Nat
ASSUME NoneAssumption == None \notin Tokens

VARIABLES
    users,    \* users
    tokens,   \* refresh_tokens
    now,      \* the clock
    session,  \* what the request each worker is serving has read
    era,      \* history: how often all tokens of a user have been revoked
    raced     \* history: the users who had two requests in flight at a time

vars == <<users, tokens, now, session, era, raced>>

-----------------------------------------------------------------------------
(* Rows. *)

UserRow == [known : BOOLEAN, active : BOOLEAN, deleted : BOOLEAN]
NoUser == [known |-> FALSE, active |-> FALSE, deleted |-> FALSE]
NewUser(active) == [known |-> TRUE, active |-> active, deleted |-> FALSE]

\* revoked: revoked_at is set.
TokenState == {"none", "live", "revoked"}

\* from and era are history: the token this one was exchanged for, and the era of
\* the user in which the login was made it goes back to.
TokenRow == [state : TokenState, from : Tokens \cup {None}, era : 0 .. MaxRevocations]
NoToken == [state |-> "none", from |-> None, era |-> 0]
NewToken(from, e) == [state |-> "live", from |-> from, era |-> e]
Revoked(row) == [row EXCEPT !.state = "revoked"]

\* The unique constraint on token_hash lets t in.
Unused(t) == tokens[t].state = "none"
Expired(t) == now > t[2] + Lifetime

NewestLiveOf(u) == {t \in Tokens : /\ t[1] = u /\ tokens[t].state = "live"
                                   /\ \A s \in Tokens : s[1] = u /\ tokens[s].state = "live"
                                                        => s[2] <= t[2]}

\* WHERE user_id = u AND revoked_at IS NULL
LiveOf(u) == {t \in Tokens : t[1] = u /\ tokens[t].state = "live"}

-----------------------------------------------------------------------------
(* Sessions. *)

Idle == [op |-> "idle"]
InFlight(u) == \E k \in Workers : session[k] # Idle /\ session[k].user = u
Overlap(u) == raced' = IF InFlight(u) THEN raced \cup {u} ELSE raced

Begin(k, request) ==
    /\ session[k] = Idle
    /\ session' = [session EXCEPT ![k] = request]
    /\ Overlap(request.user)
    /\ UNCHANGED <<users, tokens, now, era>>

Serving(k, op) == session[k].op = op
Done(k) == session' = [session EXCEPT ![k] = Idle]

\* An exception rolls the request back: a token_hash already in use, a user found
\* inactive, a lost connection.
Rollback(k) ==
    /\ session[k] # Idle
    /\ Done(k)
    /\ UNCHANGED <<users, tokens, now, era, raced>>

-----------------------------------------------------------------------------
(* POST /register (a tenant's first user, logged in), POST /users.          *)

Register(u) ==
    /\ ~users[u].known
    /\ users' = [users EXCEPT ![u] = NewUser(TRUE)]
    /\ tokens' = [tokens EXCEPT ![<<u, now>>] = NewToken(None, era[u])]
    /\ UNCHANGED <<now, session, era, raced>>

CreateUser(u, active) ==
    /\ ~users[u].known
    /\ users' = [users EXCEPT ![u] = NewUser(active)]
    /\ UNCHANGED <<tokens, now, session, era, raced>>

-----------------------------------------------------------------------------
(* POST /login.  The lookup is by email; deleted_at is not asked for.       *)

LoginRead(k, u) ==
    /\ users[u].known /\ users[u].active
    /\ Begin(k, [op |-> "login", user |-> u, new |-> <<u, now>>, era |-> era[u]])

LoginCommit(k) ==
    LET s == session[k] IN
    /\ Serving(k, "login")
    /\ Unused(s.new)
    /\ tokens' = [tokens EXCEPT ![s.new] = NewToken(None, s.era)]
    /\ Done(k)
    /\ UNCHANGED <<users, now, era, raced>>

-----------------------------------------------------------------------------
(* POST /logout.  One step: nothing is decided on what was read, and        *)
(* revoking twice is revoking.                                              *)

Logout(t) ==
    /\ tokens[t].state = "live"
    /\ tokens' = [tokens EXCEPT ![t] = Revoked(@)]
    /\ Overlap(t[1])
    /\ UNCHANGED <<users, now, session, era>>

-----------------------------------------------------------------------------
(* POST /refresh: the token, then its user, then the exchange.             *)

RefreshReadRevokedToo(k, t) ==
    /\ tokens[t].state # "none"
    /\ ~Expired(t)
    /\ Begin(k, [op |-> "refresh", user |-> t[1], token |-> t])

RefreshRead(k, t) ==
    /\ tokens[t].state = "live"
    /\ ~Expired(t)
    /\ Begin(k, [op |-> "refresh", user |-> t[1], token |-> t])

RefreshUserAny(k) ==
    LET s == session[k] IN
    /\ Serving(k, "refresh")
    /\ session' = [session EXCEPT ![k] =
          [op |-> "exchange", user |-> s.user, token |-> s.token, new |-> <<s.user, now>>]]
    /\ UNCHANGED <<users, tokens, now, era, raced>>

RefreshUser(k) ==
    LET s == session[k] IN
    /\ Serving(k, "refresh")
    /\ users[s.user].active
    /\ session' = [session EXCEPT ![k] =
          [op |-> "exchange", user |-> s.user, token |-> s.token, new |-> <<s.user, now>>]]
    /\ UNCHANGED <<users, tokens, now, era, raced>>

ExchangedKeepingOld(table, old, new) ==
    [table EXCEPT ![new] = NewToken(old, table[old].era)]

Exchanged(table, old, new) ==
    [table EXCEPT ![old] = Revoked(@), ![new] = NewToken(old, table[old].era)]

RefreshCommit(k) ==
    LET s == session[k] IN
    /\ Serving(k, "exchange")
    /\ Unused(s.new)
    /\ tokens' = Exchanged(tokens, s.token, s.new)
    /\ Done(k)
    /\ UNCHANGED <<users, now, era, raced>>

\* A revoked token is presented: all tokens of the user are revoked and then the
\* 401 is raised, which takes the revocation back (Rollback is all that follows).
ReuseRead(k, t) ==
    /\ tokens[t].state = "revoked"
    /\ ~Expired(t)
    /\ Begin(k, [op |-> "reuse", user |-> t[1], token |-> t])

-----------------------------------------------------------------------------
(* POST /me/change-password and POST /reset-password: one UPDATE revokes    *)
(* the tokens that are live when it runs.                                   *)

ChangePasswordRead(k, u) ==
    /\ users[u].known /\ users[u].active
    /\ Begin(k, [op |-> "password", user |-> u, live |-> LiveOf(u)])

ResetPasswordRead(k, u) ==
    /\ users[u].known
    /\ Begin(k, [op |-> "password", user |-> u, live |-> LiveOf(u)])

PasswordCommit(k) ==
    LET s == session[k] IN
    /\ Serving(k, "password")
    /\ era[s.user] < MaxRevocations
    /\ tokens' = [t \in Tokens |-> IF t \in s.live THEN Revoked(tokens[t]) ELSE tokens[t]]
    /\ era' = [era EXCEPT ![s.user] = @ + 1]
    /\ Done(k)
    /\ UNCHANGED <<users, now, raced>>

-----------------------------------------------------------------------------
(* PATCH /users/{id} with is_active, and DELETE /users/{id}.                *)

\* A value equal to the loaded one is not written.
SetActiveRead(k, u, active) ==
    /\ users[u].known /\ ~users[u].deleted
    /\ users[u].active # active
    /\ Begin(k, [op |-> "set_active", user |-> u, active |-> active])

SetActiveCommit(k) ==
    LET s == session[k] IN
    /\ Serving(k, "set_active")
    /\ users' = [users EXCEPT ![s.user].active = s.active]
    /\ Done(k)
    /\ UNCHANGED <<tokens, now, era, raced>>

DeactivatedStillActive(row) == [row EXCEPT !.deleted = TRUE]
Deactivated(row) == [row EXCEPT !.deleted = TRUE, !.active = FALSE]

\* One step: nothing is decided on what was read but that the row is not deleted,
\* and deactivating twice is deactivating.
Deactivate(u) ==
    /\ users[u].known /\ ~users[u].deleted
    /\ users' = [users EXCEPT ![u] = Deactivated(@)]
    /\ Overlap(u)
    /\ UNCHANGED <<tokens, now, session, era>>

-----------------------------------------------------------------------------

Tick ==
    /\ now < MaxTime
    /\ now' = now + 1
    /\ UNCHANGED <<users, tokens, session, era, raced>>

Init ==
    /\ users = [u \in Users |-> NoUser]
    /\ tokens = [t \in Tokens |-> NoToken]
    /\ now = 0
    /\ session = [k \in Workers |-> Idle]
    /\ era = [u \in Users |-> 0]
    /\ raced = {}

Account(u) ==
    \/ Register(u)
    \/ \E active \in BOOLEAN : CreateUser(u, active)
    \/ Deactivate(u)

Read(k) ==
    \/ \E u \in Users : LoginRead(k, u)
    \/ \E u \in Users : ChangePasswordRead(k, u)
    \/ \E u \in Users : ResetPasswordRead(k, u)
    \/ \E u \in Users, active \in BOOLEAN : SetActiveRead(k, u, active)
    \/ \E t \in Tokens : RefreshRead(k, t)
    \/ \E t \in Tokens : ReuseRead(k, t)
    \/ RefreshUser(k)

Commit(k) ==
    \/ LoginCommit(k)
    \/ RefreshCommit(k)
    \/ PasswordCommit(k)
    \/ SetActiveCommit(k)
    \/ Rollback(k)

Next ==
    \/ Tick
    \/ \E u \in Users : Account(u)
    \/ \E t \in Tokens : Logout(t)
    \/ \E k \in Workers : Read(k) \/ Commit(k)

Spec == Init /\ [][Next]_vars

-----------------------------------------------------------------------------
(* What holds however requests interleave. *)

LoginRequest == [op : {"login"}, user : Users, new : Tokens, era : 0 .. MaxRevocations]
RefreshRequest == [op : {"refresh"}, user : Users, token : Tokens]
ExchangeRequest == [op : {"exchange"}, user : Users, token : Tokens, new : Tokens]
ReuseRequest == [op : {"reuse"}, user : Users, token : Tokens]
PasswordRequest == [op : {"password"}, user : Users, live : SUBSET Tokens]
SetActiveRequest == [op : {"set_active"}, user : Users, active : BOOLEAN]
Request == LoginRequest \cup RefreshRequest \cup ExchangeRequest \cup ReuseRequest
           \cup PasswordRequest \cup SetActiveRequest

\* Every row and every open session has the columns the models declare.
TypeOK ==
    /\ users \in [Users -> UserRow]
    /\ tokens \in [Tokens -> TokenRow]
    /\ now \in Times
    /\ session \in [Workers -> Request \cup {Idle}]
    /\ era \in [Users -> 0 .. MaxRevocations]
    /\ raced \in SUBSET Users

\* Rotation: a token that has been exchanged is revoked, whoever else was
\* exchanging or revoking it at the same time.
ExchangedIsRevoked ==
    \A t \in Tokens : tokens[t].from # None => tokens[tokens[t].from].state = "revoked"

\* A chain of exchanges stays with its user and goes forward in time: no token
\* is ever exchanged for itself or for one of its own ancestors.
ChainGoesForward ==
    \A t \in Tokens :
        LET from == tokens[t].from IN
        from # None => from[1] = t[1] /\ from[2] < t[2]

-----------------------------------------------------------------------------
(* What the handlers achieve for a user whose own requests never overlap,   *)
(* whatever is going on for the others.                                     *)

\* A refresh token is single-use: once revoked it is exchanged for nothing.
SpentBuysNothing ==
    [][\A s, t \in Tokens :
         /\ s[1] \notin raced'
         /\ tokens[s].state = "revoked"
         /\ tokens'[t].from = s
         => tokens[t].from = s]_vars

\* A password change logs the other sessions out: every live token goes back to a
\* login made after the last one.
LiveSinceLastRevocation ==
    \A t \in Tokens :
        tokens[t].state = "live" /\ t[1] \notin raced => tokens[t].era = era[t[1]]

\* Nobody gets a token while the account is disabled.
TokensForActiveUsers ==
    [][\A t \in Tokens :
         /\ t[1] \notin raced'
         /\ tokens[t].state = "none" /\ tokens'[t].state # "none"
         => users'[t[1]].active]_vars

\* A deactivated user is disabled, also when a PATCH of is_active was on its way.
DeletedIsDisabled ==
    \A u \in Users : users[u].deleted /\ u \notin raced => ~users[u].active

-----------------------------------------------------------------------------
(* What is said of the code and does not hold. *)

\* After the use of a revoked token all sessions of the user are revoked.
ReuseRevokesAll ==
    [][\A k \in Workers :
         Serving(k, "reuse") /\ session'[k] = Idle =>
            \A t \in Tokens : t[1] = session[k].user => tokens'[t].state # "live"]_vars

=============================================================================
