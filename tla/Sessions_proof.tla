---------------------------- MODULE Sessions_proof ----------------------------
(* Proofs about Sessions, for any number of users, workers, seconds and     *)
(* revocations.                                                             *)
EXTENDS Sessions, TLAPS

-----------------------------------------------------------------------------
(* The inductive invariant.  What a session has read of a user's row and     *)
(* tokens stays true of them only while the user is not raced.               *)

\* Tokens are issued in the past, to users there are.
TokensIssued ==
    \A t \in Tokens : tokens[t].state # "none" => t[2] <= now /\ users[t[1]].known

\* Two open sessions of one user make the user raced.
Alone ==
    \A j, k \in Workers :
        /\ session[j] # Idle /\ session[k] # Idle
        /\ session[j].user = session[k].user
        /\ session[j].user \notin raced
        => j = k

\* What holds of an open session whatever other requests have done since.
Facts(s) ==
    /\ users[s.user].known
    /\ s.op \in {"refresh", "exchange"} =>
          s.token[1] = s.user /\ tokens[s.token].state # "none"
    /\ s.op = "exchange" => s.token[2] <= s.new[2]
    /\ s.op \in {"login", "exchange"} => s.new[1] = s.user /\ s.new[2] <= now
    /\ s.op = "password" => \A t \in s.live : t[1] = s.user /\ tokens[t].state # "none"

\* What holds as long as the session is the only one of its user.
Undisturbed(s) ==
    /\ s.op = "login" => s.era = era[s.user] /\ users[s.user].active
    /\ s.op = "refresh" => tokens[s.token].state = "live"
    /\ s.op = "exchange" => tokens[s.token].state = "live" /\ users[s.user].active
    /\ s.op = "password" => \A t \in Tokens :
          t[1] = s.user /\ tokens[t].state = "live" => t \in s.live
    /\ s.op = "set_active" => ~users[s.user].deleted

Holds(s) == s # Idle => Facts(s) /\ (s.user \notin raced => Undisturbed(s))

SessionsHold == \A k \in Workers : Holds(session[k])

Tables ==
    /\ ExchangedIsRevoked
    /\ ChainGoesForward
    /\ LiveSinceLastRevocation
    /\ DeletedIsDisabled
    /\ TokensIssued

IInv == TypeOK /\ Tables /\ Alone /\ SessionsHold

-----------------------------------------------------------------------------
(* Types. *)

\* What a session holds is told by its op.
LEMMA RequestKinds ==
    ASSUME NEW s \in Request \cup {Idle}
    PROVE  /\ s.op = "login" => s \in LoginRequest
           /\ s.op = "refresh" => s \in RefreshRequest
           /\ s.op = "exchange" => s \in ExchangeRequest
           /\ s.op = "reuse" => s \in ReuseRequest
           /\ s.op = "password" => s \in PasswordRequest
           /\ s.op = "set_active" => s \in SetActiveRequest
           /\ s # Idle <=> s \in Request
  BY DEF Request, Idle, LoginRequest, RefreshRequest, ExchangeRequest, ReuseRequest,
         PasswordRequest, SetActiveRequest

\* Every request is somebody's.
LEMMA RequestUser ==
    ASSUME NEW s \in Request
    PROVE  s.user \in Users
  BY DEF Request, LoginRequest, RefreshRequest, ExchangeRequest, ReuseRequest,
         PasswordRequest, SetActiveRequest

\* A token is a user and a second.
LEMMA TokenParts ==
    /\ \A t \in Tokens : t[1] \in Users /\ t[2] \in Times /\ t = <<t[1], t[2]>>
    /\ \A u \in Users, d \in Times : <<u, d>> \in Tokens /\ <<u, d>>[1] = u /\ <<u, d>>[2] = d
  BY DEF Tokens

-----------------------------------------------------------------------------
(* What a step on the rows of the users U leaves for the sessions of the     *)
(* others.                                                                   *)

Frame(U) ==
    /\ \A u \in Users :
          /\ users[u].known => users'[u].known
          /\ u \notin U => users'[u] = users[u] /\ era'[u] = era[u]
    /\ \A t \in Tokens :
          /\ tokens[t].state # "none" => tokens'[t].state # "none"
          /\ t[1] \notin U => tokens'[t] = tokens[t]
    /\ now' \in Nat /\ now <= now'

\* A session keeps its facts, and is disturbed only if its user is raced.
LEMMA HoldsKept ==
    ASSUME TypeOK, NEW U, Frame(U), NEW s \in Request, Holds(s),
           raced \subseteq raced', s.user \in U => s.user \in raced'
    PROVE  Holds(s)'
<1>0. s.user \in Users /\ s # Idle
  BY RequestUser, RequestKinds
<1>1. Facts(s) /\ (s.user \notin raced => Undisturbed(s))
  BY <1>0 DEF Holds
<1>2. Facts(s)'
  <2>1. users'[s.user].known
    BY <1>0, <1>1 DEF Facts, Frame
  <2>2. s.op \in {"refresh", "exchange"} => s.token[1] = s.user /\ tokens'[s.token].state # "none"
    BY <1>1, RequestKinds DEF Facts, Frame, RefreshRequest, ExchangeRequest
  <2>3. s.op \in {"login", "exchange"} => s.new[1] = s.user /\ s.new[2] <= now'
    <3>1. s.op \in {"login", "exchange"} => s.new \in Tokens
      BY RequestKinds DEF LoginRequest, ExchangeRequest
    <3>2. \A a \in Times : a <= now => a <= now'
      BY TimeAssumption DEF Times, Frame, TypeOK
    <3> QED BY <1>1, <3>1, <3>2, TokenParts DEF Facts
  <2>4. s.op = "password" => \A t \in s.live : t[1] = s.user /\ tokens'[t].state # "none"
    BY <1>1, RequestKinds DEF Facts, Frame, PasswordRequest
  <2> QED BY <1>1, <2>1, <2>2, <2>3, <2>4 DEF Facts
<1>3. ASSUME s.user \notin raced' PROVE Undisturbed(s)'
  <2>1. s.user \notin U /\ s.user \notin raced
    BY <1>3
  <2>2. users'[s.user] = users[s.user] /\ era'[s.user] = era[s.user]
    BY <1>0, <2>1 DEF Frame
  <2>3. \A t \in Tokens : t[1] = s.user => tokens'[t] = tokens[t]
    BY <2>1 DEF Frame
  <2>4. s.op \in {"refresh", "exchange"} => tokens'[s.token] = tokens[s.token]
    BY <1>1, <2>3, RequestKinds DEF Facts, RefreshRequest, ExchangeRequest
  <2> QED BY <1>1, <2>1, <2>2, <2>3, <2>4 DEF Undisturbed
<1> QED BY <1>2, <1>3 DEF Holds

\* A step that leaves the tables and the clock alone frames everything.
LEMMA FrameOfNothing ==
    ASSUME TypeOK, UNCHANGED <<users, tokens, now, era>>
    PROVE  Frame({})
  BY TimeAssumption DEF Frame, TypeOK, Times

-----------------------------------------------------------------------------
(* Steps by what they do to the sessions. *)

\* A request begins.
LEMMA BeginStep ==
    ASSUME IInv, NEW k \in Workers, NEW s \in Request, Holds(s), Begin(k, s)
    PROVE  IInv'
<1>0. /\ TypeOK /\ Tables /\ Alone /\ SessionsHold
      /\ session[k] = Idle /\ session' = [session EXCEPT ![k] = s] /\ Overlap(s.user)
      /\ UNCHANGED <<users, tokens, now, era>>
  BY DEF IInv, Begin
<1>1. s.user \in Users /\ s # Idle
  BY RequestUser, RequestKinds
<1>2. raced \subseteq raced' /\ raced' \in SUBSET Users
  BY <1>0, <1>1 DEF Overlap, TypeOK
<1>3. TypeOK'
  BY <1>0, <1>2 DEF TypeOK
<1>4. Tables'
  BY <1>0, <1>2 DEF Tables, ExchangedIsRevoked, ChainGoesForward, LiveSinceLastRevocation,
                    DeletedIsDisabled, TokensIssued
<1>5. \A j \in Workers : j # k => session'[j] = session[j]
  BY <1>0 DEF TypeOK
<1>6. session'[k] = s
  BY <1>0 DEF TypeOK
<1>7. Alone'
  <2> SUFFICES ASSUME NEW i \in Workers, NEW j \in Workers, session'[i] # Idle, session'[j] # Idle,
                      session'[i].user = session'[j].user, session'[i].user \notin raced', i # j
               PROVE  FALSE
    BY DEF Alone
  <2>1. CASE i # k /\ j # k
    BY <2>1, <1>0, <1>2, <1>5 DEF Alone
  <2>2. CASE i = k \/ j = k
    <3>1. InFlight(s.user)
      BY <2>2, <1>5, <1>6 DEF InFlight
    <3> QED BY <3>1, <2>2, <1>0, <1>6 DEF Overlap
  <2> QED BY <2>1, <2>2
<1>8. SessionsHold'
  <2> SUFFICES ASSUME NEW j \in Workers, NEW r, r = session'[j] PROVE Holds(r)'
    BY DEF SessionsHold, Holds, Facts, Undisturbed
  <2>1. Frame({})
    BY <1>0, FrameOfNothing
  <2>2. r \in Request \cup {Idle} /\ Holds(r)
    BY <1>0, <1>3, <1>5, <1>6 DEF SessionsHold, TypeOK
  <2> QED BY <1>0, <1>2, <2>1, <2>2, HoldsKept DEF Holds
<1> QED BY <1>3, <1>4, <1>7, <1>8 DEF IInv

\* A request goes on to read, or ends, and the tables stay as they are.
LEMMA ContinueStep ==
    ASSUME IInv, NEW k \in Workers, session[k] # Idle,
           NEW s \in Request \cup {Idle}, Holds(s), s # Idle => s.user = session[k].user,
           session' = [session EXCEPT ![k] = s], UNCHANGED <<users, tokens, now, era, raced>>
    PROVE  IInv'
<1>0. TypeOK /\ Tables /\ Alone /\ SessionsHold
  BY DEF IInv
<1>1. TypeOK'
  BY <1>0 DEF TypeOK
<1>2. Tables'
  BY <1>0 DEF Tables, ExchangedIsRevoked, ChainGoesForward, LiveSinceLastRevocation,
              DeletedIsDisabled, TokensIssued
<1>3. \A j \in Workers : session'[j] = IF j = k THEN s ELSE session[j]
  BY <1>0 DEF TypeOK
<1>4. Alone'
  BY <1>0, <1>3 DEF Alone
<1>5. SessionsHold'
  <2> SUFFICES ASSUME NEW j \in Workers, NEW r, r = session'[j] PROVE Holds(r)'
    BY DEF SessionsHold, Holds, Facts, Undisturbed
  <2>1. r \in Request \cup {Idle} /\ Holds(r)
    BY <1>0, <1>3 DEF SessionsHold, TypeOK
  <2>2. Frame({})
    BY <1>0, FrameOfNothing
  <2> QED BY <1>0, <2>1, <2>2, HoldsKept DEF Holds
<1> QED BY <1>1, <1>2, <1>4, <1>5 DEF IInv

\* A request commits and ends: the tables change for its user.
LEMMA CommitStep ==
    ASSUME IInv, NEW k \in Workers, session[k] # Idle, Frame({session[k].user}),
           Done(k), raced' = raced, TypeOK', Tables'
    PROVE  IInv'
<1>0. TypeOK /\ Tables /\ Alone /\ SessionsHold
  BY DEF IInv
<1>1. \A j \in Workers : session'[j] = IF j = k THEN Idle ELSE session[j]
  BY <1>0 DEF TypeOK, Done
<1>2. Alone'
  BY <1>0, <1>1 DEF Alone
<1>3. SessionsHold'
  <2> SUFFICES ASSUME NEW j \in Workers, NEW r, r = session'[j], r # Idle PROVE Holds(r)'
    BY DEF SessionsHold, Holds, Facts, Undisturbed
  <2>1. j # k /\ r = session[j]
    BY <1>1
  <2>2. r \in Request /\ Holds(r)
    BY <1>0, <2>1 DEF SessionsHold, TypeOK
  <2>3. r.user \in {session[k].user} => r.user \in raced'
    BY <1>0, <2>1 DEF Alone
  <2> QED BY <1>0, <2>2, <2>3, HoldsKept
<1> QED BY <1>2, <1>3 DEF IInv

\* A step outside the sessions changes the tables for the users U, none of whom
\* has an open session unless raced.
LEMMA TableStep ==
    ASSUME IInv, NEW U, Frame(U), session' = session, raced \subseteq raced',
           \A j \in Workers : session[j] # Idle /\ session[j].user \in U
                                => session[j].user \in raced',
           TypeOK', Tables'
    PROVE  IInv'
<1>0. TypeOK /\ Tables /\ Alone /\ SessionsHold
  BY DEF IInv
<1>1. Alone'
  BY <1>0 DEF Alone
<1>2. SessionsHold'
  <2> SUFFICES ASSUME NEW j \in Workers, NEW r, r = session[j], r # Idle PROVE Holds(r)'
    BY DEF SessionsHold, Holds, Facts, Undisturbed
  <2>1. r \in Request /\ Holds(r)
    BY <1>0 DEF SessionsHold, TypeOK
  <2>2. r.user \in U => r.user \in raced'
    OBVIOUS
  <2> QED BY <1>0, <2>1, <2>2, HoldsKept
<1> QED BY <1>1, <1>2 DEF IInv

-----------------------------------------------------------------------------
(* The reads. *)

LEMMA ReadStep ==
    ASSUME IInv, NEW k \in Workers
    PROVE  /\ \A u \in Users : LoginRead(k, u) => IInv'
           /\ \A u \in Users : ChangePasswordRead(k, u) => IInv'
           /\ \A u \in Users : ResetPasswordRead(k, u) => IInv'
           /\ \A u \in Users, active \in BOOLEAN : SetActiveRead(k, u, active) => IInv'
           /\ \A t \in Tokens : RefreshRead(k, t) => IInv'
           /\ \A t \in Tokens : ReuseRead(k, t) => IInv'
           /\ RefreshUser(k) => IInv'
           /\ Rollback(k) => IInv'
<1>0. /\ TypeOK /\ Tables /\ SessionsHold /\ now \in Times
      /\ session[k] \in Request \cup {Idle} /\ Holds(session[k])
  BY DEF IInv, TypeOK, SessionsHold
<1>1. ASSUME NEW u \in Users, LoginRead(k, u) PROVE IInv'
  <2> DEFINE s == [op |-> "login", user |-> u, new |-> <<u, now>>, era |-> era[u]]
  <2>1. s \in Request
    BY <1>0, TokenParts DEF Request, LoginRequest, TypeOK
  <2>2. Holds(s)
    BY <1>0, <1>1, TimeAssumption DEF Holds, Facts, Undisturbed, LoginRead, Times
  <2> QED BY <1>1, <2>1, <2>2, BeginStep DEF LoginRead
<1>2. ASSUME NEW u \in Users, users[u].known,
             Begin(k, [op |-> "password", user |-> u, live |-> LiveOf(u)])
      PROVE  IInv'
  <2> DEFINE s == [op |-> "password", user |-> u, live |-> LiveOf(u)]
  <2>1. s \in Request
    BY DEF Request, PasswordRequest, LiveOf
  <2>2. Holds(s)
    BY <1>2 DEF Holds, Facts, Undisturbed, LiveOf
  <2> QED BY <1>2, <2>1, <2>2, BeginStep
<1>3. ASSUME NEW u \in Users, NEW active \in BOOLEAN, SetActiveRead(k, u, active) PROVE IInv'
  <2> DEFINE s == [op |-> "set_active", user |-> u, active |-> active]
  <2>1. s \in Request
    BY DEF Request, SetActiveRequest
  <2>2. Holds(s)
    BY <1>3 DEF Holds, Facts, Undisturbed, SetActiveRead
  <2> QED BY <1>3, <2>1, <2>2, BeginStep DEF SetActiveRead
<1>4. ASSUME NEW t \in Tokens, RefreshRead(k, t) PROVE IInv'
  <2> DEFINE s == [op |-> "refresh", user |-> t[1], token |-> t]
  <2>1. s \in Request
    BY TokenParts DEF Request, RefreshRequest
  <2>2. Holds(s)
    BY <1>0, <1>4 DEF Holds, Facts, Undisturbed, RefreshRead, Tables, TokensIssued
  <2> QED BY <1>4, <2>1, <2>2, BeginStep DEF RefreshRead
<1>5. ASSUME NEW t \in Tokens, ReuseRead(k, t) PROVE IInv'
  <2> DEFINE s == [op |-> "reuse", user |-> t[1], token |-> t]
  <2>1. s \in Request
    BY TokenParts DEF Request, ReuseRequest
  <2>2. Holds(s)
    BY <1>0, <1>5 DEF Holds, Facts, Undisturbed, ReuseRead, Tables, TokensIssued
  <2> QED BY <1>5, <2>1, <2>2, BeginStep DEF ReuseRead
<1>6. ASSUME RefreshUser(k) PROVE IInv'
  <2> DEFINE r == session[k]
             s == [op |-> "exchange", user |-> r.user, token |-> r.token, new |-> <<r.user, now>>]
  <2>1. r \in RefreshRequest /\ r # Idle /\ r.op = "refresh"
    BY <1>0, <1>6, RequestKinds DEF RefreshUser, Serving, Idle
  <2>2. s \in Request
    BY <1>0, <2>1, TokenParts DEF Request, ExchangeRequest, RefreshRequest
  <2>3. Facts(r) /\ (r.user \notin raced => Undisturbed(r))
    BY <1>0, <2>1 DEF Holds
  <2>4. r.token[2] <= now
    BY <1>0, <2>1, <2>3 DEF Facts, RefreshRequest, Tables, TokensIssued
  <2>5. Facts(s)
    BY <1>0, <2>1, <2>3, <2>4, TimeAssumption DEF Facts, Times
  <2>6. r.user \notin raced => Undisturbed(s)
    BY <1>6, <2>1, <2>3 DEF Undisturbed, RefreshUser
  <2>7. Holds(s)
    BY <2>5, <2>6 DEF Holds
  <2> QED BY <1>6, <2>1, <2>2, <2>7, ContinueStep DEF RefreshUser
<1>7. ASSUME Rollback(k) PROVE IInv'
  <2>1. Holds(Idle)
    BY DEF Holds
  <2> QED BY <1>7, <2>1, ContinueStep DEF Rollback, Done
<1> QED BY <1>1, <1>2, <1>3, <1>4, <1>5, <1>6, <1>7 DEF ChangePasswordRead, ResetPasswordRead

-----------------------------------------------------------------------------
(* The commits. *)

\* A row of refresh_tokens, new or revoked.
LEMMA TokenRows ==
    /\ \A from \in Tokens \cup {None}, e \in 0 .. MaxRevocations :
          /\ NewToken(from, e) \in TokenRow
          /\ NewToken(from, e).state = "live"
          /\ NewToken(from, e).from = from
          /\ NewToken(from, e).era = e
    /\ \A row \in TokenRow :
          /\ Revoked(row) \in TokenRow
          /\ Revoked(row).state = "revoked"
          /\ Revoked(row).from = row.from
          /\ Revoked(row).era = row.era
  BY DEF NewToken, Revoked, TokenRow, TokenState

\* Revoking live tokens disturbs nothing.
LEMMA RevocationStep ==
    ASSUME TypeOK, Tables, NEW R \in SUBSET Tokens,
           \A t \in R : tokens[t].state # "none",
           tokens' = [t \in Tokens |-> IF t \in R THEN Revoked(tokens[t]) ELSE tokens[t]],
           UNCHANGED <<users, now>>
    PROVE  /\ tokens' \in [Tokens -> TokenRow]
           /\ ExchangedIsRevoked' /\ ChainGoesForward' /\ TokensIssued'
           /\ \A t \in Tokens : /\ tokens'[t].state = "live" => tokens[t].state = "live" /\ t \notin R
                                /\ tokens'[t].from = tokens[t].from /\ tokens'[t].era = tokens[t].era
                                /\ tokens[t].state # "none" => tokens'[t].state # "none"
                                /\ tokens[t].state = "none" => tokens'[t].state = "none"
<1>1. \A t \in Tokens : tokens[t] \in TokenRow
  BY DEF TypeOK
<1>2. tokens' \in [Tokens -> TokenRow]
  BY <1>1, TokenRows
<1>3. \A t \in Tokens : /\ tokens'[t].from = tokens[t].from /\ tokens'[t].era = tokens[t].era
                        /\ tokens[t].state # "none" => tokens'[t].state # "none"
                        /\ tokens[t].state = "none" => tokens'[t].state = "none"
                        /\ tokens[t].state = "revoked" => tokens'[t].state = "revoked"
                        /\ tokens'[t].state = "live" => tokens[t].state = "live" /\ t \notin R
  BY <1>1, TokenRows
<1>4. \A t \in Tokens : tokens[t].from # None => tokens[t].from \in Tokens
  BY <1>1 DEF TokenRow
<1>5. ExchangedIsRevoked'
  BY <1>3, <1>4 DEF Tables, ExchangedIsRevoked
<1>6. ChainGoesForward'
  BY <1>3 DEF Tables, ChainGoesForward
<1>7. TokensIssued'
  BY <1>3 DEF Tables, TokensIssued
<1> QED BY <1>2, <1>3, <1>5, <1>6, <1>7

\* A new token from a login disturbs nothing.
LEMMA IssueStep ==
    ASSUME TypeOK, Tables, NEW new \in Tokens, NEW e \in 0 .. MaxRevocations,
           tokens[new].state = "none", new[2] <= now, users'[new[1]].known,
           new[1] \notin raced' => e = era[new[1]],
           tokens' = [tokens EXCEPT ![new] = NewToken(None, e)],
           UNCHANGED <<now, era>>, raced \subseteq raced',
           \A u \in Users : users[u].known => users'[u].known
    PROVE  /\ tokens' \in [Tokens -> TokenRow]
           /\ ExchangedIsRevoked' /\ ChainGoesForward' /\ TokensIssued' /\ LiveSinceLastRevocation'
           /\ \A t \in Tokens : t # new => tokens'[t] = tokens[t]
           /\ tokens'[new].state = "live" /\ tokens'[new].from = None
<1>1. \A t \in Tokens : tokens[t] \in TokenRow
  BY DEF TypeOK
<1>0. /\ NewToken(None, e) \in TokenRow
      /\ NewToken(None, e).state = "live"
      /\ NewToken(None, e).from = None
      /\ NewToken(None, e).era = e
  BY TokenRows
<1>2. tokens' \in [Tokens -> TokenRow]
  BY <1>0 DEF TypeOK
<1>9. tokens'[new] = NewToken(None, e)
  BY DEF TypeOK
<1>3. /\ \A t \in Tokens : t # new => tokens'[t] = tokens[t]
      /\ tokens'[new].state = "live" /\ tokens'[new].from = None /\ tokens'[new].era = e
  BY <1>0, <1>9 DEF TypeOK
<1>4. \A t \in Tokens : tokens[t].from # None =>
         tokens[t].from \in Tokens /\ tokens[tokens[t].from].state = "revoked"
  BY <1>1 DEF TokenRow, Tables, ExchangedIsRevoked
<1>5. ExchangedIsRevoked'
  BY <1>3, <1>4 DEF ExchangedIsRevoked
<1>6. ChainGoesForward'
  BY <1>3 DEF Tables, ChainGoesForward
<1>7. TokensIssued'
  BY <1>3, TokenParts DEF Tables, TokensIssued
<1>8. LiveSinceLastRevocation'
  BY <1>3 DEF Tables, LiveSinceLastRevocation
<1> QED BY <1>2, <1>3, <1>5, <1>6, <1>7, <1>8

\* POST /login commits.
LEMMA LoginStep ==
    ASSUME IInv, NEW k \in Workers, LoginCommit(k)
    PROVE  IInv'
<1> DEFINE s == session[k]
<1>0. TypeOK /\ Tables /\ SessionsHold
  BY DEF IInv
<1>1. s \in LoginRequest /\ s # Idle
  BY <1>0, RequestKinds DEF LoginCommit, Serving, TypeOK, Idle
<1>2. Facts(s) /\ (s.user \notin raced => Undisturbed(s))
  BY <1>0, <1>1 DEF SessionsHold, Holds
<1>3. /\ s.user \in Users /\ s.new \in Tokens /\ s.era \in 0 .. MaxRevocations
      /\ s.new[1] = s.user /\ s.new[2] <= now /\ users[s.user].known
      /\ s.user \notin raced => s.era = era[s.user]
  BY <1>1, <1>2 DEF LoginRequest, Facts, Undisturbed
<1>4. /\ tokens[s.new].state = "none"
      /\ tokens' = [tokens EXCEPT ![s.new] = NewToken(None, s.era)]
      /\ UNCHANGED <<users, now, era, raced>> /\ Done(k)
  BY DEF LoginCommit, Unused
<1>5. /\ tokens' \in [Tokens -> TokenRow]
      /\ ExchangedIsRevoked' /\ ChainGoesForward' /\ TokensIssued' /\ LiveSinceLastRevocation'
      /\ \A t \in Tokens : t # s.new => tokens'[t] = tokens[t]
      /\ tokens'[s.new].state = "live" /\ tokens'[s.new].from = None
  BY <1>0, <1>3, <1>4, IssueStep
<1>6. Frame({s.user})
  <2>1. now' \in Nat /\ now <= now'
    BY <1>0, <1>4, TimeAssumption DEF TypeOK, Times
  <2>2. \A t \in Tokens : /\ tokens[t].state # "none" => tokens'[t].state # "none"
                          /\ t[1] # s.user => tokens'[t] = tokens[t]
    BY <1>3, <1>5
  <2> QED BY <1>4, <2>1, <2>2 DEF Frame
<1>7. TypeOK'
  BY <1>0, <1>4, <1>5 DEF TypeOK, Done
<1>8. Tables'
  BY <1>0, <1>4, <1>5 DEF Tables, DeletedIsDisabled
<1> QED BY <1>1, <1>4, <1>6, <1>7, <1>8, CommitStep

\* POST /refresh commits: the old token is revoked and the new one comes from it.
LEMMA RefreshStep ==
    ASSUME IInv, NEW k \in Workers, RefreshCommit(k)
    PROVE  IInv'
<1> DEFINE s == session[k]
           old == s.token
           new == s.new
<1>0. TypeOK /\ Tables /\ SessionsHold /\ \A t \in Tokens : tokens[t] \in TokenRow
  BY DEF IInv, TypeOK
<1>1. s \in ExchangeRequest /\ s # Idle /\ s.op = "exchange"
  BY <1>0, RequestKinds DEF RefreshCommit, Serving, TypeOK, Idle
<1>2. Facts(s)
  BY <1>0, <1>1 DEF SessionsHold, Holds
<1>3. /\ s.user \in Users /\ new \in Tokens /\ old \in Tokens
      /\ new[1] = s.user /\ new[2] <= now /\ users[s.user].known
      /\ old[1] = s.user /\ tokens[old].state # "none" /\ old[2] <= new[2]
  BY <1>1, <1>2 DEF ExchangeRequest, Facts
<1>4. /\ tokens[new].state = "none"
      /\ tokens' = Exchanged(tokens, old, new)
      /\ UNCHANGED <<users, now, era, raced>> /\ Done(k)
  BY DEF RefreshCommit, Unused
<1>5. old # new /\ tokens[old].era \in 0 .. MaxRevocations
  BY <1>0, <1>3, <1>4 DEF TokenRow
<1>6. /\ NewToken(old, tokens[old].era) \in TokenRow
      /\ NewToken(old, tokens[old].era).state = "live"
      /\ NewToken(old, tokens[old].era).from = old
      /\ NewToken(old, tokens[old].era).era = tokens[old].era
      /\ Revoked(tokens[old]) \in TokenRow
      /\ Revoked(tokens[old]).state = "revoked"
      /\ Revoked(tokens[old]).from = tokens[old].from
      /\ Revoked(tokens[old]).era = tokens[old].era
  BY <1>0, <1>3, <1>5, TokenRows
<1>7. tokens' \in [Tokens -> TokenRow]
  BY <1>0, <1>3, <1>4, <1>5, <1>6 DEF Exchanged, TypeOK
<1>8. /\ tokens'[new] = NewToken(old, tokens[old].era)
      /\ tokens'[old] = Revoked(tokens[old])
      /\ \A t \in Tokens : t # new /\ t # old => tokens'[t] = tokens[t]
  BY <1>0, <1>3, <1>4, <1>5 DEF Exchanged, TypeOK
<1>9. old[2] < new[2]
  BY <1>3, <1>5, TokenParts, TimeAssumption DEF Times
<1>10. \A t \in Tokens : tokens[t].from # None =>
          /\ tokens[t].from \in Tokens /\ tokens[tokens[t].from].state = "revoked"
          /\ tokens[t].from # new
  BY <1>0, <1>4 DEF TokenRow, Tables, ExchangedIsRevoked
<1>11. ExchangedIsRevoked'
  <2> SUFFICES ASSUME NEW t \in Tokens, tokens'[t].from # None
               PROVE  tokens'[tokens'[t].from].state = "revoked"
    BY DEF ExchangedIsRevoked
  <2>1. CASE t = new
    BY <2>1, <1>6, <1>8
  <2>2. CASE t # new
    <3>1. tokens'[t].from = tokens[t].from
      BY <2>2, <1>6, <1>8
    <3>2. tokens'[tokens[t].from].state = "revoked"
      BY <3>1, <1>6, <1>8, <1>10
    <3> QED BY <3>1, <3>2
  <2> QED BY <2>1, <2>2
<1>12. ChainGoesForward'
  BY <1>0, <1>3, <1>6, <1>8, <1>9 DEF Tables, ChainGoesForward
<1>13. TokensIssued'
  BY <1>0, <1>3, <1>4, <1>6, <1>8 DEF Tables, TokensIssued
<1>14. LiveSinceLastRevocation'
  <2> SUFFICES ASSUME NEW t \in Tokens, tokens'[t].state = "live", t[1] \notin raced
               PROVE  tokens'[t].era = era[t[1]]
    BY <1>4 DEF LiveSinceLastRevocation
  <2>1. CASE t = new
    <3>1. tokens[old].state = "live"
      BY <2>1, <1>0, <1>1, <1>3 DEF SessionsHold, Holds, Undisturbed
    <3> QED BY <2>1, <3>1, <1>0, <1>3, <1>6, <1>8 DEF Tables, LiveSinceLastRevocation
  <2>2. CASE t # new
    BY <2>2, <1>0, <1>6, <1>8 DEF Tables, LiveSinceLastRevocation
  <2> QED BY <2>1, <2>2
<1>15. Tables'
  BY <1>0, <1>4, <1>11, <1>12, <1>13, <1>14 DEF Tables, DeletedIsDisabled
<1>16. TypeOK'
  BY <1>0, <1>4, <1>7 DEF TypeOK, Done
<1>17. Frame({s.user})
  BY <1>0, <1>3, <1>4, <1>6, <1>8, TimeAssumption DEF Frame, TypeOK, Times
<1> QED BY <1>1, <1>4, <1>15, <1>16, <1>17, CommitStep

\* A password change commits and begins an era.
LEMMA PasswordStep ==
    ASSUME IInv, NEW k \in Workers, PasswordCommit(k)
    PROVE  IInv'
<1> DEFINE s == session[k]
<1>0. TypeOK /\ Tables /\ SessionsHold
  BY DEF IInv
<1>1. s \in PasswordRequest /\ s # Idle /\ s.op = "password"
  BY <1>0, RequestKinds DEF PasswordCommit, Serving, TypeOK, Idle
<1>2. Facts(s)
  BY <1>0, <1>1 DEF SessionsHold, Holds
<1>3. /\ s.user \in Users /\ s.live \in SUBSET Tokens /\ users[s.user].known
      /\ \A t \in s.live : t[1] = s.user /\ tokens[t].state # "none"
  BY <1>1, <1>2 DEF PasswordRequest, Facts
<1>4. /\ tokens' = [t \in Tokens |-> IF t \in s.live THEN Revoked(tokens[t]) ELSE tokens[t]]
      /\ era' = [era EXCEPT ![s.user] = @ + 1] /\ era[s.user] < MaxRevocations
      /\ UNCHANGED <<users, now, raced>> /\ Done(k)
  BY DEF PasswordCommit
<1>5. /\ tokens' \in [Tokens -> TokenRow]
      /\ ExchangedIsRevoked' /\ ChainGoesForward' /\ TokensIssued'
      /\ \A t \in Tokens : /\ tokens'[t].state = "live" => tokens[t].state = "live" /\ t \notin s.live
                           /\ tokens'[t].from = tokens[t].from /\ tokens'[t].era = tokens[t].era
                           /\ tokens[t].state # "none" => tokens'[t].state # "none"
                           /\ tokens[t].state = "none" => tokens'[t].state = "none"
  BY <1>0, <1>3, <1>4, RevocationStep
<1>6. era' \in [Users -> 0 .. MaxRevocations] /\ \A u \in Users : u # s.user => era'[u] = era[u]
  BY <1>0, <1>3, <1>4, TimeAssumption DEF TypeOK
<1>7. LiveSinceLastRevocation'
  <2> SUFFICES ASSUME NEW t \in Tokens, tokens'[t].state = "live", t[1] \notin raced
               PROVE  tokens'[t].era = era'[t[1]]
    BY <1>4 DEF LiveSinceLastRevocation
  <2>1. t[1] # s.user
    BY <1>0, <1>1, <1>5 DEF SessionsHold, Holds, Undisturbed
  <2> QED BY <2>1, <1>0, <1>5, <1>6, TokenParts DEF Tables, LiveSinceLastRevocation
<1>8. Tables'
  BY <1>0, <1>4, <1>5, <1>7 DEF Tables, DeletedIsDisabled
<1>9. TypeOK'
  BY <1>0, <1>4, <1>5, <1>6 DEF TypeOK, Done
<1>10. \A t \in Tokens : t[1] # s.user => tokens'[t] = tokens[t]
  BY <1>3, <1>4
<1>11. Frame({s.user})
  BY <1>0, <1>4, <1>5, <1>6, <1>10, TimeAssumption DEF Frame, TypeOK, Times
<1> QED BY <1>1, <1>4, <1>8, <1>9, <1>11, CommitStep

\* PATCH of is_active commits.
LEMMA SetActiveStep ==
    ASSUME IInv, NEW k \in Workers, SetActiveCommit(k)
    PROVE  IInv'
<1> DEFINE s == session[k]
           row == [users[s.user] EXCEPT !.active = s.active]
<1>0. TypeOK /\ Tables /\ SessionsHold
  BY DEF IInv
<1>1. s \in SetActiveRequest /\ s # Idle /\ s.op = "set_active"
  BY <1>0, RequestKinds DEF SetActiveCommit, Serving, TypeOK, Idle
<1>2. s.user \in Users /\ s.active \in BOOLEAN /\ users[s.user] \in UserRow
  BY <1>0, <1>1 DEF SetActiveRequest, TypeOK
<1>3. /\ users' = [users EXCEPT ![s.user].active = s.active]
      /\ UNCHANGED <<tokens, now, era, raced>> /\ Done(k)
  BY DEF SetActiveCommit
<1>4. /\ row \in UserRow /\ row.known = users[s.user].known
      /\ row.deleted = users[s.user].deleted
  BY <1>2 DEF UserRow
<1>5. /\ users' \in [Users -> UserRow] /\ users'[s.user] = row
      /\ \A u \in Users : u # s.user => users'[u] = users[u]
  BY <1>0, <1>2, <1>3, <1>4 DEF TypeOK
<1>6. DeletedIsDisabled'
  <2> SUFFICES ASSUME NEW u \in Users, users'[u].deleted, u \notin raced PROVE ~users'[u].active
    BY <1>3 DEF DeletedIsDisabled
  <2>1. u # s.user
    BY <1>0, <1>1, <1>4, <1>5 DEF SessionsHold, Holds, Undisturbed
  <2> QED BY <2>1, <1>0, <1>5 DEF Tables, DeletedIsDisabled
<1>7. TokensIssued'
  BY <1>0, <1>3, <1>4, <1>5, TokenParts DEF Tables, TokensIssued
<1>8. Tables'
  BY <1>0, <1>3, <1>6, <1>7 DEF Tables, ExchangedIsRevoked, ChainGoesForward, LiveSinceLastRevocation
<1>9. TypeOK'
  BY <1>0, <1>3, <1>5 DEF TypeOK, Done
<1>10. Frame({s.user})
  BY <1>0, <1>3, <1>4, <1>5, TimeAssumption DEF Frame, TypeOK, Times
<1> QED BY <1>1, <1>3, <1>8, <1>9, <1>10, CommitStep

-----------------------------------------------------------------------------
(* The operations of one step. *)

\* Whoever changes a row outside a session races the sessions of its user.
LEMMA OverlapRaces ==
    ASSUME TypeOK, NEW u \in Users, Overlap(u)
    PROVE  /\ raced \subseteq raced' /\ raced' \in SUBSET Users
           /\ \A j \in Workers : session[j] # Idle /\ session[j].user \in {u}
                                   => session[j].user \in raced'
  BY DEF Overlap, InFlight, TypeOK

\* POST /logout.
LEMMA LogoutStep ==
    ASSUME IInv, NEW t \in Tokens, Logout(t)
    PROVE  IInv'
<1>0. TypeOK /\ Tables /\ t[1] \in Users
  BY TokenParts DEF IInv
<1>1. /\ tokens[t].state = "live" /\ tokens' = [tokens EXCEPT ![t] = Revoked(@)]
      /\ Overlap(t[1]) /\ UNCHANGED <<users, now, session, era>>
  BY DEF Logout
<1>2. /\ raced \subseteq raced' /\ raced' \in SUBSET Users
      /\ \A j \in Workers : session[j] # Idle /\ session[j].user \in {t[1]}
                               => session[j].user \in raced'
  BY <1>0, <1>1, OverlapRaces
<1>3. tokens' = [a \in Tokens |-> IF a \in {t} THEN Revoked(tokens[a]) ELSE tokens[a]]
  BY <1>0, <1>1 DEF TypeOK
<1>4. {t} \in SUBSET Tokens /\ \A a \in {t} : tokens[a].state # "none"
  BY <1>1
<1>5. /\ tokens' \in [Tokens -> TokenRow]
      /\ ExchangedIsRevoked' /\ ChainGoesForward' /\ TokensIssued'
      /\ \A a \in Tokens : /\ tokens'[a].state = "live" => tokens[a].state = "live" /\ a \notin {t}
                           /\ tokens'[a].from = tokens[a].from /\ tokens'[a].era = tokens[a].era
                           /\ tokens[a].state # "none" => tokens'[a].state # "none"
                           /\ tokens[a].state = "none" => tokens'[a].state = "none"
  BY <1>0, <1>1, <1>3, <1>4, RevocationStep
<1>6. Tables'
  BY <1>0, <1>1, <1>2, <1>5 DEF Tables, LiveSinceLastRevocation, DeletedIsDisabled
<1>7. TypeOK'
  BY <1>0, <1>1, <1>2, <1>5 DEF TypeOK
<1>8. \A a \in Tokens : a[1] \notin {t[1]} => tokens'[a] = tokens[a]
  BY <1>3
<1>9. Frame({t[1]})
  BY <1>0, <1>1, <1>5, <1>8, TimeAssumption DEF Frame, TypeOK, Times
<1> QED BY <1>1, <1>2, <1>6, <1>7, <1>9, TableStep

\* A user there was not has neither tokens nor sessions.
LEMMA UnknownUser ==
    ASSUME IInv, NEW u \in Users, ~users[u].known
    PROVE  /\ \A t \in Tokens : t[1] = u => tokens[t].state = "none"
           /\ \A j \in Workers : session[j] # Idle => session[j].user # u
  BY DEF IInv, Tables, TokensIssued, SessionsHold, Holds, Facts

\* POST /register and POST /users.
LEMMA AccountStep ==
    ASSUME IInv, NEW u \in Users, Account(u)
    PROVE  IInv'
<1>0. TypeOK /\ Tables /\ now \in Times /\ u \in Users
  BY DEF IInv, TypeOK
<1>1. \A active \in BOOLEAN : NewUser(active) \in UserRow /\ NewUser(active).known
                              /\ ~NewUser(active).deleted
  BY DEF NewUser, UserRow
<1>2. CASE Register(u)
  <2> DEFINE new == <<u, now>>
  <2>1. new \in Tokens /\ new[1] = u /\ new[2] = now
    BY <1>0, TokenParts
  <2>2. /\ ~users[u].known /\ users' = [users EXCEPT ![u] = NewUser(TRUE)]
        /\ tokens' = [tokens EXCEPT ![new] = NewToken(None, era[u])]
        /\ UNCHANGED <<now, session, era, raced>>
    BY <1>2 DEF Register
  <2>3. /\ users' \in [Users -> UserRow] /\ users'[u].known /\ ~users'[u].deleted
        /\ \A v \in Users : v # u => users'[v] = users[v]
    BY <1>0, <1>1, <2>2 DEF TypeOK
  <2>4. tokens[new].state = "none" /\ era[u] \in 0 .. MaxRevocations /\ new[2] <= now
    BY <1>0, <2>1, <2>2, UnknownUser, TimeAssumption DEF TypeOK, Times
  <2>5. \A v \in Users : users[v].known => users'[v].known
    BY <2>2, <2>3
  <2>6. /\ tokens' \in [Tokens -> TokenRow]
        /\ ExchangedIsRevoked' /\ ChainGoesForward' /\ TokensIssued' /\ LiveSinceLastRevocation'
        /\ \A t \in Tokens : t # new => tokens'[t] = tokens[t]
        /\ tokens'[new].state = "live" /\ tokens'[new].from = None
    BY <1>0, <2>1, <2>2, <2>3, <2>4, <2>5, IssueStep
  <2>7. Tables'
    BY <1>0, <2>2, <2>3, <2>6 DEF Tables, DeletedIsDisabled
  <2>8. TypeOK'
    BY <1>0, <2>2, <2>3, <2>6 DEF TypeOK
  <2>9. Frame({u})
    <3>1. now' \in Nat /\ now <= now'
      BY <1>0, <2>2, TimeAssumption DEF Times
    <3>2. \A t \in Tokens : /\ tokens[t].state # "none" => tokens'[t].state # "none"
                            /\ t[1] # u => tokens'[t] = tokens[t]
      BY <2>1, <2>6
    <3> QED BY <2>2, <2>3, <2>5, <3>1, <3>2 DEF Frame
  <2>10. \A j \in Workers : session[j] # Idle /\ session[j].user \in {u} => session[j].user \in raced'
    BY <2>2, UnknownUser
  <2> QED BY <2>2, <2>7, <2>8, <2>9, <2>10, TableStep
<1>3. ASSUME NEW active \in BOOLEAN, CreateUser(u, active) PROVE IInv'
  <2>1. /\ ~users[u].known /\ users' = [users EXCEPT ![u] = NewUser(active)]
        /\ UNCHANGED <<tokens, now, session, era, raced>>
    BY <1>3 DEF CreateUser
  <2>2. /\ users' \in [Users -> UserRow] /\ users'[u].known /\ ~users'[u].deleted
        /\ \A v \in Users : v # u => users'[v] = users[v]
    BY <1>0, <1>1, <2>1 DEF TypeOK
  <2>3. Tables'
    BY <1>0, <2>1, <2>2, TokenParts DEF Tables, DeletedIsDisabled, TokensIssued, ExchangedIsRevoked,
       ChainGoesForward, LiveSinceLastRevocation
  <2>4. TypeOK'
    BY <1>0, <2>1, <2>2 DEF TypeOK
  <2>5. Frame({u})
    BY <1>0, <2>1, <2>2, TimeAssumption DEF Frame, Times
  <2>6. \A j \in Workers : session[j] # Idle /\ session[j].user \in {u} => session[j].user \in raced'
    BY <2>1, UnknownUser
  <2> QED BY <2>1, <2>3, <2>4, <2>5, <2>6, TableStep
<1>4. CASE Deactivate(u)
  <2>1. /\ users[u].known /\ users' = [users EXCEPT ![u] = Deactivated(@)]
        /\ Overlap(u) /\ UNCHANGED <<tokens, now, session, era>>
    BY <1>4 DEF Deactivate
  <2>2. /\ raced \subseteq raced' /\ raced' \in SUBSET Users
        /\ \A j \in Workers : session[j] # Idle /\ session[j].user \in {u}
                                 => session[j].user \in raced'
    BY <1>0, <2>1, OverlapRaces
  <2>3. /\ Deactivated(users[u]) \in UserRow /\ Deactivated(users[u]).known
        /\ ~Deactivated(users[u]).active
    BY <1>0, <2>1 DEF Deactivated, UserRow, TypeOK
  <2>4. /\ users' \in [Users -> UserRow] /\ users'[u].known /\ ~users'[u].active
        /\ \A v \in Users : v # u => users'[v] = users[v]
    BY <1>0, <2>1, <2>3 DEF TypeOK
  <2>5. TokensIssued'
    BY <1>0, <2>1, <2>4, TokenParts DEF Tables, TokensIssued
  <2>6. DeletedIsDisabled'
    BY <1>0, <2>2, <2>4 DEF Tables, DeletedIsDisabled
  <2>7. Tables'
    BY <1>0, <2>1, <2>2, <2>5, <2>6 DEF Tables, ExchangedIsRevoked, ChainGoesForward,
       LiveSinceLastRevocation
  <2>8. TypeOK'
    BY <1>0, <2>1, <2>2, <2>4 DEF TypeOK
  <2>9. Frame({u})
    BY <1>0, <2>1, <2>4, TimeAssumption DEF Frame, Times
  <2> QED BY <2>1, <2>2, <2>7, <2>8, <2>9, TableStep
<1> QED BY <1>2, <1>3, <1>4 DEF Account

\* The clock.
LEMMA TickStep ==
    ASSUME IInv, Tick
    PROVE  IInv'
<1>0. /\ TypeOK /\ Tables /\ now' = now + 1 /\ now < MaxTime
      /\ UNCHANGED <<users, tokens, session, era, raced>>
  BY DEF IInv, Tick
<1>1. TypeOK'
  BY <1>0, TimeAssumption DEF TypeOK, Times
<1>2. TokensIssued'
  BY <1>0, TokenParts, TimeAssumption DEF TypeOK, Times, Tables, TokensIssued
<1>3. Tables'
  BY <1>0, <1>2 DEF Tables, ExchangedIsRevoked, ChainGoesForward, LiveSinceLastRevocation,
     DeletedIsDisabled
<1>4. Frame({})
  BY <1>0, TimeAssumption DEF Frame, TypeOK, Times
<1> QED BY <1>0, <1>1, <1>3, <1>4, TableStep

-----------------------------------------------------------------------------
(* The theorems. *)

LEMMA InitIInv ==
    Init => IInv
<1> SUFFICES ASSUME Init PROVE IInv
  OBVIOUS
<1>1. NoUser \in UserRow /\ NoToken \in TokenRow
  BY TimeAssumption DEF NoUser, UserRow, NoToken, TokenRow, TokenState
<1>2. TypeOK
  BY <1>1, TimeAssumption DEF Init, TypeOK, Times
<1>3. Tables
  BY TokenParts DEF Init, Tables, ExchangedIsRevoked, ChainGoesForward, LiveSinceLastRevocation,
     DeletedIsDisabled, TokensIssued, NoUser, NoToken
<1>4. Alone /\ SessionsHold
  BY DEF Init, Alone, SessionsHold, Holds
<1> QED BY <1>2, <1>3, <1>4 DEF IInv

LEMMA NextIInv ==
    IInv /\ [Next]_vars => IInv'
<1> SUFFICES ASSUME IInv, [Next]_vars PROVE IInv'
  OBVIOUS
<1>1. CASE Tick
  BY <1>1, TickStep
<1>2. ASSUME NEW u \in Users, Account(u) PROVE IInv'
  BY <1>2, AccountStep
<1>3. ASSUME NEW t \in Tokens, Logout(t) PROVE IInv'
  BY <1>3, LogoutStep
<1>4. ASSUME NEW k \in Workers, Read(k) PROVE IInv'
  BY <1>4, ReadStep DEF Read
<1>5. ASSUME NEW k \in Workers, Commit(k) PROVE IInv'
  BY <1>5, ReadStep, LoginStep, RefreshStep, PasswordStep, SetActiveStep DEF Commit
<1>6. CASE UNCHANGED vars
  BY <1>6 DEF vars, IInv, TypeOK, Tables, ExchangedIsRevoked, ChainGoesForward,
     LiveSinceLastRevocation, DeletedIsDisabled, TokensIssued, Alone, SessionsHold, Holds,
     Facts, Undisturbed
<1> QED BY <1>1, <1>2, <1>3, <1>4, <1>5, <1>6 DEF Next

\* The inductive invariant holds throughout, however requests interleave.
THEOREM Invariance == Spec => []IInv
  BY InitIInv, NextIInv, PTL DEF Spec

\* Every row and every session keeps its type: no request can read a token or a
\* user into its session that is not one.
THEOREM TypeCorrect == Spec => []TypeOK
<1>1. IInv => TypeOK
  BY DEF IInv
<1> QED BY <1>1, Invariance, PTL

\* POST /refresh never leaves the token it exchanged alive, even when a logout, a
\* password change or another exchange of that token runs beside it.
THEOREM RotationTheorem == Spec => []ExchangedIsRevoked
<1>1. IInv => ExchangedIsRevoked
  BY DEF IInv, Tables
<1> QED BY <1>1, Invariance, PTL

\* The unique token_hash and the clock keep every chain of exchanges free of cycles.
THEOREM ChainTheorem == Spec => []ChainGoesForward
<1>1. IInv => ChainGoesForward
  BY DEF IInv, Tables
<1> QED BY <1>1, Invariance, PTL

\* A password change logs every other session out, for a user whose own requests
\* have never overlapped.
THEOREM RevocationTheorem == Spec => []LiveSinceLastRevocation
<1>1. IInv => LiveSinceLastRevocation
  BY DEF IInv, Tables
<1> QED BY <1>1, Invariance, PTL

\* A deactivated user stays disabled, if no PATCH of is_active was on its way.
THEOREM DeactivationTheorem == Spec => []DeletedIsDisabled
<1>1. IInv => DeletedIsDisabled
  BY DEF IInv, Tables
<1> QED BY <1>1, Invariance, PTL

\* Who writes refresh_tokens.
LEMMA TokenWriters ==
    ASSUME [Next]_vars, tokens' # tokens
    PROVE  \/ \E u \in Users : Register(u)
           \/ \E t \in Tokens : Logout(t)
           \/ \E k \in Workers : LoginCommit(k) \/ RefreshCommit(k) \/ PasswordCommit(k)
<1>1. ~Tick /\ ~UNCHANGED vars
  BY DEF Tick, vars
<1>2. \A u \in Users : Account(u) => Register(u)
  BY DEF Account, CreateUser, Deactivate
<1>3. \A k \in Workers : ~Read(k)
  BY DEF Read, LoginRead, ChangePasswordRead, ResetPasswordRead, SetActiveRead, RefreshRead,
     ReuseRead, RefreshUser, Begin
<1>4. \A k \in Workers : Commit(k) => LoginCommit(k) \/ RefreshCommit(k) \/ PasswordCommit(k)
  BY DEF Commit, SetActiveCommit, Rollback
<1> QED BY <1>1, <1>2, <1>3, <1>4 DEF Next

\* What a commit of a login or an exchange can rely on if its user is not raced.
LEMMA CommitKnows ==
    ASSUME IInv, NEW k \in Workers
    PROVE  /\ LoginCommit(k) =>
                 /\ session[k].new \in Tokens /\ session[k].new[1] = session[k].user
                 /\ session[k].era \in 0 .. MaxRevocations
                 /\ session[k].user \notin raced => users[session[k].user].active
           /\ RefreshCommit(k) =>
                 /\ session[k].token \in Tokens /\ session[k].token[1] = session[k].user
                 /\ session[k].new \in Tokens /\ session[k].new[1] = session[k].user
                 /\ session[k].token # session[k].new
                 /\ session[k].user \notin raced =>
                       /\ users[session[k].user].active
                       /\ tokens[session[k].token].state = "live"
           /\ PasswordCommit(k) =>
                 \A t \in session[k].live : tokens[t].state # "none"
<1> DEFINE s == session[k]
<1>0. s \in Request \cup {Idle} /\ Holds(s)
  BY DEF IInv, TypeOK, SessionsHold
<1>1. ASSUME LoginCommit(k)
      PROVE  /\ s.new \in Tokens /\ s.new[1] = s.user /\ s.era \in 0 .. MaxRevocations
             /\ s.user \notin raced => users[s.user].active
  <2>1. s \in LoginRequest /\ s # Idle /\ s.op = "login"
    BY <1>0, <1>1, RequestKinds DEF LoginCommit, Serving, Idle
  <2> QED BY <1>0, <2>1 DEF LoginRequest, Holds, Facts, Undisturbed
<1>2. ASSUME RefreshCommit(k)
      PROVE  /\ s.token \in Tokens /\ s.token[1] = s.user /\ s.new \in Tokens /\ s.new[1] = s.user
             /\ s.token # s.new
             /\ s.user \notin raced => users[s.user].active /\ tokens[s.token].state = "live"
  <2>1. s \in ExchangeRequest /\ s # Idle /\ s.op = "exchange"
    BY <1>0, <1>2, RequestKinds DEF RefreshCommit, Serving, Idle
  <2>2. tokens[s.new].state = "none"
    BY <1>2 DEF RefreshCommit, Unused
  <2> QED BY <1>0, <2>1, <2>2 DEF ExchangeRequest, Holds, Facts, Undisturbed
<1>3. ASSUME PasswordCommit(k) PROVE \A t \in s.live : tokens[t].state # "none"
  <2>1. s # Idle /\ s.op = "password"
    BY <1>3 DEF PasswordCommit, Serving, Idle
  <2> QED BY <1>0, <2>1 DEF Holds, Facts
<1> QED BY <1>1, <1>2, <1>3

\* What an exchange writes.
LEMMA ExchangeWrites ==
    ASSUME IInv, NEW k \in Workers, RefreshCommit(k), NEW t \in Tokens
    PROVE  /\ t = session[k].new => tokens'[t].from = session[k].token
           /\ t # session[k].new => tokens'[t].from = tokens[t].from
           /\ t # session[k].new /\ tokens[t].state = "none" /\ t # session[k].token
                 => tokens'[t].state = "none"
<1> DEFINE s == session[k]
<1>1. /\ s.token \in Tokens /\ s.new \in Tokens /\ s.token # s.new
      /\ tokens \in [Tokens -> TokenRow]
  BY CommitKnows DEF IInv, TypeOK
<1>2. tokens' = Exchanged(tokens, s.token, s.new)
  BY DEF RefreshCommit
<1>3. tokens[s.token].era \in 0 .. MaxRevocations
  BY <1>1 DEF TokenRow
<1>4. /\ NewToken(s.token, tokens[s.token].era).from = s.token
      /\ Revoked(tokens[s.token]).from = tokens[s.token].from
  BY <1>1, <1>3, TokenRows
<1> QED BY <1>1, <1>2, <1>4 DEF Exchanged

\* A revoked token buys nothing, for a user whose own requests have never
\* overlapped: POST /refresh asks for revoked_at before it exchanges.
THEOREM SingleUse == Spec => SpentBuysNothing
<1>1. ASSUME IInv, [Next]_vars, NEW s \in Tokens, NEW t \in Tokens, s[1] \notin raced',
             tokens[s].state = "revoked", tokens'[t].from = s
      PROVE  tokens[t].from = s
  <2>0. s # None /\ tokens \in [Tokens -> TokenRow]
    BY <1>1, NoneAssumption DEF IInv, TypeOK
  <2> SUFFICES ASSUME tokens' # tokens PROVE tokens[t].from = s
    BY <1>1
  <2>1. ASSUME NEW u \in Users, Register(u) PROVE tokens[t].from = s
    <3>1. tokens'[t] = tokens[t] \/ tokens'[t] = NewToken(None, era[u])
      BY <2>0, <2>1 DEF Register
    <3>2. NewToken(None, era[u]).from = None
      BY DEF NewToken
    <3> QED BY <1>1, <2>0, <3>1, <3>2
  <2>2. ASSUME NEW a \in Tokens, Logout(a) PROVE tokens[t].from = s
    <3>1. tokens'[t] = tokens[t] \/ tokens'[t] = Revoked(tokens[t])
      BY <2>0, <2>2 DEF Logout
    <3> QED BY <1>1, <2>0, <3>1, TokenRows
  <2>3. ASSUME NEW k \in Workers, LoginCommit(k) PROVE tokens[t].from = s
    <3>1. tokens'[t] = tokens[t] \/ tokens'[t] = NewToken(None, session[k].era)
      BY <2>0, <2>3 DEF LoginCommit
    <3>2. NewToken(None, session[k].era).from = None
      BY DEF NewToken
    <3> QED BY <1>1, <2>0, <3>1, <3>2
  <2>4. ASSUME NEW k \in Workers, RefreshCommit(k) PROVE tokens[t].from = s
    <3>1. raced' = raced
      BY <2>4 DEF RefreshCommit
    <3>2. t # session[k].new
      BY <1>1, <2>4, <3>1, CommitKnows, ExchangeWrites
    <3> QED BY <1>1, <2>4, <3>2, ExchangeWrites
  <2>5. ASSUME NEW k \in Workers, PasswordCommit(k) PROVE tokens[t].from = s
    <3>1. tokens'[t] = tokens[t] \/ tokens'[t] = Revoked(tokens[t])
      BY <2>5 DEF PasswordCommit
    <3> QED BY <1>1, <2>0, <3>1, TokenRows
  <2> QED BY <1>1, <2>1, <2>2, <2>3, <2>4, <2>5, TokenWriters
<1>2. IInv /\ [Next]_vars =>
        [\A s, t \in Tokens :
           /\ s[1] \notin raced'
           /\ tokens[s].state = "revoked"
           /\ tokens'[t].from = s
           => tokens[t].from = s]_vars
  BY <1>1
<1> QED BY <1>2, Invariance, PTL DEF Spec, SpentBuysNothing

\* Nobody is given a token while disabled, for a user whose own requests have never
\* overlapped: login and refresh ask for is_active, and what they read still holds.
THEOREM ActiveTheorem == Spec => TokensForActiveUsers
<1>1. ASSUME IInv, [Next]_vars, NEW t \in Tokens, t[1] \notin raced',
             tokens[t].state = "none", tokens'[t].state # "none"
      PROVE  users'[t[1]].active
  <2>0. tokens \in [Tokens -> TokenRow] /\ users \in [Users -> UserRow] /\ now \in Times
    BY <1>1 DEF IInv, TypeOK
  <2>1. ASSUME NEW u \in Users, Register(u) PROVE users'[t[1]].active
    <3>1. t = <<u, now>> /\ users'[u] = NewUser(TRUE)
      BY <1>1, <2>0, <2>1 DEF Register
    <3> QED BY <2>0, <3>1, TokenParts DEF NewUser
  <2>2. ASSUME NEW a \in Tokens, Logout(a) PROVE FALSE
    BY <1>1, <2>0, <2>2 DEF Logout
  <2>3. ASSUME NEW k \in Workers, LoginCommit(k) PROVE users'[t[1]].active
    <3>1. t = session[k].new /\ users' = users /\ raced' = raced
      BY <1>1, <2>0, <2>3 DEF LoginCommit
    <3> QED BY <1>1, <2>3, <3>1, CommitKnows
  <2>4. ASSUME NEW k \in Workers, RefreshCommit(k) PROVE users'[t[1]].active
    <3>1. users' = users /\ raced' = raced
      BY <2>4 DEF RefreshCommit
    <3>2. t = session[k].new \/ t = session[k].token
      BY <1>1, <2>4, ExchangeWrites
    <3> QED BY <1>1, <2>4, <3>1, <3>2, CommitKnows
  <2>5. ASSUME NEW k \in Workers, PasswordCommit(k) PROVE FALSE
    <3>1. tokens'[t] = IF t \in session[k].live THEN Revoked(tokens[t]) ELSE tokens[t]
      BY <2>5 DEF PasswordCommit
    <3> QED BY <1>1, <2>5, <3>1, CommitKnows
  <2> QED BY <1>1, <2>1, <2>2, <2>3, <2>4, <2>5, TokenWriters
<1>2. IInv /\ [Next]_vars =>
        [\A t \in Tokens :
           /\ t[1] \notin raced'
           /\ tokens[t].state = "none" /\ tokens'[t].state # "none"
           => users'[t[1]].active]_vars
  BY <1>1
<1> QED BY <1>2, Invariance, PTL DEF Spec, TokensForActiveUsers

=============================================================================
