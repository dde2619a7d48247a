------------------------------ MODULE ApiClient ------------------------------
(***************************************************************************)
(* The frontend's HTTP client in one browser tab:                          *)
(*   frontend/src/lib/api.ts (the interceptors),                           *)
(*   frontend/src/stores/auth-store.ts (login, logout)                     *)
(*                                                                         *)
(* JavaScript runs a turn of its event loop to the end, microtasks          *)
(* included, so an action is one turn: a call, or an answer and all that    *)
(* follows from it.  Access tokens are numbered as they are issued; 0 is    *)
(* none.                                                                   *)
(***************************************************************************)
EXTENDS Naturals, FiniteSets

CONSTANTS
    Calls,      \* calls the pages make
    MaxLogins   \* bound on the logins

ASSUME CallsAssumption == IsFiniteSet(Calls) /\ MaxLogins \in Nat

VARIABLES
    calls,         \* what has become of each call
    accessToken,
    isRefreshing,
    issued,        \* the backend: access tokens issued
    logins         \* how many of them at a login

vars == <<calls, accessToken, isRefreshing, issued, logins>>

-----------------------------------------------------------------------------

\* queued: in refreshQueue.  leading: awaiting the refresh it has asked for.
State == {"unmade", "sent", "queued", "leading", "answered", "unauthorized", "failed"}
Settled == {"answered", "unauthorized", "failed"}

\* A call asks for at most one refresh, so there are never more tokens.
Tokens == 0 .. MaxLogins + Cardinality(Calls)

\* token: the Authorization header.  retried: _retry.  refused: history, the token
\* the backend refused when the call was not given up.
CallRow == [state : State, token : Tokens, retried : BOOLEAN, refused : Tokens]

SentAsBefore(row, token) == [row EXCEPT !.state = "sent"]

\* The request interceptor.
Sent(row, token) == [row EXCEPT !.state = "sent", !.token = IF token = 0 THEN @ ELSE token]

Make(c) ==
    /\ calls[c].state = "unmade"
    /\ calls' = [calls EXCEPT ![c] = Sent(@, accessToken)]
    /\ UNCHANGED <<accessToken, isRefreshing, issued, logins>>

\* Any status but 401, or no answer at all.
Answer(c) ==
    /\ calls[c].state = "sent"
    /\ \E outcome \in {"answered", "failed"} : calls' = [calls EXCEPT ![c].state = outcome]
    /\ UNCHANGED <<accessToken, isRefreshing, issued, logins>>

RefuseUnmarked(c) ==
    LET row == calls[c] IN
    /\ row.state = "sent"
    /\ \/ /\ isRefreshing
          /\ calls' = [calls EXCEPT ![c].state = "queued", ![c].refused = row.token]
          /\ UNCHANGED isRefreshing
       \/ /\ ~isRefreshing
          /\ calls' = [calls EXCEPT ![c].state = "leading", ![c].refused = row.token]
          /\ isRefreshing' = TRUE
    /\ UNCHANGED <<accessToken, issued, logins>>

RefuseUnqueued(c) ==
    LET row == calls[c] IN
    /\ row.state = "sent"
    /\ calls' = [calls EXCEPT ![c] =
                   [@ EXCEPT !.state = IF row.retried THEN "unauthorized" ELSE "leading",
                             !.retried = TRUE]]
    /\ isRefreshing' = (isRefreshing \/ ~row.retried)
    /\ UNCHANGED <<accessToken, issued, logins>>

\* 401: the token has expired, or its user is gone.
Refuse(c) ==
    LET row == calls[c] IN
    /\ row.state = "sent"
    /\ \/ /\ row.retried
          /\ calls' = [calls EXCEPT ![c].state = "unauthorized"]
          /\ UNCHANGED isRefreshing
       \/ /\ ~row.retried /\ isRefreshing
          /\ calls' = [calls EXCEPT ![c].state = "queued", ![c].refused = row.token]
          /\ UNCHANGED isRefreshing
       \/ /\ ~row.retried /\ ~isRefreshing
          /\ calls' = [calls EXCEPT ![c].state = "leading", ![c].refused = row.token,
                                    ![c].retried = TRUE]
          /\ isRefreshing' = TRUE
    /\ UNCHANGED <<accessToken, issued, logins>>

\* POST /auth/refresh succeeds: the queue is processed, and it and the leader are
\* called again.  isRefreshing is reset before any of them is answered.
Refreshed(c) ==
    /\ calls[c].state = "leading"
    /\ issued' = issued + 1
    /\ accessToken' = issued + 1
    /\ calls' = [d \in Calls |-> IF d = c \/ calls[d].state = "queued"
                                 THEN Sent(calls[d], issued + 1) ELSE calls[d]]
    /\ isRefreshing' = FALSE
    /\ UNCHANGED logins

NotRefreshedQueueKept(c) ==
    /\ calls[c].state = "leading"
    /\ accessToken' = 0
    /\ calls' = [calls EXCEPT ![c].state = "failed"]
    /\ isRefreshing' = FALSE
    /\ UNCHANGED <<issued, logins>>

\* POST /auth/refresh fails: the queue and the leader are rejected.
NotRefreshed(c) ==
    /\ calls[c].state = "leading"
    /\ accessToken' = 0
    /\ calls' = [d \in Calls |-> IF d = c \/ calls[d].state = "queued"
                                 THEN [calls[d] EXCEPT !.state = "failed"] ELSE calls[d]]
    /\ isRefreshing' = FALSE
    /\ UNCHANGED <<issued, logins>>

\* The store's login; its 401 is not intercepted.
Login ==
    /\ logins < MaxLogins
    /\ logins' = logins + 1
    /\ issued' = issued + 1
    /\ accessToken' = issued + 1
    /\ UNCHANGED <<calls, isRefreshing>>

\* The end of the store's logout or clearAuth.
ClearAuth ==
    /\ accessToken # 0
    /\ accessToken' = 0
    /\ UNCHANGED <<calls, isRefreshing, issued, logins>>

-----------------------------------------------------------------------------

Init ==
    /\ calls = [c \in Calls |-> [state |-> "unmade", token |-> 0, retried |-> FALSE, refused |-> 0]]
    /\ accessToken = 0
    /\ isRefreshing = FALSE
    /\ issued = 0
    /\ logins = 0

Next ==
    \/ \E c \in Calls : Make(c) \/ Answer(c) \/ Refuse(c) \/ Refreshed(c) \/ NotRefreshed(c)
    \/ Login
    \/ ClearAuth

Spec == Init /\ [][Next]_vars

\* The browser settles every fetch, if only by a network error.
Fairness ==
    /\ \A c \in Calls : WF_vars(Answer(c) \/ Refuse(c))
    /\ \A c \in Calls : WF_vars(Refreshed(c) \/ NotRefreshed(c))

FairSpec == Spec /\ Fairness

-----------------------------------------------------------------------------

\* The variables have their types; that the tokens stay within Tokens says that no
\* call, however often it is refused, asks for more than one refresh.
TypeOK ==
    /\ calls \in [Calls -> CallRow]
    /\ accessToken \in Tokens
    /\ isRefreshing \in BOOLEAN
    /\ issued \in Tokens
    /\ logins \in 0 .. MaxLogins

\* One refresh at a time, and whoever waits in the queue waits for a refresh that
\* is under way.
SingleFlight ==
    /\ \A c, d \in Calls : calls[c].state = "leading" /\ calls[d].state = "leading" => c = d
    /\ isRefreshing <=> \E c \in Calls : calls[c].state = "leading"
    /\ (\E c \in Calls : calls[c].state = "queued") => isRefreshing

\* A page is told "unauthorized" only about a token newer than the one its call was
\* first refused with, logins and logouts in between notwithstanding.
RefusedWithNewer ==
    \A c \in Calls : calls[c].state = "unauthorized" => calls[c].token > calls[c].refused

\* Every call is settled: none waits in the queue for ever, and none goes round and
\* round between 401 and refresh.
EveryCallSettles ==
    \A c \in Calls : calls[c].state # "unmade" ~> calls[c].state \in Settled

=============================================================================
