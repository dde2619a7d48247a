--------------------------- MODULE ApiClient_proof ---------------------------
(* Proofs about ApiClient, for any finite set of calls and any number of     *)
(* logins.                                                                  *)
EXTENDS ApiClient, FiniteSetTheorems, TLAPS

-----------------------------------------------------------------------------
(* The inductive invariant. *)

\* The calls whose refresh has been answered: each stands for a token.
Spent == {c \in Calls : calls[c].retried /\ calls[c].state # "leading"}

\* Every token is a login's or that of a call that will not ask again.
TokensCounted == issued <= logins + Cardinality(Spent)

\* Tokens in headers have been issued, and a call tried again has a newer one.
RowIssued(row, last) ==
    /\ row.token <= last /\ row.refused <= last
    /\ row.state = "unmade" => ~row.retried
    /\ row.state \in {"leading", "unauthorized"} => row.retried
    /\ row.state \in {"sent", "unauthorized"} /\ row.retried => row.token > row.refused

HeadersIssued ==
    /\ accessToken <= issued
    /\ \A c \in Calls : RowIssued(calls[c], issued)

IInv == TypeOK /\ SingleFlight /\ TokensCounted /\ HeadersIssued

-----------------------------------------------------------------------------

LEMMA CountIsNat ==
    /\ Cardinality(Calls) \in Nat
    /\ Tokens \subseteq Nat
  BY CallsAssumption, FS_CardinalityType DEF Tokens

\* A call that is sent with a token.
LEMMA SentRow ==
    ASSUME NEW row \in CallRow, NEW token, token # 0
    PROVE  /\ Sent(row, token).state = "sent"
           /\ Sent(row, token).token = token
           /\ Sent(row, token).retried = row.retried
           /\ Sent(row, token).refused = row.refused
           /\ token \in Tokens => Sent(row, token) \in CallRow
<1>1. Sent(row, token) = [row EXCEPT !.state = "sent", !.token = token]
  BY DEF Sent
<1> QED BY <1>1 DEF CallRow, State

\* A new set of spent calls that contains the old one is at least as large.
LEMMA SpentGrows ==
    ASSUME Spent \subseteq Spent'
    PROVE  /\ Cardinality(Spent) \in Nat /\ Cardinality(Spent') \in Nat
           /\ Cardinality(Spent) <= Cardinality(Spent')
           /\ Cardinality(Spent') <= Cardinality(Calls)
<1>1. Spent \subseteq Calls /\ Spent' \subseteq Calls
  BY DEF Spent
<1>2. IsFiniteSet(Spent) /\ IsFiniteSet(Spent')
  BY <1>1, CallsAssumption, FS_Subset
<1> QED BY <1>1, <1>2, CallsAssumption, FS_Subset, FS_CardinalityType

LEMMA InitIInv ==
    Init => IInv
<1> SUFFICES ASSUME Init PROVE IInv
  OBVIOUS
<1>1. TypeOK
  <2>1. 0 \in Tokens /\ 0 \in 0 .. MaxLogins
    BY CountIsNat, CallsAssumption DEF Tokens
  <2> QED BY <2>1 DEF Init, TypeOK, CallRow, State
<1>2. SingleFlight
  BY DEF Init, SingleFlight
<1>3. Spent = {}
  BY DEF Init, Spent
<1>4. TokensCounted
  BY <1>3, FS_EmptySet DEF Init, TokensCounted
<1>5. HeadersIssued
  BY DEF Init, HeadersIssued, RowIssued
<1> QED BY <1>1, <1>2, <1>4, <1>5 DEF IInv

\* A step that issues no token and changes the row of one call.
LEMMA RowStep ==
    ASSUME IInv, NEW c \in Calls, NEW row \in CallRow, calls' = [calls EXCEPT ![c] = row],
           UNCHANGED <<accessToken, issued, logins>>, isRefreshing' \in BOOLEAN,
           RowIssued(row, issued), SingleFlight',
           calls[c].retried => row.retried, calls[c].retried => row.state # "leading"
    PROVE  IInv'
<1>1. TypeOK'
  BY DEF IInv, TypeOK
<1>2. HeadersIssued'
  BY DEF IInv, TypeOK, HeadersIssued
<1>3. Spent \subseteq Spent'
  BY DEF IInv, TypeOK, Spent
<1>4. Cardinality(Spent) <= Cardinality(Spent') /\ Cardinality(Spent) \in Nat /\ Cardinality(Spent') \in Nat
  BY <1>3, SpentGrows
<1>5. issued \in Nat /\ logins \in Nat
  BY CountIsNat, CallsAssumption DEF IInv, TypeOK
<1>6. TokensCounted'
  BY <1>4, <1>5 DEF IInv, TokensCounted
<1> QED BY <1>1, <1>2, <1>6 DEF IInv

LEMMA MakeStep ==
    ASSUME IInv, NEW c \in Calls, Make(c)
    PROVE  IInv'
<1> DEFINE row == Sent(calls[c], accessToken)
<1>1. /\ calls[c] \in CallRow /\ calls[c].state = "unmade" /\ accessToken \in Tokens
      /\ accessToken <= issued /\ RowIssued(calls[c], issued)
      /\ calls' = [calls EXCEPT ![c] = row]
      /\ UNCHANGED <<accessToken, isRefreshing, issued, logins>> /\ isRefreshing \in BOOLEAN
  BY DEF IInv, TypeOK, HeadersIssued, Make
<1>2. /\ row \in CallRow /\ row.state = "sent" /\ row.retried = calls[c].retried
      /\ row.refused = calls[c].refused
      /\ row.token = calls[c].token \/ row.token = accessToken
  BY <1>1 DEF Sent, CallRow, State
<1>3. SingleFlight'
  BY <1>1, <1>2 DEF IInv, TypeOK, SingleFlight
<1>4. RowIssued(row, issued)
  BY <1>1, <1>2 DEF RowIssued
<1> HIDE DEF row
<1> QED BY <1>1, <1>2, <1>3, <1>4, RowStep

LEMMA AnswerStep ==
    ASSUME IInv, NEW c \in Calls, Answer(c)
    PROVE  IInv'
<1>1. PICK outcome \in {"answered", "failed"} : calls' = [calls EXCEPT ![c].state = outcome]
  BY DEF Answer
<1> DEFINE row == [calls[c] EXCEPT !.state = outcome]
<1>2. /\ calls[c] \in CallRow /\ calls[c].state = "sent" /\ RowIssued(calls[c], issued)
      /\ UNCHANGED <<accessToken, isRefreshing, issued, logins>> /\ isRefreshing \in BOOLEAN
  BY DEF IInv, TypeOK, HeadersIssued, Answer
<1>3. /\ row \in CallRow /\ row.state = outcome /\ row.retried = calls[c].retried
      /\ row.token = calls[c].token /\ row.refused = calls[c].refused
  BY <1>2 DEF CallRow, State
<1>4. calls' = [calls EXCEPT ![c] = row]
  BY <1>1
<1>5. SingleFlight'
  BY <1>2, <1>3, <1>4 DEF IInv, TypeOK, SingleFlight
<1>6. RowIssued(row, issued)
  BY <1>2, <1>3 DEF RowIssued
<1> QED BY <1>2, <1>3, <1>4, <1>5, <1>6, RowStep

LEMMA RefuseStep ==
    ASSUME IInv, NEW c \in Calls, Refuse(c)
    PROVE  IInv'
<1> DEFINE old == calls[c]
           final == [old EXCEPT !.state = "unauthorized"]
           waiting == [old EXCEPT !.state = "queued", !.refused = old.token]
           leader == [old EXCEPT !.state = "leading", !.refused = old.token, !.retried = TRUE]
<1>1. /\ old \in CallRow /\ old.state = "sent" /\ RowIssued(old, issued) /\ issued \in Nat
      /\ UNCHANGED <<accessToken, issued, logins>> /\ isRefreshing \in BOOLEAN
  BY CountIsNat DEF IInv, TypeOK, HeadersIssued, Refuse
<1>2. /\ final \in CallRow /\ final.state = "unauthorized" /\ final.retried = old.retried
      /\ final.token = old.token /\ final.refused = old.refused
      /\ waiting \in CallRow /\ waiting.state = "queued" /\ waiting.retried = old.retried
      /\ waiting.token = old.token /\ waiting.refused = old.token
      /\ leader \in CallRow /\ leader.state = "leading" /\ leader.retried
      /\ leader.token = old.token /\ leader.refused = old.token
  BY <1>1 DEF CallRow, State
<1>3. \/ /\ old.retried /\ calls' = [calls EXCEPT ![c] = final] /\ UNCHANGED isRefreshing
      \/ /\ ~old.retried /\ isRefreshing
         /\ calls' = [calls EXCEPT ![c] = waiting] /\ UNCHANGED isRefreshing
      \/ /\ ~old.retried /\ ~isRefreshing
         /\ calls' = [calls EXCEPT ![c] = leader] /\ isRefreshing' = TRUE
  BY DEF Refuse
<1>4. PICK row \in {final, waiting, leader} : calls' = [calls EXCEPT ![c] = row]
  BY <1>3
<1>5. SingleFlight'
  <2>1. CASE old.retried /\ calls' = [calls EXCEPT ![c] = final] /\ UNCHANGED isRefreshing
    BY <2>1, <1>1, <1>2 DEF IInv, TypeOK, SingleFlight
  <2>2. CASE isRefreshing /\ calls' = [calls EXCEPT ![c] = waiting] /\ UNCHANGED isRefreshing
    BY <2>2, <1>1, <1>2 DEF IInv, TypeOK, SingleFlight
  <2>3. CASE ~isRefreshing /\ calls' = [calls EXCEPT ![c] = leader] /\ isRefreshing' = TRUE
    BY <2>3, <1>1, <1>2 DEF IInv, TypeOK, SingleFlight
  <2> QED BY <1>3, <2>1, <2>2, <2>3
<1>6. RowIssued(final, issued) \/ ~old.retried
  BY <1>1, <1>2 DEF RowIssued
<1>7. RowIssued(waiting, issued) /\ RowIssued(leader, issued)
  BY <1>1, <1>2 DEF RowIssued
<1>8. isRefreshing' \in BOOLEAN
  BY <1>1, <1>3
<1> HIDE DEF final, waiting, leader
<1>9. CASE old.retried
  BY <1>1, <1>2, <1>3, <1>5, <1>6, <1>8, <1>9, RowStep
<1>10. CASE ~old.retried
  BY <1>1, <1>2, <1>3, <1>5, <1>7, <1>8, <1>10, RowStep
<1> QED BY <1>9, <1>10

\* The refresh succeeds: the leader is spent, and pays for the token.
LEMMA RefreshedStep ==
    ASSUME IInv, NEW c \in Calls, Refreshed(c)
    PROVE  IInv'
<1> DEFINE Again(d) == d = c \/ calls[d].state = "queued"
<1>0. /\ TypeOK /\ SingleFlight /\ TokensCounted /\ HeadersIssued
      /\ issued \in Nat /\ logins \in Nat /\ logins <= MaxLogins /\ MaxLogins \in Nat
      /\ Cardinality(Calls) \in Nat
  BY CountIsNat, CallsAssumption DEF IInv, TypeOK
<1>1. /\ calls[c].state = "leading" /\ issued' = issued + 1 /\ accessToken' = issued + 1
      /\ isRefreshing' = FALSE /\ logins' = logins
      /\ calls' = [d \in Calls |-> IF Again(d) THEN Sent(calls[d], issued + 1) ELSE calls[d]]
  BY DEF Refreshed
<1>2. \A d \in Calls : calls[d] \in CallRow /\ RowIssued(calls[d], issued)
  BY <1>0 DEF TypeOK, HeadersIssued
<1>3. \A d \in Calls :
         /\ Sent(calls[d], issued + 1).state = "sent"
         /\ Sent(calls[d], issued + 1).token = issued + 1
         /\ Sent(calls[d], issued + 1).retried = calls[d].retried
         /\ Sent(calls[d], issued + 1).refused = calls[d].refused
         /\ issued + 1 \in Tokens => Sent(calls[d], issued + 1) \in CallRow
  <2>1. issued + 1 # 0
    BY <1>0
  <2> QED BY <1>2, <2>1, SentRow
<1>4. calls[c].retried /\ c \notin Spent
  BY <1>0, <1>1 DEF HeadersIssued, RowIssued, Spent
<1>5. Spent' = Spent \cup {c}
  <2>1. \A d \in Calls : Again(d) => calls'[d].state = "sent" /\ calls'[d].retried = calls[d].retried
    BY <1>1, <1>3
  <2>2. \A d \in Calls : ~Again(d) => calls'[d] = calls[d]
    BY <1>1
  <2> QED BY <1>4, <2>1, <2>2 DEF Spent
<1>6. Cardinality(Spent') = Cardinality(Spent) + 1 /\ Cardinality(Spent) \in Nat
  <2>1. IsFiniteSet(Spent)
    BY CallsAssumption, FS_Subset DEF Spent
  <2> QED BY <1>4, <1>5, <2>1, FS_AddElement, FS_CardinalityType
<1>7. TokensCounted'
  BY <1>0, <1>1, <1>6 DEF TokensCounted
<1>8. Cardinality(Spent') <= Cardinality(Calls)
  BY <1>5, SpentGrows
<1>9. issued + 1 \in Tokens
  BY <1>0, <1>1, <1>6, <1>7, <1>8 DEF TokensCounted, Tokens
<1>10. calls' \in [Calls -> CallRow]
  BY <1>1, <1>2, <1>3, <1>9
<1>11. TypeOK'
  BY <1>0, <1>1, <1>9, <1>10 DEF TypeOK
<1>12. SingleFlight'
  <2>1. \A d \in Calls : calls'[d].state # "leading" /\ calls'[d].state # "queued"
    BY <1>0, <1>1, <1>3 DEF SingleFlight
  <2> QED BY <1>1, <2>1 DEF SingleFlight
<1>13. HeadersIssued'
  <2>1. ASSUME NEW d \in Calls PROVE RowIssued(calls'[d], issued + 1)
    <3>1. /\ calls[d].token \in Nat /\ calls[d].refused \in Nat
          /\ calls[d].token <= issued /\ calls[d].refused <= issued
      BY <1>2, CountIsNat DEF CallRow, RowIssued
    <3>2. CASE Again(d)
      <4>1. /\ calls'[d].state = "sent" /\ calls'[d].token = issued + 1
            /\ calls'[d].refused = calls[d].refused
        BY <1>1, <1>3, <3>2
      <4> QED BY <1>0, <3>1, <4>1 DEF RowIssued
    <3>3. CASE ~Again(d)
      <4>1. calls'[d] = calls[d]
        BY <1>1, <3>3
      <4> QED BY <1>0, <1>2, <3>1, <4>1 DEF RowIssued
    <3> QED BY <3>2, <3>3
  <2> QED BY <1>0, <1>1, <2>1 DEF HeadersIssued
<1> QED BY <1>7, <1>11, <1>12, <1>13 DEF IInv

\* The refresh fails: the queue is emptied with the leader.
LEMMA NotRefreshedStep ==
    ASSUME IInv, NEW c \in Calls, NotRefreshed(c)
    PROVE  IInv'
<1> DEFINE Lost(d) == d = c \/ calls[d].state = "queued"
<1>0. /\ TypeOK /\ SingleFlight /\ TokensCounted /\ HeadersIssued
      /\ issued \in Nat /\ logins \in Nat
  BY CountIsNat, CallsAssumption DEF IInv, TypeOK
<1>1. /\ calls[c].state = "leading" /\ accessToken' = 0 /\ isRefreshing' = FALSE
      /\ issued' = issued /\ logins' = logins
      /\ calls' = [d \in Calls |-> IF Lost(d) THEN [calls[d] EXCEPT !.state = "failed"] ELSE calls[d]]
  BY DEF NotRefreshed
<1>2. \A d \in Calls : calls[d] \in CallRow /\ RowIssued(calls[d], issued)
  BY <1>0 DEF TypeOK, HeadersIssued
<1>3. \A d \in Calls : LET row == [calls[d] EXCEPT !.state = "failed"] IN
         /\ row \in CallRow /\ row.state = "failed" /\ row.token = calls[d].token
         /\ row.retried = calls[d].retried /\ row.refused = calls[d].refused
  BY <1>2 DEF CallRow, State
<1>4. \A d \in Calls : /\ calls'[d] \in CallRow
                       /\ Lost(d) => calls'[d].state = "failed"
                       /\ ~Lost(d) => calls'[d].state = calls[d].state
                       /\ calls'[d].token = calls[d].token
                       /\ calls'[d].retried = calls[d].retried
                       /\ calls'[d].refused = calls[d].refused
  BY <1>1, <1>2, <1>3
<1>5. TypeOK'
  <2>1. 0 \in Tokens
    BY <1>0, CountIsNat, CallsAssumption DEF Tokens
  <2>2. calls' \in [Calls -> CallRow]
    BY <1>1, <1>4
  <2> QED BY <1>0, <1>1, <2>1, <2>2 DEF TypeOK
<1>6. SingleFlight'
  <2>1. \A d \in Calls : calls'[d].state # "leading" /\ calls'[d].state # "queued"
    BY <1>0, <1>1, <1>4 DEF SingleFlight
  <2> QED BY <1>1, <2>1 DEF SingleFlight
<1>7. HeadersIssued'
  BY <1>0, <1>1, <1>2, <1>4 DEF HeadersIssued, RowIssued
<1>8. Spent \subseteq Spent'
  BY <1>4 DEF Spent
<1>9. TokensCounted'
  BY <1>0, <1>1, <1>8, SpentGrows DEF TokensCounted
<1> QED BY <1>5, <1>6, <1>7, <1>9 DEF IInv

\* Login and logout leave the calls alone.
LEMMA StoreStep ==
    ASSUME IInv, Login \/ ClearAuth
    PROVE  IInv'
<1>0. /\ TypeOK /\ SingleFlight /\ TokensCounted /\ HeadersIssued
      /\ issued \in Nat /\ logins \in Nat /\ MaxLogins \in Nat /\ logins <= MaxLogins
      /\ Cardinality(Calls) \in Nat /\ UNCHANGED <<calls, isRefreshing>>
  BY CountIsNat, CallsAssumption DEF IInv, TypeOK, Login, ClearAuth
<1>1. /\ Spent' = Spent /\ Cardinality(Spent) \in Nat
      /\ Cardinality(Spent) <= Cardinality(Calls)
  BY <1>0, SpentGrows DEF Spent
<1>2. SingleFlight'
  BY <1>0 DEF SingleFlight
<1>3. CASE Login
  <2>1. logins' = logins + 1 /\ issued' = issued + 1 /\ accessToken' = issued + 1 /\ logins < MaxLogins
    BY <1>3 DEF Login
  <2>2. TokensCounted'
    BY <1>0, <1>1, <2>1 DEF TokensCounted
  <2>3. issued + 1 \in Tokens
    BY <1>0, <1>1, <2>1 DEF TokensCounted, Tokens
  <2>4. TypeOK'
    BY <1>0, <2>1, <2>3 DEF TypeOK
  <2>5. \A d \in Calls : calls[d].token \in Nat /\ calls[d].refused \in Nat
    BY <1>0, CountIsNat DEF TypeOK, CallRow
  <2>6. HeadersIssued'
    BY <1>0, <2>1, <2>5 DEF HeadersIssued, RowIssued
  <2> QED BY <1>2, <2>2, <2>4, <2>6 DEF IInv
<1>4. CASE ClearAuth
  <2>1. accessToken' = 0 /\ issued' = issued /\ logins' = logins
    BY <1>4 DEF ClearAuth
  <2>2. TypeOK'
    BY <1>0, <2>1 DEF TypeOK, Tokens
  <2>3. HeadersIssued'
    BY <1>0, <2>1 DEF HeadersIssued
  <2>4. TokensCounted'
    BY <1>0, <1>1, <2>1 DEF TokensCounted
  <2> QED BY <1>2, <2>2, <2>3, <2>4 DEF IInv
<1> QED BY <1>3, <1>4

LEMMA NextIInv ==
    IInv /\ [Next]_vars => IInv'
<1> SUFFICES ASSUME IInv, [Next]_vars PROVE IInv'
  OBVIOUS
<1>1. CASE UNCHANGED vars
  BY <1>1 DEF vars, IInv, TypeOK, SingleFlight, TokensCounted, Spent, HeadersIssued
<1> QED BY <1>1, MakeStep, AnswerStep, RefuseStep, RefreshedStep, NotRefreshedStep, StoreStep DEF Next

-----------------------------------------------------------------------------

\* The inductive invariant holds throughout.
THEOREM Invariance == Spec => []IInv
  BY InitIInv, NextIInv, PTL DEF Spec

\* The variables keep their types; in particular no call asks for a second refresh,
\* so there are never more tokens than logins and calls.
THEOREM TypeCorrect == Spec => []TypeOK
<1>1. IInv => TypeOK
  BY DEF IInv
<1> QED BY <1>1, Invariance, PTL

\* At most one refresh is under way, and nobody queues for one that is not.
THEOREM SingleFlightTheorem == Spec => []SingleFlight
<1>1. IInv => SingleFlight
  BY DEF IInv
<1> QED BY <1>1, Invariance, PTL

\* "Unauthorized" is said of a token newer than the one the call was first refused
\* with.
THEOREM NewerTheorem == Spec => []RefusedWithNewer
<1>1. IInv => RefusedWithNewer
  BY DEF IInv, HeadersIssued, RowIssued, RefusedWithNewer
<1> QED BY <1>1, Invariance, PTL

=============================================================================
