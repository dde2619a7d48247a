------------------------------ MODULE Staff_proof ------------------------------
(* Proofs about Staff, for any number of tenants, users, crews, emails, codes *)
(* and requests in flight.                                                    *)
EXTENDS Staff, TLAPS

-----------------------------------------------------------------------------
(* The inductive invariant.  An administrator is made by registration only, so  *)
(* a tenant has at most one, and whoever is changing users is the one, if there *)
(* is one.                                                                      *)

\* Only users who are there are active.
ActiveIsThere == \A u \in Users : users[u].active => users[u].tenant # None

NoOwner == \A u \in Users : users[u].role # "platform_owner"

AdminOf(u, t) == users[u].tenant = t /\ users[u].role \in AdminRoles

OneAdmin == \A t \in Tenants, u, v \in Users : AdminOf(u, t) /\ AdminOf(v, t) => u = v

\* Nobody else is an administrator of the tenant of a user.
Chief(by) ==
    /\ users[by].tenant # None
    /\ \A v \in Users : AdminOf(v, users[by].tenant) => v = by

OverlapRaced ==
    \A j, k \in Workers : j # k => session[j].about \cap session[k].about \subseteq raced

AdminFacts(s) ==
    /\ s.op = "create_user" => s.role \notin AdminRoles
    /\ s.op = "update_user" =>
          /\ s.role \notin AdminRoles
          /\ users[s.user].tenant = users[s.by].tenant /\ Chief(s.by)
          /\ s.user = s.by => s.seen.active
    /\ s.op = "deactivate_user" =>
          s.user # s.by /\ users[s.user].tenant = users[s.by].tenant /\ Chief(s.by)

ClashFacts(s) ==
    /\ s.op = "create_user" =>
          /\ Exists(s.tenant)
          /\ <<s.tenant, s.email>> \in s.about
          /\ <<s.tenant, s.email>> \notin raced => \A u \in Users :
                users[u].tenant = s.tenant /\ users[u].email = s.email => users[u].deleted
    /\ s.op \in {"create_crew", "update_crew"} =>
          /\ <<s.tenant, s.code>> \in s.about
          /\ <<s.tenant, s.code>> \notin raced => \A c \in Crews :
                crews[c].tenant = s.tenant /\ crews[c].code = s.code => crews[c].deleted
    /\ s.op = "update_crew" => crews[s.crew].tenant = s.tenant
    /\ s.op = "add_member" =>
          /\ <<s.crew, s.user>> \in s.about
          /\ crews[s.crew].tenant # None /\ users[s.user].tenant = crews[s.crew].tenant
          /\ <<s.crew, s.user>> \notin raced => members[<<s.crew, s.user>>] # "current"

Facts(s) == AdminFacts(s) /\ ClashFacts(s)

SessionsHold == \A k \in Workers : Facts(session[k])

IInv ==
    /\ TypeOK
    /\ ActiveIsThere
    /\ NoOwner
    /\ OneAdmin
    /\ OverlapRaced
    /\ SessionsHold

-----------------------------------------------------------------------------

\* What a session holds is told by its op.
LEMMA RequestKinds ==
    ASSUME NEW s \in Request \cup {Idle}
    PROVE  /\ s.op = "create_user" => s \in CreateUserRequest
           /\ s.op = "update_user" => s \in UpdateUserRequest
           /\ s.op = "deactivate_user" => s \in DeactivateUserRequest
           /\ s.op = "create_crew" => s \in CreateCrewRequest
           /\ s.op = "update_crew" => s \in UpdateCrewRequest
           /\ s.op = "add_member" => s \in AddMemberRequest
           /\ s.about \in SUBSET Things
  BY DEF Request, Idle, CreateUserRequest, UpdateUserRequest, DeactivateUserRequest,
         CreateCrewRequest, UpdateCrewRequest, AddMemberRequest

\* Ranks tell administrators from the others.
LEMMA Ranks ==
    ASSUME NEW role \in Role
    PROVE  /\ RankOf(role) >= RankOf("tenant_admin") => role \in AdminRoles
           /\ RankOf(role) < RankOf("tenant_admin") => role \notin AdminRoles
  BY DEF RankOf, Role, AdminRoles

\* None is no role above all, and no truth value.
LEMMA NoneIsNone == None \notin AdminRoles /\ None # TRUE /\ None # FALSE
  BY NoneIsNoValue DEF Role, AdminRoles

-----------------------------------------------------------------------------
(* What a step that is about the things A leaves for the other requests. *)

NewTenant(t) == \A u \in Users : users[u].tenant # t

RowsStay ==
    /\ \A u \in Users : users[u].tenant # None => users'[u].tenant = users[u].tenant
    /\ \A c \in Crews : crews[c].tenant # None => crews'[c].tenant = crews[c].tenant

\* Only a new tenant gets an administrator.
NoPromotion ==
    \A u \in Users :
        users'[u].role \in AdminRoles =>
            \/ users[u].role \in AdminRoles /\ users[u].tenant = users'[u].tenant
            \/ NewTenant(users'[u].tenant)

\* Only names and memberships in A are given.
NamesIn(A) ==
    /\ \A u \in Users :
          LET t == users'[u].tenant IN
          t # None /\ <<t, users'[u].email>> \notin A /\ ~NewTenant(t) =>
              /\ users[u].tenant = t /\ users[u].email = users'[u].email
              /\ users[u].deleted => users'[u].deleted
    /\ \A c \in Crews :
          LET t == crews'[c].tenant IN
          t # None /\ <<t, crews'[c].code>> \notin A =>
              /\ crews[c].tenant = t /\ crews[c].code = crews'[c].code
              /\ crews[c].deleted => crews'[c].deleted
    /\ \A c \in Crews, u \in Users :
          <<c, u>> \notin A /\ members'[<<c, u>>] = "current" => members[<<c, u>>] = "current"

Frame(A) == RowsStay /\ NoPromotion /\ NamesIn(A)

LEMMA FrameOfNothing ==
    ASSUME UNCHANGED <<users, crews, members>>
    PROVE  Frame({})
  BY DEF Frame, RowsStay, NoPromotion, NamesIn

\* Whoever is the only administrator stays so.
LEMMA ChiefStays ==
    ASSUME NEW by \in Users, Chief(by), RowsStay, NoPromotion
    PROVE  Chief(by)'
  BY DEF Chief, AdminOf, RowsStay, NoPromotion, NewTenant

\* A request keeps its facts about what it does not share with such a step.
LEMMA FactsKept ==
    ASSUME TypeOK, NEW A, Frame(A), NEW s \in Request \cup {Idle}, Facts(s),
           raced \subseteq raced', s.about \cap A \subseteq raced'
    PROVE  Facts(s)'
<1>1. AdminFacts(s)'
  <2>1. /\ s.op = "update_user" => s.by \in Users /\ s.user \in Users
        /\ s.op = "deactivate_user" => s.by \in Users /\ s.user \in Users
    BY RequestKinds DEF UpdateUserRequest, DeactivateUserRequest
  <2>2. s.op \in {"update_user", "deactivate_user"} =>
           Chief(s.by)' /\ users'[s.user].tenant = users'[s.by].tenant
    BY <2>1, ChiefStays DEF Facts, AdminFacts, Frame, RowsStay, Chief
  <2> QED BY <2>2 DEF Facts, AdminFacts
<1>2. ClashFacts(s)'
  <2>1. CASE s.op = "create_user"
    <3>1. s.tenant \in Tenants /\ Exists(s.tenant) /\ s.tenant # None /\ ~NewTenant(s.tenant)
      BY <2>1, RequestKinds, NoneAssumption
         DEF CreateUserRequest, Facts, ClashFacts, Exists, NewTenant
    <3>2. Exists(s.tenant)'
      BY <3>1 DEF Exists, Frame, RowsStay
    <3>3. ASSUME <<s.tenant, s.email>> \notin raced', NEW u \in Users,
                 users'[u].tenant = s.tenant, users'[u].email = s.email
          PROVE  users'[u].deleted
      <4>1. <<s.tenant, s.email>> \notin A /\ <<s.tenant, s.email>> \notin raced
        BY <2>1, <3>3 DEF Facts, ClashFacts
      <4>2. /\ users[u].tenant = s.tenant /\ users[u].email = s.email
            /\ users[u].deleted => users'[u].deleted
        BY <3>1, <3>3, <4>1 DEF Frame, NamesIn
      <4> QED BY <2>1, <4>1, <4>2 DEF Facts, ClashFacts
    <3> QED BY <2>1, <3>2, <3>3 DEF Facts, ClashFacts
  <2>2. CASE s.op \in {"create_crew", "update_crew"}
    <3>1. s.tenant \in Tenants /\ s.tenant # None /\ (s.op = "update_crew" => s.crew \in Crews)
      BY <2>2, RequestKinds, NoneAssumption DEF CreateCrewRequest, UpdateCrewRequest
    <3>2. ASSUME <<s.tenant, s.code>> \notin raced', NEW c \in Crews,
                 crews'[c].tenant = s.tenant, crews'[c].code = s.code
          PROVE  crews'[c].deleted
      <4>1. <<s.tenant, s.code>> \notin A /\ <<s.tenant, s.code>> \notin raced
        BY <2>2, <3>2 DEF Facts, ClashFacts
      <4>2. /\ crews[c].tenant = s.tenant /\ crews[c].code = s.code
            /\ crews[c].deleted => crews'[c].deleted
        BY <3>1, <3>2, <4>1 DEF Frame, NamesIn
      <4> QED BY <2>2, <4>1, <4>2 DEF Facts, ClashFacts
    <3> QED BY <2>2, <3>1, <3>2 DEF Facts, ClashFacts, Frame, RowsStay
  <2>3. CASE s.op = "add_member"
    <3>1. s.crew \in Crews /\ s.user \in Users
      BY <2>3, RequestKinds DEF AddMemberRequest
    <3> QED BY <2>3, <3>1 DEF Facts, ClashFacts, Frame, RowsStay, NamesIn
  <2> QED BY <2>1, <2>2, <2>3 DEF ClashFacts
<1> QED BY <1>1, <1>2 DEF Facts

-----------------------------------------------------------------------------
(* Steps by what they do to the sessions. *)

\* A request begins.
LEMMA BeginStep ==
    ASSUME IInv, NEW k \in Workers, NEW s \in Request, Facts(s), Begin(k, s)
    PROVE  IInv'
<1>0. /\ TypeOK /\ ActiveIsThere /\ NoOwner /\ OneAdmin /\ OverlapRaced /\ SessionsHold
      /\ session[k] = Idle /\ session' = [session EXCEPT ![k] = s]
      /\ raced' = raced \cup (s.about \cap UNION {session[j].about : j \in Workers})
      /\ UNCHANGED <<users, crews, members>>
  BY DEF IInv, Begin
<1>1. s.about \in SUBSET Things
  BY RequestKinds
<1>2. raced \subseteq raced' /\ raced' \in SUBSET Things
  BY <1>0, <1>1 DEF TypeOK
<1>3. TypeOK' /\ ActiveIsThere' /\ NoOwner' /\ OneAdmin'
  BY <1>0, <1>2 DEF TypeOK, ActiveIsThere, NoOwner, OneAdmin, AdminOf
<1>4. \A j \in Workers : session'[j] = IF j = k THEN s ELSE session[j]
  BY <1>0 DEF TypeOK
<1>5. OverlapRaced'
  <2> SUFFICES ASSUME NEW i \in Workers, NEW j \in Workers, i # j,
                      NEW x \in session'[i].about \cap session'[j].about
               PROVE  x \in raced'
    BY DEF OverlapRaced
  <2>1. CASE i # k /\ j # k
    BY <2>1, <1>0, <1>2, <1>4 DEF OverlapRaced
  <2>2. CASE i = k \/ j = k
    BY <2>2, <1>0, <1>4
  <2> QED BY <2>1, <2>2
<1>6. SessionsHold'
  <2> SUFFICES ASSUME NEW j \in Workers, NEW r, r = session'[j] PROVE Facts(r)'
    BY DEF SessionsHold, Facts, AdminFacts, ClashFacts
  <2>1. Frame({})
    BY <1>0, FrameOfNothing
  <2>2. r \in Request \cup {Idle} /\ Facts(r)
    BY <1>0, <1>4 DEF SessionsHold, TypeOK
  <2> QED BY <1>0, <1>2, <2>1, <2>2, FactsKept
<1> QED BY <1>3, <1>5, <1>6 DEF IInv

\* A request ends: what it does to the tables is about the things it is about.
LEMMA CommitStep ==
    ASSUME IInv, NEW k \in Workers, Done(k), Frame(session[k].about),
           TypeOK', ActiveIsThere', NoOwner', OneAdmin'
    PROVE  IInv'
<1>0. TypeOK /\ OverlapRaced /\ SessionsHold /\ raced' = raced
  BY DEF IInv, Done
<1>1. \A j \in Workers : session'[j] = IF j = k THEN Idle ELSE session[j]
  BY <1>0 DEF TypeOK, Done
<1>2. OverlapRaced'
  BY <1>0, <1>1 DEF OverlapRaced, Idle
<1>3. SessionsHold'
  <2> SUFFICES ASSUME NEW j \in Workers, NEW r, r = session'[j] PROVE Facts(r)'
    BY DEF SessionsHold, Facts, AdminFacts, ClashFacts
  <2>1. CASE j = k
    BY <1>1, <2>1 DEF Facts, AdminFacts, ClashFacts, Idle
  <2>2. CASE j # k
    <3>1. r = session[j] /\ r \in Request \cup {Idle} /\ Facts(r)
      BY <1>0, <1>1, <2>2 DEF SessionsHold, TypeOK
    <3>2. r.about \cap session[k].about \subseteq raced'
      BY <1>0, <2>2, <3>1 DEF OverlapRaced
    <3> QED BY <1>0, <3>1, <3>2, FactsKept
  <2> QED BY <2>1, <2>2
<1> QED BY <1>2, <1>3 DEF IInv

\* A step outside the sessions.
LEMMA TableStep ==
    ASSUME IInv, UNCHANGED <<session, raced>>, Frame({}),
           TypeOK', ActiveIsThere', NoOwner', OneAdmin'
    PROVE  IInv'
<1>0. TypeOK /\ OverlapRaced /\ SessionsHold
  BY DEF IInv
<1>1. OverlapRaced'
  BY <1>0 DEF OverlapRaced
<1>2. SessionsHold'
  <2> SUFFICES ASSUME NEW j \in Workers, NEW r, r = session'[j] PROVE Facts(r)'
    BY DEF SessionsHold, Facts, AdminFacts, ClashFacts
  <2>1. r \in Request \cup {Idle} /\ Facts(r)
    BY <1>0 DEF SessionsHold, TypeOK
  <2> QED BY <1>0, <2>1, FactsKept
<1> QED BY <1>1, <1>2 DEF IInv

-----------------------------------------------------------------------------
(* The reads: a check gives a request its facts. *)

LEMMA UserReads ==
    ASSUME IInv, NEW k \in Workers, NEW by \in Users
    PROVE  /\ \A email \in Emails, role \in Role, active \in BOOLEAN :
                 CreateUserRead(k, by, email, role, active) => IInv'
           /\ \A u \in Users, role \in Role \cup {None}, active \in BOOLEAN \cup {None} :
                 UpdateUserRead(k, by, u, role, active) => IInv'
           /\ \A u \in Users : DeactivateUserRead(k, by, u) => IInv'
<1> USE DEF IInv
<1>0. /\ users[by] \in UserRow /\ users[by].role \in Role \ {"platform_owner"}
      /\ users[by].active => users[by].tenant \in Tenants
  BY DEF TypeOK, UserRow, NoOwner, ActiveIsThere
<1>1. users[by].active /\ users[by].role \in AdminRoles => Chief(by)
  BY <1>0, NoneAssumption DEF OneAdmin, AdminOf, Chief
<1>2. \A role \in Role : Below(role, by) => role \notin AdminRoles
  BY <1>0, Ranks DEF Below, RankOf, Role, AdminRoles
<1>3. ASSUME NEW email \in Emails, NEW role \in Role, NEW active \in BOOLEAN,
             CreateUserRead(k, by, email, role, active)
      PROVE  IInv'
  <2> DEFINE t == users[by].tenant
             s == [op |-> "create_user", by |-> by, tenant |-> t, email |-> email,
                   role |-> role, active |-> active, about |-> {<<t, email>>}]
  <2>1. t \in Tenants /\ Exists(t)
    BY <1>0, <1>3 DEF CreateUserRead, RequireRole, Exists
  <2>2. s \in Request
    BY <2>1 DEF Request, CreateUserRequest, Things
  <2>3. Facts(s)
    BY <1>2, <1>3, <2>1 DEF Facts, AdminFacts, ClashFacts, CreateUserRead, LiveUser
  <2> QED BY <1>3, <2>2, <2>3, BeginStep DEF CreateUserRead
<1>4. ASSUME NEW u \in Users, NEW role \in Role \cup {None}, NEW active \in BOOLEAN \cup {None},
             UpdateUserRead(k, by, u, role, active)
      PROVE  IInv'
  <2> DEFINE s == [op |-> "update_user", by |-> by, user |-> u, seen |-> users[u],
                   role |-> role, active |-> active, about |-> {}]
  <2>1. users[u] \in UserRow /\ s \in Request
    BY DEF TypeOK, Request, UpdateUserRequest
  <2>2. users[by].role \in AdminRoles /\ Chief(by)
    BY <1>0, <1>1, <1>4, Ranks DEF UpdateUserRead
  <2>3. role \notin AdminRoles
    BY <1>2, <1>4, NoneIsNone DEF UpdateUserRead
  <2>4. Facts(s)
    BY <1>4, <2>2, <2>3 DEF Facts, AdminFacts, ClashFacts, UpdateUserRead, LiveUser
  <2> QED BY <1>4, <2>1, <2>4, BeginStep DEF UpdateUserRead
<1>5. ASSUME NEW u \in Users, DeactivateUserRead(k, by, u) PROVE IInv'
  <2> DEFINE s == [op |-> "deactivate_user", by |-> by, user |-> u, seen |-> users[u],
                   about |-> {}]
  <2>1. users[u] \in UserRow /\ s \in Request
    BY DEF TypeOK, Request, DeactivateUserRequest
  <2>2. Facts(s)
    BY <1>1, <1>5 DEF Facts, AdminFacts, ClashFacts, DeactivateUserRead, RequireRole, LiveUser
  <2> QED BY <1>5, <2>1, <2>2, BeginStep DEF DeactivateUserRead
<1> QED BY <1>3, <1>4, <1>5

LEMMA CrewReads ==
    ASSUME IInv, NEW k \in Workers, NEW by \in Users
    PROVE  /\ \A code \in Codes : CreateCrewRead(k, by, code) => IInv'
           /\ \A c \in Crews, code \in Codes : UpdateCrewRead(k, by, c, code) => IInv'
           /\ \A c \in Crews, u \in Users : AddMemberRead(k, by, c, u) => IInv'
<1>0. users[by].active => users[by].tenant \in Tenants
  BY DEF IInv, TypeOK, UserRow, ActiveIsThere
<1> DEFINE t == users[by].tenant
<1>1. ASSUME NEW code \in Codes, CreateCrewRead(k, by, code) PROVE IInv'
  <2> DEFINE s == [op |-> "create_crew", tenant |-> t, code |-> code, about |-> {<<t, code>>}]
  <2>1. s \in Request
    BY <1>0, <1>1 DEF CreateCrewRead, RequirePermission, Request, CreateCrewRequest, Things
  <2>2. Facts(s)
    BY <1>1 DEF Facts, AdminFacts, ClashFacts, CreateCrewRead, CodeUnused, LiveCrew
  <2> QED BY <1>1, <2>1, <2>2, BeginStep DEF CreateCrewRead
<1>2. ASSUME NEW c \in Crews, NEW code \in Codes, UpdateCrewRead(k, by, c, code) PROVE IInv'
  <2> DEFINE s == [op |-> "update_crew", crew |-> c, tenant |-> t, code |-> code,
                   about |-> {<<t, code>>}]
  <2>1. s \in Request
    BY <1>0, <1>2 DEF UpdateCrewRead, RequirePermission, Request, UpdateCrewRequest, Things
  <2>2. Facts(s)
    BY <1>2 DEF Facts, AdminFacts, ClashFacts, UpdateCrewRead, CodeUnused, LiveCrew
  <2> QED BY <1>2, <2>1, <2>2, BeginStep DEF UpdateCrewRead
<1>3. ASSUME NEW c \in Crews, NEW u \in Users, AddMemberRead(k, by, c, u) PROVE IInv'
  <2> DEFINE s == [op |-> "add_member", crew |-> c, user |-> u, about |-> {<<c, u>>}]
  <2>1. s \in Request
    BY DEF Request, AddMemberRequest, Things
  <2>2. Facts(s)
    BY <1>0, <1>3, NoneAssumption
       DEF Facts, AdminFacts, ClashFacts, AddMemberRead, RequirePermission, LiveCrew, LiveUser
  <2> QED BY <1>3, <2>1, <2>2, BeginStep DEF AddMemberRead
<1> QED BY <1>1, <1>2, <1>3

-----------------------------------------------------------------------------
(* The commits. *)

\* A row added to users, by a registration or by an administrator.
LEMMA UserAdded ==
    ASSUME IInv, NEW u \in Users, users[u].tenant = None, NEW t \in Tenants,
           NEW email \in Emails, NEW role \in Role, NEW active \in BOOLEAN,
           role # "platform_owner", role \in AdminRoles => NewTenant(t),
           users' = [users EXCEPT ![u] = NewUser(t, email, role, active)],
           UNCHANGED <<crews, members>>,
           session' \in [Workers -> Request \cup {Idle}], raced' = raced
    PROVE  /\ TypeOK' /\ ActiveIsThere' /\ NoOwner' /\ OneAdmin'
           /\ Frame({<<t, email>>})
           /\ NewTenant(t) => Frame({})
<1>0. TypeOK /\ ActiveIsThere /\ NoOwner /\ OneAdmin /\ t # None
  BY NoneAssumption DEF IInv
<1>1. NewUser(t, email, role, active) \in UserRow
  BY DEF NewUser, UserRow
<1>2. \A v \in Users : users'[v] = IF v = u THEN NewUser(t, email, role, active) ELSE users[v]
  BY <1>0 DEF TypeOK
<1>3. TypeOK'
  <2>1. users' \in [Users -> UserRow]
    BY <1>0, <1>1 DEF TypeOK
  <2>2. \A c \in Crews, v \in Users :
           members[<<c, v>>] # "none" =>
               crews[c].tenant # None /\ users'[v].tenant = crews[c].tenant
    BY <1>0, <1>2 DEF TypeOK
  <2> QED BY <1>0, <2>1, <2>2 DEF TypeOK
<1>4. ActiveIsThere' /\ NoOwner'
  BY <1>0, <1>2 DEF ActiveIsThere, NoOwner, NewUser
<1>5. OneAdmin'
  BY <1>0, <1>2 DEF OneAdmin, AdminOf, NewUser, NewTenant
<1>6. RowsStay /\ NoPromotion
  BY <1>0, <1>2 DEF RowsStay, NoPromotion, NewUser
<1>7. NamesIn({<<t, email>>}) /\ (NewTenant(t) => NamesIn({}))
  BY <1>0, <1>2 DEF NamesIn, NewUser
<1> QED BY <1>3, <1>4, <1>5, <1>6, <1>7 DEF Frame

\* An update of a row of users that leaves tenant and email and gives nobody a role.
LEMMA UserChanged ==
    ASSUME IInv, NEW u \in Users, users[u].tenant # None, NEW row \in UserRow,
           users' = [users EXCEPT ![u] = row],
           row.tenant = users[u].tenant, row.email = users[u].email,
           row.role \in AdminRoles => row.role = users[u].role,
           users[u].deleted => row.deleted,
           UNCHANGED <<crews, members>>,
           session' \in [Workers -> Request \cup {Idle}], raced' = raced
    PROVE  /\ TypeOK' /\ ActiveIsThere' /\ NoOwner' /\ OneAdmin'
           /\ \A A : Frame(A)
<1>0. TypeOK /\ ActiveIsThere /\ NoOwner /\ OneAdmin
  BY DEF IInv
<1>1. \A v \in Users : users'[v] = IF v = u THEN row ELSE users[v]
  BY <1>0 DEF TypeOK
<1>2. TypeOK'
  <2>1. users' \in [Users -> UserRow]
    BY <1>0 DEF TypeOK
  <2>2. \A c \in Crews, v \in Users :
           members[<<c, v>>] # "none" =>
               crews[c].tenant # None /\ users'[v].tenant = crews[c].tenant
    BY <1>0, <1>1 DEF TypeOK
  <2> QED BY <1>0, <2>1, <2>2 DEF TypeOK
<1>3. ActiveIsThere' /\ NoOwner'
  BY <1>0, <1>1 DEF ActiveIsThere, NoOwner, AdminRoles
<1>4. OneAdmin'
  BY <1>0, <1>1 DEF OneAdmin, AdminOf
<1>5. ASSUME NEW A PROVE Frame(A)
  BY <1>0, <1>1 DEF Frame, RowsStay, NoPromotion, NamesIn
<1> QED BY <1>2, <1>3, <1>4, <1>5

LEMMA UserCommits ==
    ASSUME IInv, NEW k \in Workers
    PROVE  /\ \A u \in Users : CreateUserCommit(k, u) => IInv'
           /\ UpdateUserCommit(k) => IInv'
           /\ DeactivateUserCommit(k) => IInv'
<1> DEFINE s == session[k]
<1>0. TypeOK /\ ActiveIsThere /\ NoOwner /\ s \in Request \cup {Idle} /\ Facts(s)
  BY DEF IInv, TypeOK, SessionsHold
<1>d. Done(k) => session' \in [Workers -> Request \cup {Idle}] /\ raced' = raced
  BY <1>0 DEF TypeOK, Done
<1>1. ASSUME NEW u \in Users, CreateUserCommit(k, u) PROVE IInv'
  <2>1. s \in CreateUserRequest /\ s.role \notin AdminRoles /\ <<s.tenant, s.email>> \in s.about
    BY <1>0, <1>1, RequestKinds DEF CreateUserCommit, Serving, Facts, AdminFacts, ClashFacts
  <2>2. /\ s.tenant \in Tenants /\ s.email \in Emails /\ s.role \in Role /\ s.active \in BOOLEAN
        /\ s.role # "platform_owner"
    BY <2>1 DEF CreateUserRequest, AdminRoles
  <2>3. /\ users[u].tenant = None /\ Done(k) /\ UNCHANGED <<crews, members>>
        /\ users' = [users EXCEPT ![u] = NewUser(s.tenant, s.email, s.role, s.active)]
    BY <1>1 DEF CreateUserCommit
  <2>4. /\ TypeOK' /\ ActiveIsThere' /\ NoOwner' /\ OneAdmin'
        /\ Frame({<<s.tenant, s.email>>})
    BY <1>d, <2>1, <2>2, <2>3, UserAdded
  <2>5. Frame(s.about)
    BY <2>1, <2>4 DEF Frame, NamesIn
  <2> QED BY <2>3, <2>4, <2>5, CommitStep
<1>2. ASSUME UpdateUserCommit(k) PROVE IInv'
  <2> DEFINE u == s.user
             row == [users[u] EXCEPT !.role = Written(@, s.seen.role, s.role),
                                     !.active = Written(@, s.seen.active, s.active)]
  <2>1. s \in UpdateUserRequest /\ s.role \notin AdminRoles
        /\ users[u].tenant = users[s.by].tenant /\ users[s.by].tenant # None
    BY <1>0, <1>2, RequestKinds DEF UpdateUserCommit, Serving, Facts, AdminFacts, Chief
  <2>2. u \in Users /\ s.role \in Role \cup {None} /\ s.active \in BOOLEAN \cup {None}
    BY <2>1 DEF UpdateUserRequest
  <2>3. users[u] \in UserRow
    BY <1>0, <2>2 DEF TypeOK
  <2>4. /\ Written(users[u].role, s.seen.role, s.role) \in Role
        /\ Written(users[u].role, s.seen.role, s.role) \in {users[u].role, s.role}
        /\ Written(users[u].active, s.seen.active, s.active) \in BOOLEAN
    BY <2>2, <2>3 DEF Written, UserRow
  <2>5. row \in UserRow /\ row.tenant = users[u].tenant /\ row.email = users[u].email
        /\ row.deleted = users[u].deleted
        /\ (row.role \in AdminRoles => row.role = users[u].role)
    BY <2>1, <2>3, <2>4 DEF UserRow
  <2>6. users' = [users EXCEPT ![u] = row] /\ Done(k) /\ UNCHANGED <<crews, members>>
    BY <1>0, <1>2, <2>2, <2>3 DEF UpdateUserCommit, TypeOK, UserRow
  <2>7. TypeOK' /\ ActiveIsThere' /\ NoOwner' /\ OneAdmin' /\ Frame(s.about)
    BY <1>d, <2>1, <2>2, <2>5, <2>6, UserChanged
  <2> QED BY <2>6, <2>7, CommitStep
<1>3. ASSUME DeactivateUserCommit(k) PROVE IInv'
  <2> DEFINE u == s.user
             row == [users[u] EXCEPT !.deleted = TRUE,
                                     !.active = Written(@, s.seen.active, FALSE)]
  <2>1. s \in DeactivateUserRequest
        /\ users[u].tenant = users[s.by].tenant /\ users[s.by].tenant # None
    BY <1>0, <1>3, RequestKinds DEF DeactivateUserCommit, Serving, Facts, AdminFacts, Chief
  <2>2. u \in Users
    BY <2>1 DEF DeactivateUserRequest
  <2>3. users[u] \in UserRow
    BY <1>0, <2>2 DEF TypeOK
  <2>4. Written(users[u].active, s.seen.active, FALSE) \in BOOLEAN
    BY <2>3 DEF Written, UserRow
  <2>5. row \in UserRow /\ row.tenant = users[u].tenant /\ row.email = users[u].email
        /\ row.deleted = TRUE /\ row.role = users[u].role
    BY <2>3, <2>4 DEF UserRow
  <2>6. users' = [users EXCEPT ![u] = row] /\ Done(k) /\ UNCHANGED <<crews, members>>
    BY <1>0, <1>3, <2>2, <2>3 DEF DeactivateUserCommit, TypeOK, UserRow
  <2>7. TypeOK' /\ ActiveIsThere' /\ NoOwner' /\ OneAdmin' /\ Frame(s.about)
    BY <1>d, <2>1, <2>2, <2>5, <2>6, UserChanged
  <2> QED BY <2>6, <2>7, CommitStep
<1> QED BY <1>1, <1>2, <1>3

\* A row of crews is added, renamed or deleted.
LEMMA CrewChanged ==
    ASSUME IInv, NEW c \in Crews, NEW row \in CrewRow, NEW A,
           crews' = [crews EXCEPT ![c] = row],
           row.tenant # None, crews[c].tenant \in {None, row.tenant},
           <<row.tenant, row.code>> \notin A =>
              /\ crews[c].tenant = row.tenant /\ crews[c].code = row.code
              /\ crews[c].deleted => row.deleted,
           UNCHANGED <<users, members>>,
           session' \in [Workers -> Request \cup {Idle}], raced' = raced
    PROVE  TypeOK' /\ ActiveIsThere' /\ NoOwner' /\ OneAdmin' /\ Frame(A)
<1>0. TypeOK /\ ActiveIsThere /\ NoOwner /\ OneAdmin
  BY DEF IInv
<1>1. \A d \in Crews : crews'[d] = IF d = c THEN row ELSE crews[d]
  BY <1>0 DEF TypeOK
<1>2. TypeOK'
  <2>1. crews' \in [Crews -> CrewRow]
    BY <1>0 DEF TypeOK
  <2>2. \A d \in Crews, u \in Users :
           members[<<d, u>>] # "none" =>
               crews'[d].tenant # None /\ users[u].tenant = crews'[d].tenant
    BY <1>0, <1>1 DEF TypeOK
  <2> QED BY <1>0, <2>1, <2>2 DEF TypeOK
<1>3. ActiveIsThere' /\ NoOwner' /\ OneAdmin'
  BY <1>0 DEF ActiveIsThere, NoOwner, OneAdmin, AdminOf
<1>4. Frame(A)
  BY <1>0, <1>1 DEF Frame, RowsStay, NoPromotion, NamesIn
<1> QED BY <1>2, <1>3, <1>4

\* A membership begins or ends.
LEMMA MemberChanged ==
    ASSUME IInv, NEW c \in Crews, NEW u \in Users, NEW state \in Membership, NEW A,
           crews[c].tenant # None, users[u].tenant = crews[c].tenant,
           members' = [members EXCEPT ![<<c, u>>] = state],
           state = "current" => <<c, u>> \in A,
           UNCHANGED <<users, crews>>,
           session' \in [Workers -> Request \cup {Idle}], raced' = raced
    PROVE  TypeOK' /\ ActiveIsThere' /\ NoOwner' /\ OneAdmin' /\ Frame(A)
<1>0. TypeOK /\ ActiveIsThere /\ NoOwner /\ OneAdmin
  BY DEF IInv
<1>1. \A d \in Crews, v \in Users :
         members'[<<d, v>>] = IF d = c /\ v = u THEN state ELSE members[<<d, v>>]
  BY <1>0 DEF TypeOK
<1>2. TypeOK'
  <2>1. members' \in [Crews \X Users -> Membership]
    BY <1>0 DEF TypeOK
  <2> QED BY <1>0, <1>1, <2>1 DEF TypeOK
<1>3. ActiveIsThere' /\ NoOwner' /\ OneAdmin'
  BY <1>0 DEF ActiveIsThere, NoOwner, OneAdmin, AdminOf
<1>4. Frame(A)
  BY <1>0, <1>1 DEF Frame, RowsStay, NoPromotion, NamesIn
<1> QED BY <1>2, <1>3, <1>4

LEMMA CrewCommits ==
    ASSUME IInv, NEW k \in Workers
    PROVE  /\ \A c \in Crews : CreateCrewCommit(k, c) => IInv'
           /\ UpdateCrewCommit(k) => IInv'
           /\ AddMemberCommit(k) => IInv'
<1> DEFINE s == session[k]
<1>0. TypeOK /\ s \in Request \cup {Idle} /\ Facts(s)
  BY DEF IInv, TypeOK, SessionsHold
<1>d. Done(k) => session' \in [Workers -> Request \cup {Idle}] /\ raced' = raced
  BY <1>0 DEF TypeOK, Done
<1>1. ASSUME NEW c \in Crews, CreateCrewCommit(k, c) PROVE IInv'
  <2> DEFINE row == [tenant |-> s.tenant, code |-> s.code, deleted |-> FALSE]
  <2>1. s \in CreateCrewRequest /\ <<s.tenant, s.code>> \in s.about
    BY <1>0, <1>1, RequestKinds DEF CreateCrewCommit, Serving, Facts, ClashFacts
  <2>2. row \in CrewRow /\ row.tenant # None
    BY <2>1, NoneAssumption DEF CreateCrewRequest, CrewRow
  <2>3. /\ crews[c].tenant = None /\ Done(k) /\ UNCHANGED <<users, members>>
        /\ crews' = [crews EXCEPT ![c] = row]
    BY <1>1 DEF CreateCrewCommit
  <2>4. TypeOK' /\ ActiveIsThere' /\ NoOwner' /\ OneAdmin' /\ Frame(s.about)
    BY <1>d, <2>1, <2>2, <2>3, CrewChanged
  <2> QED BY <2>3, <2>4, CommitStep
<1>2. ASSUME UpdateCrewCommit(k) PROVE IInv'
  <2> DEFINE c == s.crew
             row == [crews[c] EXCEPT !.code = s.code]
  <2>1. s \in UpdateCrewRequest /\ <<s.tenant, s.code>> \in s.about /\ crews[c].tenant = s.tenant
    BY <1>0, <1>2, RequestKinds DEF UpdateCrewCommit, Serving, Facts, ClashFacts
  <2>2. c \in Crews /\ crews[c] \in CrewRow
    BY <1>0, <2>1 DEF UpdateCrewRequest, TypeOK
  <2>3. /\ row \in CrewRow /\ row.tenant = s.tenant /\ row.code = s.code /\ row.tenant # None
    BY <2>1, <2>2, NoneAssumption DEF UpdateCrewRequest, CrewRow
  <2>4. Done(k) /\ UNCHANGED <<users, members>> /\ crews' = [crews EXCEPT ![c] = row]
    BY <1>0, <1>2, <2>2 DEF UpdateCrewCommit, TypeOK, CrewRow
  <2>5. TypeOK' /\ ActiveIsThere' /\ NoOwner' /\ OneAdmin' /\ Frame(s.about)
    BY <1>d, <2>1, <2>2, <2>3, <2>4, CrewChanged
  <2> QED BY <2>4, <2>5, CommitStep
<1>3. ASSUME AddMemberCommit(k) PROVE IInv'
  <2>1. /\ s \in AddMemberRequest /\ <<s.crew, s.user>> \in s.about
        /\ crews[s.crew].tenant # None /\ users[s.user].tenant = crews[s.crew].tenant
    BY <1>0, <1>3, RequestKinds DEF AddMemberCommit, Serving, Facts, ClashFacts
  <2>2. s.crew \in Crews /\ s.user \in Users
    BY <2>1 DEF AddMemberRequest
  <2>3. /\ Done(k) /\ UNCHANGED <<users, crews>>
        /\ members' = [members EXCEPT ![<<s.crew, s.user>>] = "current"]
    BY <1>3 DEF AddMemberCommit
  <2>4. TypeOK' /\ ActiveIsThere' /\ NoOwner' /\ OneAdmin' /\ Frame(s.about)
    BY <1>d, <2>1, <2>2, <2>3, MemberChanged DEF Membership
  <2> QED BY <2>3, <2>4, CommitStep
<1> QED BY <1>1, <1>2, <1>3

-----------------------------------------------------------------------------
(* Requests of one step. *)

LEMMA OneStepRequests ==
    ASSUME IInv
    PROVE  /\ \A u \in Users, t \in Tenants, email \in Emails : Register(u, t, email) => IInv'
           /\ \A by \in Users, c \in Crews : DeleteCrew(by, c) => IInv'
           /\ \A by \in Users, c \in Crews, u \in Users : RemoveMember(by, c, u) => IInv'
<1>0. TypeOK /\ session \in [Workers -> Request \cup {Idle}]
  BY DEF IInv, TypeOK
<1>t. \A by \in Users : users[by].active => users[by].tenant # None
  BY DEF IInv, ActiveIsThere
<1>1. ASSUME NEW u \in Users, NEW t \in Tenants, NEW email \in Emails, Register(u, t, email)
      PROVE  IInv'
  <2>1. /\ users[u].tenant = None /\ NewTenant(t) /\ UNCHANGED <<crews, members, session, raced>>
        /\ users' = [users EXCEPT ![u] = NewUser(t, email, "tenant_admin", TRUE)]
    BY <1>1 DEF Register, NewTenant
  <2>2. "tenant_admin" \in Role /\ "tenant_admin" # "platform_owner"
    BY DEF Role
  <2>3. TypeOK' /\ ActiveIsThere' /\ NoOwner' /\ OneAdmin' /\ Frame({})
    BY <1>0, <2>1, <2>2, UserAdded
  <2> QED BY <2>1, <2>3, TableStep
<1>2. ASSUME NEW by \in Users, NEW c \in Crews, DeleteCrew(by, c) PROVE IInv'
  <2> DEFINE row == [crews[c] EXCEPT !.deleted = TRUE]
  <2>1. crews[c].tenant # None /\ crews[c] \in CrewRow
    BY <1>0, <1>2, <1>t DEF DeleteCrew, RequirePermission, LiveCrew, TypeOK
  <2>2. /\ row \in CrewRow /\ row.tenant = crews[c].tenant /\ row.code = crews[c].code
        /\ row.deleted = TRUE
    BY <2>1 DEF CrewRow
  <2>3. UNCHANGED <<users, members, session, raced>> /\ crews' = [crews EXCEPT ![c] = row]
    BY <1>0, <1>2, <2>1 DEF DeleteCrew, TypeOK, CrewRow
  <2>4. TypeOK' /\ ActiveIsThere' /\ NoOwner' /\ OneAdmin' /\ Frame({})
    BY <1>0, <2>1, <2>2, <2>3, CrewChanged
  <2> QED BY <2>3, <2>4, TableStep
<1>3. ASSUME NEW by \in Users, NEW c \in Crews, NEW u \in Users, RemoveMember(by, c, u)
      PROVE  IInv'
  <2>1. /\ members[<<c, u>>] = "current" /\ UNCHANGED <<users, crews, session, raced>>
        /\ members' = [members EXCEPT ![<<c, u>>] = "ended"]
    BY <1>3 DEF RemoveMember
  <2>2. crews[c].tenant # None /\ users[u].tenant = crews[c].tenant
    BY <1>0, <2>1 DEF TypeOK
  <2>3. TypeOK' /\ ActiveIsThere' /\ NoOwner' /\ OneAdmin' /\ Frame({})
    BY <1>0, <2>1, <2>2, MemberChanged DEF Membership
  <2> QED BY <2>1, <2>3, TableStep
<1> QED BY <1>1, <1>2, <1>3

LEMMA RollbackKeeps ==
    ASSUME IInv, NEW k \in Workers, Rollback(k)
    PROVE  IInv'
<1>1. /\ TypeOK /\ ActiveIsThere /\ NoOwner /\ OneAdmin
      /\ Done(k) /\ UNCHANGED <<users, crews, members>>
  BY DEF IInv, Rollback
<1>2. TypeOK' /\ ActiveIsThere' /\ NoOwner' /\ OneAdmin'
  BY <1>1 DEF Done, TypeOK, ActiveIsThere, NoOwner, OneAdmin, AdminOf
<1>3. Frame(session[k].about)
  BY <1>1 DEF Frame, RowsStay, NoPromotion, NamesIn
<1> QED BY <1>1, <1>2, <1>3, CommitStep

-----------------------------------------------------------------------------

\* The invariant holds of every behaviour.
THEOREM Invariance == Spec => []IInv
<1>1. Init => IInv
  <2> SUFFICES ASSUME Init PROVE IInv
    OBVIOUS
  <2>1. TypeOK
    BY DEF Init, TypeOK, NoUser, NewUser, NoCrew, UserRow, CrewRow, Role, Membership
  <2>2. \A u \in Users : users[u].role = "employee" /\ users[u].active = FALSE
    BY DEF Init, NoUser, NewUser
  <2>3. ActiveIsThere /\ NoOwner /\ OneAdmin
    BY <2>2 DEF ActiveIsThere, NoOwner, OneAdmin, AdminOf, AdminRoles
  <2>4. \A k \in Workers : session[k] = Idle
    BY DEF Init
  <2>5. OverlapRaced /\ SessionsHold
    BY <2>4 DEF OverlapRaced, SessionsHold, Facts, AdminFacts, ClashFacts, Idle
  <2> QED BY <2>1, <2>3, <2>5 DEF IInv
<1>2. IInv /\ [Next]_vars => IInv'
  <2> SUFFICES ASSUME IInv, [Next]_vars PROVE IInv'
    OBVIOUS
  <2>1. CASE UNCHANGED vars
    <3>1. UNCHANGED <<users, crews, members, session, raced>>
      BY <2>1 DEF vars
    <3>2. TypeOK' /\ ActiveIsThere' /\ NoOwner' /\ OneAdmin'
      BY <3>1 DEF IInv, TypeOK, ActiveIsThere, NoOwner, OneAdmin, AdminOf
    <3> QED BY <3>1, <3>2, FrameOfNothing, TableStep
  <2>2. ASSUME NEW k \in Workers, NEW by \in Users, Read(k, by) PROVE IInv'
    BY <2>2, UserReads, CrewReads DEF Read
  <2>3. ASSUME NEW k \in Workers, Commit(k) PROVE IInv'
    BY <2>3, UserCommits, CrewCommits, RollbackKeeps DEF Commit
  <2> QED BY <2>1, <2>2, <2>3, OneStepRequests DEF Next
<1> QED BY <1>1, <1>2, PTL DEF Spec

\* Rows and sessions are well typed, and members are of the tenant of their crew.
THEOREM TypeCorrect == Spec => []TypeOK
<1>1. IInv => TypeOK
  BY DEF IInv
<1> QED BY <1>1, Invariance, PTL

\* Outside a race the checks for duplicates miss deleted rows and ended memberships only.
THEOREM ClashTheorem == Spec => []ClashExplained
<1>1. IInv => ClashExplained
  BY DEF IInv, ClashExplained, SessionsHold, Facts, ClashFacts
<1> QED BY <1>1, Invariance, PTL

-----------------------------------------------------------------------------
(* The action properties. *)

LEMMA AdminStep ==
    ASSUME IInv, Next, NEW t \in Tenants
    PROVE  /\ HasAdmin(t) /\ ~HasAdmin(t)' =>
                 \E k \in Workers : /\ session[k].op = "update_user"
                                    /\ session[k].by = session[k].user
                                    /\ users[session[k].user].tenant = t
                                    /\ session'[k] = Idle
           /\ Exists(t) /\ ~HasAdmin(t) => ~HasAdmin(t)'
<1> DEFINE Own == \E k \in Workers : /\ session[k].op = "update_user"
                                     /\ session[k].by = session[k].user
                                     /\ users[session[k].user].tenant = t
                                     /\ session'[k] = Idle
           Goal == /\ HasAdmin(t) /\ ~HasAdmin(t)' => Own
                   /\ Exists(t) /\ ~HasAdmin(t) => ~HasAdmin(t)'
<1>0. TypeOK /\ SessionsHold /\ t # None
  BY NoneAssumption DEF IInv
<1>1. CASE UNCHANGED users
  BY <1>1 DEF HasAdmin, Exists
<1>2. ASSUME NEW u \in Users, NEW n \in Tenants, NEW email \in Emails, Register(u, n, email)
      PROVE  Goal
  <2>1. \A v \in Users :
           users'[v] = IF v = u THEN NewUser(n, email, "tenant_admin", TRUE) ELSE users[v]
    BY <1>0, <1>2 DEF Register, TypeOK
  <2>2. users[u].tenant = None /\ \A v \in Users : users[v].tenant # n
    BY <1>2 DEF Register
  <2> QED BY <1>0, <2>1, <2>2 DEF HasAdmin, Exists, NewUser
<1>3. ASSUME NEW k \in Workers, NEW u \in Users, CreateUserCommit(k, u) PROVE Goal
  <2> DEFINE s == session[k]
  <2>1. \A v \in Users :
           users'[v] = IF v = u THEN NewUser(s.tenant, s.email, s.role, s.active) ELSE users[v]
    BY <1>0, <1>3 DEF CreateUserCommit, TypeOK
  <2>2. users[u].tenant = None /\ s.role \notin AdminRoles
    BY <1>0, <1>3 DEF CreateUserCommit, Serving, SessionsHold, Facts, AdminFacts
  <2> QED BY <1>0, <2>1, <2>2 DEF HasAdmin, NewUser
<1>4. ASSUME NEW k \in Workers, UpdateUserCommit(k) PROVE Goal
  <2> DEFINE s == session[k]
             u == s.user
             role == Written(users[u].role, s.seen.role, s.role)
             active == Written(users[u].active, s.seen.active, s.active)
  <2>1. s \in UpdateUserRequest
    BY <1>0, <1>4, RequestKinds DEF UpdateUserCommit, Serving, TypeOK
  <2>2. /\ s.op = "update_user" /\ s.role \notin AdminRoles /\ users[u].tenant = users[s.by].tenant
        /\ Chief(s.by) /\ (s.user = s.by => s.seen.active)
    BY <1>0, <1>4 DEF UpdateUserCommit, Serving, SessionsHold, Facts, AdminFacts
  <2>3. /\ u \in Users /\ users[u] \in UserRow
        /\ s.seen \in UserRow /\ s.active \in BOOLEAN \cup {None}
    BY <1>0, <2>1 DEF UpdateUserRequest, TypeOK
  <2>4. \A v \in Users :
           users'[v] = IF v = u THEN [users[u] EXCEPT !.role = role, !.active = active]
                                ELSE users[v]
    BY <1>0, <1>4, <2>3 DEF UpdateUserCommit, TypeOK, UserRow
  <2>5. /\ users'[u].tenant = users[u].tenant
        /\ users'[u].role = role /\ users'[u].active = active
    BY <2>3, <2>4 DEF UserRow
  <2>6. session'[k] = Idle
    BY <1>0, <1>4 DEF UpdateUserCommit, Done, TypeOK
  <2>7. ASSUME HasAdmin(t), ~HasAdmin(t)' PROVE Own
    <3>1. PICK v \in Users : AdminOf(v, t) /\ users[v].active
      BY <2>7 DEF HasAdmin, AdminOf
    <3>2. v = u
      BY <2>4, <2>7, <3>1 DEF HasAdmin, AdminOf
    <3>3. u = s.by
      BY <2>2, <3>1, <3>2 DEF Chief, AdminOf
    <3> QED BY <2>2, <2>6, <3>1, <3>2, <3>3 DEF AdminOf
  <2>8. ASSUME ~HasAdmin(t), HasAdmin(t)' PROVE FALSE
    <3>1. PICK v \in Users :
             users'[v].tenant = t /\ users'[v].role \in AdminRoles /\ users'[v].active
      BY <2>8 DEF HasAdmin
    <3>2. v = u
      BY <2>4, <2>8, <3>1 DEF HasAdmin
    <3>3. role \in AdminRoles /\ active /\ users[u].tenant = t
      BY <2>5, <3>1, <3>2
    <3>4. AdminOf(u, t)
      BY <2>2, <3>3 DEF Written, AdminOf
    <3>5. u = s.by /\ s.seen.active
      BY <2>2, <2>3, <3>4 DEF Chief, AdminOf
    <3>6. users[u].active
      BY <2>3, <3>3, <3>5, NoneIsNone DEF Written, UserRow
    <3> QED BY <2>3, <2>8, <3>4, <3>6 DEF HasAdmin, AdminOf
  <2> QED BY <2>7, <2>8
<1>5. ASSUME NEW k \in Workers, DeactivateUserCommit(k) PROVE Goal
  <2> DEFINE s == session[k]
             u == s.user
             active == Written(users[u].active, s.seen.active, FALSE)
  <2>1. s \in DeactivateUserRequest
    BY <1>0, <1>5, RequestKinds DEF DeactivateUserCommit, Serving, TypeOK
  <2>2. /\ u # s.by /\ users[u].tenant = users[s.by].tenant /\ Chief(s.by)
    BY <1>0, <1>5 DEF DeactivateUserCommit, Serving, SessionsHold, Facts, AdminFacts
  <2>3. u \in Users /\ users[u] \in UserRow
    BY <1>0, <2>1 DEF DeactivateUserRequest, TypeOK
  <2>4. \A v \in Users :
           users'[v] = IF v = u THEN [users[u] EXCEPT !.deleted = TRUE, !.active = active]
                                ELSE users[v]
    BY <1>0, <1>5, <2>3 DEF DeactivateUserCommit, TypeOK, UserRow
  <2>5. users'[u].tenant = users[u].tenant /\ users'[u].role = users[u].role
    BY <2>3, <2>4 DEF UserRow
  <2>6. ~AdminOf(u, t)
    BY <2>2, <2>3 DEF Chief, AdminOf
  <2> QED BY <2>4, <2>5, <2>6 DEF HasAdmin, AdminOf
<1>6. ASSUME NEW k \in Workers, Commit(k) PROVE Goal
  BY <1>1, <1>3, <1>4, <1>5, <1>6
     DEF Commit, CreateCrewCommit, UpdateCrewCommit, AddMemberCommit, Rollback
<1>7. ASSUME NEW k \in Workers, NEW by \in Users, Read(k, by) PROVE UNCHANGED users
  BY <1>7 DEF Read, CreateUserRead, UpdateUserRead, DeactivateUserRead, CreateCrewRead,
     UpdateCrewRead, AddMemberRead, Begin
<1>8. \A by \in Users, c \in Crews : DeleteCrew(by, c) => UNCHANGED users
  BY DEF DeleteCrew
<1>9. \A by \in Users, c \in Crews, u \in Users : RemoveMember(by, c, u) => UNCHANGED users
  BY DEF RemoveMember
<1> QED BY <1>1, <1>2, <1>6, <1>7, <1>8, <1>9 DEF Next

\* A tenant loses its administrator by his own PATCH only, and then for good.
THEOREM AdminTheorem == Spec => AdminGoesForGood
<1>1. IInv /\ [Next]_vars =>
         [\A t \in Tenants :
            /\ HasAdmin(t) /\ ~HasAdmin(t)' =>
                  \E k \in Workers : /\ session[k].op = "update_user"
                                     /\ session[k].by = session[k].user
                                     /\ users[session[k].user].tenant = t
                                     /\ session'[k] = Idle
            /\ Exists(t) /\ ~HasAdmin(t) => ~HasAdmin(t)']_vars
  BY AdminStep
<1> QED BY <1>1, Invariance, PTL DEF Spec, AdminGoesForGood

LEMMA LoginStep ==
    ASSUME IInv, Next, NEW u \in Users, CanLogIn(u), ~CanLogIn(u)', users'[u].active
    PROVE  \E v \in Users : /\ users[v].tenant = None
                            /\ users'[v].email = users[u].email
                            /\ users'[v].tenant # users[u].tenant
<1>0. TypeOK /\ SessionsHold /\ users[u].active /\ users[u].tenant # None
  BY DEF IInv, ActiveIsThere, CanLogIn
<1>1. CASE \A v \in Users : users'[v].email = users[v].email
  BY <1>1 DEF CanLogIn, LoginFinds
<1>2. ASSUME NEW v \in Users, NEW t, NEW email, NEW role, NEW active,
             users[v].tenant = None, t # users[u].tenant \/ email # users[u].email,
             users' = [users EXCEPT ![v] = NewUser(t, email, role, active)]
      PROVE  users'[v].email = users[u].email /\ users'[v].tenant # users[u].tenant
  <2>1. \A w \in Users :
           users'[w] = IF w = v THEN NewUser(t, email, role, active) ELSE users[w]
    BY <1>0, <1>2 DEF TypeOK
  <2>2. email = users[u].email
    BY <1>0, <1>2, <2>1 DEF CanLogIn, LoginFinds, NewUser
  <2> QED BY <1>2, <2>1, <2>2 DEF NewUser
<1>3. ASSUME NEW v \in Users, NEW t \in Tenants, NEW email \in Emails, Register(v, t, email)
      PROVE  \E w \in Users : /\ users[w].tenant = None
                              /\ users'[w].email = users[u].email
                              /\ users'[w].tenant # users[u].tenant
  BY <1>2, <1>3 DEF Register
<1>4. ASSUME NEW k \in Workers, NEW v \in Users, CreateUserCommit(k, v)
      PROVE  \E w \in Users : /\ users[w].tenant = None
                              /\ users'[w].email = users[u].email
                              /\ users'[w].tenant # users[u].tenant
  <2>1. u # v
    BY <1>0, <1>4 DEF CreateUserCommit
  <2>2. session[k].tenant # users[u].tenant \/ session[k].email # users[u].email
    BY <1>4, <2>1 DEF CreateUserCommit, EmailFits
  <2> QED BY <1>2, <1>4, <2>2 DEF CreateUserCommit
<1>5. ASSUME NEW k \in Workers, UpdateUserCommit(k) \/ DeactivateUserCommit(k)
      PROVE  \A v \in Users : users'[v].email = users[v].email
  BY <1>0, <1>5 DEF UpdateUserCommit, DeactivateUserCommit, TypeOK, UserRow
<1>6. ASSUME UNCHANGED users PROVE \A v \in Users : users'[v].email = users[v].email
  BY <1>6
<1>7. ASSUME NEW k \in Workers, Commit(k)
      PROVE  \/ \E w \in Users : /\ users[w].tenant = None
                                 /\ users'[w].email = users[u].email
                                 /\ users'[w].tenant # users[u].tenant
             \/ \A v \in Users : users'[v].email = users[v].email
  BY <1>4, <1>5, <1>6, <1>7
     DEF Commit, CreateCrewCommit, UpdateCrewCommit, AddMemberCommit, Rollback
<1>8. ASSUME NEW k \in Workers, NEW by \in Users, Read(k, by) PROVE UNCHANGED users
  BY <1>8 DEF Read, CreateUserRead, UpdateUserRead, DeactivateUserRead, CreateCrewRead,
     UpdateCrewRead, AddMemberRead, Begin
<1>9. /\ \A by \in Users, c \in Crews : DeleteCrew(by, c) => UNCHANGED users
      /\ \A by \in Users, c \in Crews, v \in Users : RemoveMember(by, c, v) => UNCHANGED users
  BY DEF DeleteCrew, RemoveMember
<1> QED BY <1>1, <1>3, <1>6, <1>7, <1>8, <1>9 DEF Next

\* A login stops working only when the user is disabled or another tenant takes the email.
THEOREM LoginTheorem == Spec => LoginKept
<1>1. IInv /\ [Next]_vars =>
         [\A u \in Users :
            CanLogIn(u) /\ ~CanLogIn(u)' =>
               \/ ~users'[u].active
               \/ \E v \in Users : /\ users[v].tenant = None
                                   /\ users'[v].email = users[u].email
                                   /\ users'[v].tenant # users[u].tenant]_vars
  BY LoginStep
<1> QED BY <1>1, Invariance, PTL DEF Spec, LoginKept

=============================================================================
