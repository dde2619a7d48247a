--------------------------------- MODULE Staff ---------------------------------
(***************************************************************************)
(* The users of several tenants, and the crews they form:                  *)
(*   backend/app/api/v1/users.py, crews.py, register and login of auth.py, *)
(*   backend/app/core/dependencies.py                                      *)
(*                                                                         *)
(* As in Catalog, a request reads in one step and commits in another, and  *)
(* a deleted row still counts for the unique constraints.  Every request   *)
(* but a registration is made by a user, whom get_current_user loads first *)
(* into the session the handler then uses.                                 *)
(***************************************************************************)
EXTENDS Naturals

CONSTANTS
    Tenants,
    Emails,
    Users,    \* ids a users row may get
    Crews,    \* ids a crews row may get
    Codes,    \* crew codes
    Blank,    \* the empty string among them
    Workers,  \* requests that can be in flight at the same time
    None      \* SQL NULL, or a field a payload leaves out

ASSUME NoneAssumption == None \notin Tenants
ASSUME BlankAssumption == Blank \in Codes

VARIABLES
    users,
    crews,
    members,  \* the crew_members row of a crew and a user
    session,  \* what the request each worker is serving has read
    raced     \* history: what two requests in flight at a time were about

vars == <<users, crews, members, session, raced>>

-----------------------------------------------------------------------------
(* Rows.  A row with its tenant None is not there. *)

Role == {"platform_owner", "tenant_admin", "manager", "employee", "client_user"}
AdminRoles == {"tenant_admin", "platform_owner"}
ASSUME NoneIsNoValue == None \notin Role /\ None \notin BOOLEAN

UserRow == [tenant : Tenants \cup {None}, email : Emails \cup {None}, role : Role,
            active : BOOLEAN, deleted : BOOLEAN]
CrewRow == [tenant : Tenants \cup {None}, code : Codes \cup {None}, deleted : BOOLEAN]

\* crew_members is unique in crew and user: there is no membership, a current one
\* (left_at IS NULL), or one that has ended.
Membership == {"none", "current", "ended"}

NewUser(t, email, role, active) ==
    [tenant |-> t, email |-> email, role |-> role, active |-> active, deleted |-> FALSE]

NoUser == NewUser(None, None, "employee", FALSE)
NoCrew == [tenant |-> None, code |-> None, deleted |-> FALSE]
Idle == [op |-> "idle", about |-> {}]

\* What a request checks and writes: an email or a code of a tenant, a membership.
Things == (Tenants \X Emails) \cup (Tenants \X Codes) \cup (Crews \X Users)

\* _get_user_or_404, _get_crew_or_404
LiveUser(u, t) == users[u].tenant = t /\ ~users[u].deleted
LiveCrew(c, t) == crews[c].tenant = t /\ ~crews[c].deleted

EmailFitsAlways(u, t, email) == TRUE

\* The unique constraints on (tenant_id, email) and (tenant_id, code).
EmailFits(u, t, email) ==
    \A v \in Users \ {u} : users[v].tenant = t => users[v].email # email
CodeFits(c, t, code) ==
    \A d \in Crews \ {c} : crews[d].tenant = t => crews[d].code # code

WrittenAnyway(now, loaded, assigned) == assigned

\* The value a column has after an assignment to the loaded object: unchanged
\* columns are not written, nor are columns the payload leaves out.
Written(now, loaded, assigned) == IF assigned \in {None, loaded} THEN now ELSE assigned

-----------------------------------------------------------------------------
(* Who may do what. *)

RankOf(role) ==
    CASE role = "platform_owner" -> 100
      [] role = "tenant_admin"   -> 80
      [] role = "manager"        -> 60
      [] role = "employee"       -> 40
      [] role = "client_user"    -> 20

Upkeep == {"work_orders", "clients", "locations", "crews"} \X {"read", "write", "delete"}

\* _PERMISSION_MAP
Grants(role) ==
    CASE role = "tenant_admin" -> Upkeep \cup ({"users", "invoices"} \X {"read", "write"})
                                         \cup {<<"analytics", "read">>}
      [] role = "manager"      -> Upkeep \cup ({"invoices"} \X {"read", "write"})
                                         \cup ({"users", "analytics"} \X {"read"})
      [] role = "employee"     -> ({"work_orders", "clients", "locations", "crews"} \X {"read"})
                                         \cup {<<"work_orders", "checkin">>}
      [] role = "client_user"  -> {"work_orders", "invoices"} \X {"read"}
      [] OTHER                 -> {}

\* get_current_active_user asks for is_active, not for deleted_at.
RequireRole(by, roles) == users[by].active /\ users[by].role \in roles
RequirePermission(by, resource, action) ==
    /\ users[by].active
    /\ users[by].role = "platform_owner" \/ <<resource, action>> \in Grants(users[by].role)

-----------------------------------------------------------------------------
(* Sessions. *)

Begin(k, request) ==
    /\ session[k] = Idle
    /\ session' = [session EXCEPT ![k] = request]
    /\ raced' = raced \cup (request.about \cap UNION {session[j].about : j \in Workers})
    /\ UNCHANGED <<users, crews, members>>

Serving(k, op) == session[k].op = op
Done(k) == session' = [session EXCEPT ![k] = Idle] /\ UNCHANGED raced

\* An exception rolls the request back: a unique constraint, a bad payload, a lost
\* connection.
Rollback(k) ==
    /\ session[k] # Idle
    /\ Done(k)
    /\ UNCHANGED <<users, crews, members>>

-----------------------------------------------------------------------------
(* Users. *)

\* POST /auth/register: a new tenant with its first user.  Other tenants' emails
\* are not looked at.
Register(u, t, email) ==
    /\ users[u].tenant = None
    /\ \A v \in Users : users[v].tenant # t
    /\ users' = [users EXCEPT ![u] = NewUser(t, email, "tenant_admin", TRUE)]
    /\ UNCHANGED <<crews, members, session, raced>>

\* POST /auth/login looks the email up in all tenants, deleted users included, and
\* fails when it finds two.
LoginFinds(email) == {u \in Users : users[u].email = email}
CanLogIn(u) == users[u].active /\ LoginFinds(users[u].email) = {u}

Below(role, by) == RankOf(role) < RankOf(users[by].role)

CreateUserRead(k, by, email, role, active) ==
    LET t == users[by].tenant IN
    /\ RequireRole(by, AdminRoles)
    /\ \A u \in Users : LiveUser(u, t) => users[u].email # email
    /\ Below(role, by)
    /\ Begin(k, [op |-> "create_user", by |-> by, tenant |-> t, email |-> email,
                 role |-> role, active |-> active, about |-> {<<t, email>>}])

CreateUserCommit(k, u) ==
    LET s == session[k] IN
    /\ Serving(k, "create_user")
    /\ users[u].tenant = None
    /\ EmailFits(u, s.tenant, s.email)
    /\ users' = [users EXCEPT ![u] = NewUser(s.tenant, s.email, s.role, s.active)]
    /\ Done(k)
    /\ UNCHANGED <<crews, members>>

\* PATCH /users/{id} with role or is_active: for admins and above, also on
\* themselves, also on users above them.
UpdateUserReadByManagers(k, by, u, role, active) ==
    /\ users[by].active
    /\ RankOf(users[by].role) >= RankOf("manager")
    /\ LiveUser(u, users[by].tenant)
    /\ role # None => Below(role, by)
    /\ Begin(k, [op |-> "update_user", by |-> by, user |-> u, seen |-> users[u],
                 role |-> role, active |-> active, about |-> {}])

UpdateUserRead(k, by, u, role, active) ==
    /\ users[by].active
    /\ RankOf(users[by].role) >= RankOf("tenant_admin")
    /\ LiveUser(u, users[by].tenant)
    /\ role # None => Below(role, by)
    /\ Begin(k, [op |-> "update_user", by |-> by, user |-> u, seen |-> users[u],
                 role |-> role, active |-> active, about |-> {}])

UpdateUserCommit(k) ==
    LET s == session[k] IN
    /\ Serving(k, "update_user")
    /\ users' = [users EXCEPT ![s.user].role = Written(@, s.seen.role, s.role),
                              ![s.user].active = Written(@, s.seen.active, s.active)]
    /\ Done(k)
    /\ UNCHANGED <<crews, members>>

\* DELETE /users/{id}
DeactivateUserRead(k, by, u) ==
    /\ RequireRole(by, AdminRoles)
    /\ by # u
    /\ LiveUser(u, users[by].tenant)
    /\ Below(users[u].role, by)
    /\ Begin(k, [op |-> "deactivate_user", by |-> by, user |-> u, seen |-> users[u],
                 about |-> {}])

DeactivateUserCommit(k) ==
    LET s == session[k] IN
    /\ Serving(k, "deactivate_user")
    /\ users' = [users EXCEPT ![s.user].deleted = TRUE,
                              ![s.user].active = Written(@, s.seen.active, FALSE)]
    /\ Done(k)
    /\ UNCHANGED <<crews, members>>

-----------------------------------------------------------------------------
(* Crews.  The check for duplicates looks at live crews. *)

CodeUnused(t, code) == \A c \in Crews : LiveCrew(c, t) => crews[c].code # code

CreateCrewRead(k, by, code) ==
    LET t == users[by].tenant IN
    /\ RequirePermission(by, "crews", "write")
    /\ code # Blank
    /\ CodeUnused(t, code)
    /\ Begin(k, [op |-> "create_crew", tenant |-> t, code |-> code, about |-> {<<t, code>>}])

CreateCrewCommit(k, c) ==
    LET s == session[k] IN
    /\ Serving(k, "create_crew")
    /\ crews[c].tenant = None
    /\ CodeFits(c, s.tenant, s.code)
    /\ crews' = [crews EXCEPT ![c] = [tenant |-> s.tenant, code |-> s.code, deleted |-> FALSE]]
    /\ Done(k)
    /\ UNCHANGED <<users, members>>

\* PATCH /crews/{id} with another code, which may be the empty string here.
UpdateCrewRead(k, by, c, code) ==
    LET t == users[by].tenant IN
    /\ RequirePermission(by, "crews", "write")
    /\ LiveCrew(c, t)
    /\ code # crews[c].code
    /\ CodeUnused(t, code)
    /\ Begin(k, [op |-> "update_crew", crew |-> c, tenant |-> t, code |-> code,
                 about |-> {<<t, code>>}])

UpdateCrewCommit(k) ==
    LET s == session[k] IN
    /\ Serving(k, "update_crew")
    /\ CodeFits(s.crew, s.tenant, s.code)
    /\ crews' = [crews EXCEPT ![s.crew].code = s.code]
    /\ Done(k)
    /\ UNCHANGED <<users, members>>

\* DELETE /crews/{id}, whoever is in it.  One step: it decides on nothing that
\* another request changes but the same deletion.
DeleteCrew(by, c) ==
    /\ RequirePermission(by, "crews", "delete")
    /\ LiveCrew(c, users[by].tenant)
    /\ crews' = [crews EXCEPT ![c].deleted = TRUE]
    /\ UNCHANGED <<users, members, session, raced>>

AddMemberReadCrewOnly(k, by, c, u) ==
    /\ RequirePermission(by, "crews", "write")
    /\ LiveCrew(c, users[by].tenant)
    /\ LiveUser(u, users[by].tenant) /\ users[u].active
    /\ Begin(k, [op |-> "add_member", crew |-> c, user |-> u, about |-> {<<c, u>>}])

\* POST /crews/{id}/members
AddMemberRead(k, by, c, u) ==
    /\ RequirePermission(by, "crews", "write")
    /\ LiveCrew(c, users[by].tenant)
    /\ LiveUser(u, users[by].tenant) /\ users[u].active
    /\ members[<<c, u>>] # "current"
    /\ Begin(k, [op |-> "add_member", crew |-> c, user |-> u, about |-> {<<c, u>>}])

AddMemberCommit(k) ==
    LET s == session[k] IN
    /\ Serving(k, "add_member")
    /\ members[<<s.crew, s.user>>] = "none"
    /\ members' = [members EXCEPT ![<<s.crew, s.user>>] = "current"]
    /\ Done(k)
    /\ UNCHANGED <<users, crews>>

\* DELETE /crews/{id}/members/{user_id}: ends the membership and keeps the row.
RemoveMember(by, c, u) ==
    /\ RequirePermission(by, "crews", "write")
    /\ LiveCrew(c, users[by].tenant)
    /\ members[<<c, u>>] = "current"
    /\ members' = [members EXCEPT ![<<c, u>>] = "ended"]
    /\ UNCHANGED <<users, crews, session, raced>>

-----------------------------------------------------------------------------

Init ==
    /\ users = [u \in Users |-> NoUser]
    /\ crews = [c \in Crews |-> NoCrew]
    /\ members = [m \in Crews \X Users |-> "none"]
    /\ session = [k \in Workers |-> Idle]
    /\ raced = {}

Read(k, by) ==
    \/ \E email \in Emails, role \in Role, active \in BOOLEAN :
          CreateUserRead(k, by, email, role, active)
    \/ \E u \in Users, role \in Role \cup {None}, active \in BOOLEAN \cup {None} :
          UpdateUserRead(k, by, u, role, active)
    \/ \E u \in Users : DeactivateUserRead(k, by, u)
    \/ \E code \in Codes : CreateCrewRead(k, by, code)
    \/ \E c \in Crews, code \in Codes : UpdateCrewRead(k, by, c, code)
    \/ \E c \in Crews, u \in Users : AddMemberRead(k, by, c, u)

Commit(k) ==
    \/ \E u \in Users : CreateUserCommit(k, u)
    \/ UpdateUserCommit(k)
    \/ DeactivateUserCommit(k)
    \/ \E c \in Crews : CreateCrewCommit(k, c)
    \/ UpdateCrewCommit(k)
    \/ AddMemberCommit(k)
    \/ Rollback(k)

Next ==
    \/ \E u \in Users, t \in Tenants, email \in Emails : Register(u, t, email)
    \/ \E by \in Users, c \in Crews : DeleteCrew(by, c)
    \/ \E by \in Users, c \in Crews, u \in Users : RemoveMember(by, c, u)
    \/ \E k \in Workers, by \in Users : Read(k, by)
    \/ \E k \in Workers : Commit(k)

Spec == Init /\ [][Next]_vars

-----------------------------------------------------------------------------

CreateUserRequest == [op : {"create_user"}, by : Users, tenant : Tenants, email : Emails,
                      role : Role, active : BOOLEAN, about : SUBSET Things]
UpdateUserRequest == [op : {"update_user"}, by : Users, user : Users, seen : UserRow,
                      role : Role \cup {None}, active : BOOLEAN \cup {None},
                      about : {{}}]
DeactivateUserRequest == [op : {"deactivate_user"}, by : Users, user : Users, seen : UserRow,
                          about : {{}}]
CreateCrewRequest == [op : {"create_crew"}, tenant : Tenants, code : Codes,
                      about : SUBSET Things]
UpdateCrewRequest == [op : {"update_crew"}, crew : Crews, tenant : Tenants, code : Codes,
                      about : SUBSET Things]
AddMemberRequest == [op : {"add_member"}, crew : Crews, user : Users, about : SUBSET Things]
Request == CreateUserRequest \cup UpdateUserRequest \cup DeactivateUserRequest
           \cup CreateCrewRequest \cup UpdateCrewRequest \cup AddMemberRequest

\* Rows and sessions have the columns the models declare, and members are of the
\* tenant of their crew.
TypeOK ==
    /\ users \in [Users -> UserRow]
    /\ crews \in [Crews -> CrewRow]
    /\ members \in [Crews \X Users -> Membership]
    /\ session \in [Workers -> Request \cup {Idle}]
    /\ raced \in SUBSET Things
    /\ \A c \in Crews, u \in Users :
          members[<<c, u>>] # "none" =>
              crews[c].tenant # None /\ users[u].tenant = crews[c].tenant

\* A request about to insert or rename what its check let pass, and no other request
\* was about, meets the unique constraint in one case only: the email is a deleted
\* user's, the code a deleted crew's, the membership one that has ended.
ClashExplained ==
    \A k \in Workers :
        LET s == session[k] IN
        s.about \cap raced = {} =>
            /\ s.op = "create_user" => \A u \in Users :
                  users[u].tenant = s.tenant /\ users[u].email = s.email => users[u].deleted
            /\ s.op \in {"create_crew", "update_crew"} => \A c \in Crews :
                  crews[c].tenant = s.tenant /\ crews[c].code = s.code => crews[c].deleted
            /\ s.op = "add_member" => members[<<s.crew, s.user>>] # "current"

HasAdmin(t) ==
    \E u \in Users : users[u].tenant = t /\ users[u].role \in AdminRoles /\ users[u].active
Exists(t) == \E u \in Users : users[u].tenant = t

\* A tenant loses its administrator by his own PATCH and in no other way, which
\* DELETE refuses him; and then it has none for good, since nobody else may give the
\* role or the account back.
AdminGoesForGood ==
    [][\A t \in Tenants :
         /\ HasAdmin(t) /\ ~HasAdmin(t)' =>
               \E k \in Workers : /\ session[k].op = "update_user"
                                  /\ session[k].by = session[k].user
                                  /\ users[session[k].user].tenant = t
                                  /\ session'[k] = Idle
         /\ Exists(t) /\ ~HasAdmin(t) => ~HasAdmin(t)']_vars

\* A user who can log in stays able to until he is disabled, or until another tenant
\* gets a user with his email.
LoginKept ==
    [][\A u \in Users :
         CanLogIn(u) /\ ~CanLogIn(u)' =>
            \/ ~users'[u].active
            \/ \E v \in Users : /\ users[v].tenant = None
                                /\ users'[v].email = users[u].email
                                /\ users'[v].tenant # users[u].tenant]_vars

=============================================================================
