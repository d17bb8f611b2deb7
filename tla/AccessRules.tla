---------------------------- MODULE AccessRules -----------------------------
(***************************************************************************)
(* Who may use or control an application, and who sees a configuration     *)
(* resource.  Rights come from two places: bindings of a resource or an    *)
(* application to subjects (a user, an organisation, a department, a       *)
(* role), replaced as a whole by a PUT; and grants of roles, read through  *)
(* a Redis cache that nobody invalidates and that expires by itself.       *)
(***************************************************************************)
EXTENDS Naturals, FiniteSets

CONSTANTS Person,         \* users
          PlatformAdmin,  \* those with is_superuser
          OrgOf, DeptOf,  \* functions on Person; NoDept where there is none
          NoDept,
          Role,
          Resource,       \* profiles, skills, tools, MCP servers
          App,            \* application assets; AgentConfig is one of them
          AgentConfig,
          Caller,         \* requests running at the same time
          Bodies,         \* the bodies a PUT may carry: sets of items
          GrantActions,   \* the action lists a role may be granted
          GrantTtl        \* GRANT_TTL

ASSUME AccessAssumption ==
  /\ PlatformAdmin \subseteq Person /\ AgentConfig \in App
  /\ GrantTtl \in Nat \ {0}
  /\ {} \in GrantActions

VARIABLES binding,   \* [Resource \cup App -> SUBSET Row], agent_resource_binding
          rolesOf,   \* [Person -> SUBSET Role], sys_user_role
          grant,     \* [Role -> [App -> action list]], sys_role_asset_grant
          cached,    \* [Role -> Entry or NoEntry], Redis role grants
          call       \* [Caller -> what the request is doing]

VARIABLES since      \* history: [Role -> [grants -> seconds since the table or a read in
                     \* flight had them for the role, counted up to GrantTtl + 1]]

accessVars == <<binding, rolesOf, grant, cached, call, since>>

UseActions == {"read", "use", "write", "admin"}
ControlActions == {"write", "admin"}

Subject == ({"user"} \X Person) \cup ({"role"} \X Role)
             \cup ({"organization"} \X {OrgOf[u] : u \in Person})
             \cup ({"department"} \X ({DeptOf[u] : u \in Person} \ {NoDept}))
(* assert_subject_exists.                                                  *)
ASSUME BodiesAssumption == \A items \in Bodies : \A i \in items : i.subject \in Subject
Row == [subject : Subject, actions : {i.actions : i \in UNION Bodies} \cup {{"read", "use"}}]
Grants == [App -> GrantActions]
NoEntry == [value |-> "none"]
Entry == [value : Grants, left : Nat \ {0}]
Resting == [op |-> "resting"]
Call == {Resting} \cup [op : {"fill"}, role : Role, value : Grants]
          \cup [op : {"put"}, on : Resource \cup App, seen : SUBSET Row, items : Bodies]

Empty == [a \in App |-> {}]

AccessInit ==
  /\ binding = [x \in Resource \cup App |-> {}]
  /\ rolesOf = [u \in Person |-> {}]
  /\ grant = [r \in Role |-> Empty]
  /\ cached = [r \in Role |-> NoEntry]
  /\ call = [q \in Caller |-> Resting]
  /\ since = [r \in Role |-> [g \in Grants |-> IF g = Empty THEN 0 ELSE GrantTtl + 1]]

-----------------------------------------------------------------------------
(* Decisions: reads of bindings and grants.                                *)

SubjectsOf(u) ==
  {<<"user", u>>, <<"organization", OrgOf[u]>>}
    \cup {<<"role", r>> : r \in rolesOf[u]}
    \cup (IF DeptOf[u] = NoDept THEN {} ELSE {<<"department", DeptOf[u]>>})

(* _grants_for_user: what the cache holds for a role, else the table.      *)
KnownGrants(r) == IF cached[r] = NoEntry THEN grant[r] ELSE cached[r].value

(* check: the action itself or "admin" among the actions of some role.     *)
Check(u, app, action) ==
  \/ u \in PlatformAdmin
  \/ \E r \in rolesOf[u] : {action, "admin"} \cap KnownGrants(r)[app] # {}

(* list_accessible_assets, for one type: the same rule over the list.      *)
AccessibleApps(u, action) ==
  IF u \in PlatformAdmin THEN App
  ELSE {app \in App : \E r \in rolesOf[u] :
          action \in KnownGrants(r)[app] \/ "admin" \in KnownGrants(r)[app]}

RowsOfSubjects(x, subjects) == {b \in binding[x] : b.subject \in subjects}

BoundActions(u, app) == UNION {b.actions : b \in RowsOfSubjects(app, SubjectsOf(u))}

AppAllowed(u, app, needed) ==
  \/ u \in PlatformAdmin
  \/ needed \cap BoundActions(u, app) # {}
  \/ \E action \in needed : Check(u, app, action)

CanUseApp(u, app) == AppAllowed(u, app, UseActions)
CanControlApp(u, app) == AppAllowed(u, app, ControlActions)

SeesAllAgentConfig(u) == u \in PlatformAdmin \/ CanControlApp(u, AgentConfig)

(* The list: one query over all resources for the user's subjects.         *)
(* AnyBoundIds is the query without its condition on the actions.          *)
AnyBoundIds(u) == {x \in Resource : RowsOfSubjects(x, SubjectsOf(u)) # {}}
VisibleResourceIds(u) == {x \in Resource : \E b \in RowsOfSubjects(x, SubjectsOf(u)) :
                                    UseActions \cap b.actions # {}}

LoadVisibleRows(u) == IF SeesAllAgentConfig(u) THEN Resource ELSE VisibleResourceIds(u)

(* The detail page: the bindings of one resource, filtered in Python.      *)
CanSeeAgentResource(u, x) ==
  \/ SeesAllAgentConfig(u)
  \/ \E b \in binding[x] : b.subject \in SubjectsOf(u) /\ UseActions \cap b.actions # {}

-----------------------------------------------------------------------------
(* Requests that write.                                                    *)

(* _grants_for_user on a miss: the table is read, and the cache written a  *)
(* statement later, whatever was committed in between.                     *)
ReadGrants(q, r) ==
  /\ call[q] = Resting
  /\ cached[r] = NoEntry
  /\ call' = [call EXCEPT ![q] = [op |-> "fill", role |-> r, value |-> grant[r]]]
  /\ UNCHANGED <<binding, rolesOf, grant, cached, since>>

ExpiringLate(value) == [value |-> value, left |-> GrantTtl + 1]
Expiring(value) == [value |-> value, left |-> GrantTtl]
SetRoleGrants(q) ==
  /\ call[q].op = "fill"
  /\ cached' = [cached EXCEPT ![call[q].role] = Expiring(call[q].value)]
  /\ call' = [call EXCEPT ![q] = Resting]
  /\ UNCHANGED <<binding, rolesOf, grant, since>>

(* save_bindings: an empty action list means read and use.                 *)
RowFor(subject, actions) ==
  [subject |-> subject,
   actions |-> IF actions = {} THEN {"read", "use"} ELSE actions]

(* Redis refuses the write: the request fails, and nothing is cached.      *)
FailToCache(q) ==
  /\ call[q].op = "fill"
  /\ call' = [call EXCEPT ![q] = Resting]
  /\ UNCHANGED <<binding, rolesOf, grant, cached, since>>

(* replace_bindings: the rows it deletes are those its statement sees.     *)
PutBindings(q, x, items) ==
  /\ call[q] = Resting
  /\ call' = [call EXCEPT ![q] =
                [op |-> "put", on |-> x, seen |-> binding[x], items |-> items]]
  /\ UNCHANGED <<binding, rolesOf, grant, cached, since>>

(* Rows another PUT committed meanwhile stay.  The unique index refuses a  *)
(* second row about a subject, be the first such a row or of the same body.*)
Surviving(f) == binding[f.on] \ f.seen
NewRows(f) == {RowFor(i.subject, i.actions) : i \in f.items}
NoClash(f) == FALSE
Clash(f) == \E i \in f.items : \/ \E b \in Surviving(f) : b.subject = i.subject
                               \/ \E j \in f.items \ {i} : j.subject = i.subject
CommitBindings(q) ==
  LET f == call[q] IN
  /\ f.op = "put"
  /\ binding' = IF Clash(f) THEN binding
                ELSE [binding EXCEPT ![f.on] = Surviving(f) \cup NewRows(f)]
  /\ call' = [call EXCEPT ![q] = Resting]
  /\ UNCHANGED <<rolesOf, grant, cached, since>>

(* Roles and their grants have no endpoint: operators change the tables.   *)
ChangeGrants(r, g) ==
  /\ grant' = [grant EXCEPT ![r] = g]
  /\ since' = [since EXCEPT ![r][g] = 0]
  /\ UNCHANGED <<binding, rolesOf, cached, call>>

ChangeRoles(u, roles) ==
  /\ rolesOf' = [rolesOf EXCEPT ![u] = roles]
  /\ UNCHANGED <<binding, grant, cached, call, since>>

(* A request that read g may write it to the cache at any later time:      *)
(* nothing bounds what happens between its two statements.                 *)
Carried(r, g) == \E q \in Caller :
  call[q].op = "fill" /\ call[q].role = r /\ call[q].value = g

(* One second.                                                             *)
TickAccess ==
  /\ cached' = [r \in Role |->
       IF cached[r] = NoEntry \/ cached[r].left = 1 THEN NoEntry
       ELSE [cached[r] EXCEPT !.left = @ - 1]]
  /\ since' = [r \in Role |-> [g \in Grants |->
       IF g = grant[r] \/ Carried(r, g) THEN 0
       ELSE IF since[r][g] > GrantTtl THEN since[r][g] ELSE since[r][g] + 1]]
  /\ UNCHANGED <<binding, rolesOf, grant, call>>

AccessNext ==
  \/ TickAccess
  \/ \E q \in Caller :
       \/ SetRoleGrants(q) \/ FailToCache(q) \/ CommitBindings(q)
       \/ \E r \in Role : ReadGrants(q, r)
       \/ \E x \in Resource \cup App, items \in Bodies : PutBindings(q, x, items)
  \/ \E r \in Role, g \in Grants : ChangeGrants(r, g)
  \/ \E u \in Person, roles \in SUBSET Role : ChangeRoles(u, roles)

AccessSpec == AccessInit /\ [][AccessNext]_accessVars

-----------------------------------------------------------------------------
(* Type invariant of tables, cache and requests.                           *)
AccessTypeOK ==
  /\ binding \in [Resource \cup App -> SUBSET Row]
  /\ \A x \in Resource \cup App : \A b, c \in binding[x] : b.subject = c.subject => b = c
  /\ rolesOf \in [Person -> SUBSET Role]
  /\ grant \in [Role -> Grants]
  /\ cached \in [Role -> Entry \cup {NoEntry}]
  /\ call \in [Caller -> Call]
  /\ since \in [Role -> [Grants -> 0 .. GrantTtl + 1]]

(* However a right comes about, from whichever mix of bindings, cached and *)
(* fresh grants, the ways of asking for it agree: the list page of a       *)
(* configuration resource, filtered in SQL, with its detail page, filtered *)
(* in Python over action lists that may carry no usable action; the list   *)
(* of accessible assets with the check of one; and who controls an         *)
(* application may use it.                                                 *)
DecisionsAgree ==
  \A u \in Person :
    /\ \A x \in Resource : CanSeeAgentResource(u, x) <=> x \in LoadVisibleRows(u)
    /\ \A app \in App : /\ CanControlApp(u, app) => CanUseApp(u, app)
                        /\ \A a \in UseActions : app \in AccessibleApps(u, a) <=> Check(u, app, a)

(* A right withdrawn from a role is honoured only while a request that     *)
(* read it before has still to cache it, however long that takes, and for  *)
(* less than one lifetime after: what a decision uses was, less than       *)
(* GrantTtl seconds ago, in the table or in the hands of such a request.   *)
(* Nobody invalidates the cache, several requests may be that slow, and a  *)
(* late one overwrites what a quicker one cached.                          *)
StaleGrantsExpire ==
  \A r \in Role : since[r][KnownGrants(r)] < GrantTtl
=============================================================================
