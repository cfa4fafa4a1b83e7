------------------------------- MODULE Roles --------------------------------
(***************************************************************************)
(* The roles, the permissions they grant and the members that hold them    *)
(* (roles_permissions_service.py, user_repository.py, rbac_seed.py).       *)
(*                                                                         *)
(* Creating a role and updating one take two commits each.  Permissions    *)
(* and holdings are rows of their own that a request replaces: it deletes  *)
(* the rows it has read, by their keys, and inserts new ones; deleting a   *)
(* row that is already gone is only logged.  A batch tells the rows        *)
(* of one request from those of another.                                   *)
(*                                                                         *)
(* Roles are found by name.  The migrations make names unique; a database  *)
(* made by init_db's create_all does not, and there an update may give a   *)
(* role the name of another.  A query by name then takes either of them,   *)
(* and the same one when it is asked again of the same rows.               *)
(*                                                                         *)
(* Keys of roles are never used again; accounts are not made or deleted    *)
(* here (see Accounts).  A request that fails changes nothing more and is            *)
(* ThreadFails, or a disabled guard where it fails before its first        *)
(* commit.                                                                 *)
(*                                                                         *)
(* A definition placed directly above another of the same parameters is a  *)
(* faulty variant of it that no action uses.                               *)
(***************************************************************************)
EXTENDS Naturals

CONSTANTS
    Members,        \* accounts
    Root,           \* the first superuser
    RoleIds,        \* keys of roles; those that are not in use bound creation
    BuiltIn,        \* the role of each system name after the first start
    Names,          \* normalised names of roles
    SystemNames,    \* names of the built-in roles
    AdminNames,     \* those that make their holder a superuser
    RootName,       \* the one every start gives to Root
    UniqueNames,    \* the database refuses two roles of one name
    Permissions,    \* permissions that exist
    AssignRoles,    \* "user:roles_assign", which managing roles requires
    ManageUsers,    \* "user:manage", which the edit of an account requires
    Seeded,         \* permissions each start gives to the built-in roles
    Lists,          \* lists of permissions that requests ask for
    Threads,        \* requests in flight
    Batches,        \* tells rows apart; bounds rows of one role or member
    MaxRequests     \* bound: requests

Absent == {"unused", "gone"}

ASSUME NamesAssumption ==
    /\ RootName \in AdminNames
    /\ AdminNames \subseteq SystemNames
    /\ SystemNames \subseteq Names
    /\ Names \cap Absent = {}
ASSUME BuiltInAssumption ==
    /\ BuiltIn \in [SystemNames -> RoleIds]
    /\ \A m, n \in SystemNames : BuiltIn[m] = BuiltIn[n] => m = n
ASSUME UniqueNamesAssumption == UniqueNames \in BOOLEAN
ASSUME SeededAssumption ==
    /\ Seeded \in [SystemNames -> SUBSET Permissions]
    /\ AssignRoles \in Seeded[RootName]
ASSUME ListsAssumption == Lists \subseteq SUBSET Permissions
ASSUME RootAssumption == Root \in Members
ASSUME BatchesAssumption == Batches # {}
ASSUME RequestsAssumption == MaxRequests \in Nat

VARIABLES
    name,       \* name of each role, or why there is none
    grants,     \* rows of permissions of each role
    held,       \* rows of roles of each member
    super,      \* is_superuser of each member
    thread,     \* the handler of each request and what it read
    requests,   \* requests so far
    asked,      \* history: permissions last asked for each role
    given,      \* history: roles last given to each member
    overlapped, \* history: requests that met another while in flight
    mixed,      \* history: roles whose permissions such a request last set
    disturbed   \* history: members whose roles such a request last set

directory == <<name, grants, asked, mixed>>
holders == <<held, super, given, disturbed>>
rvars == <<directory, holders, thread, requests, overlapped>>

Grant == [perm: Permissions, batch: Batches]
Holding == [role: RoleIds, batch: Batches]

Idle == [pc |-> "idle"]
ThreadState == {Idle}
    \cup [pc: {"creating"}, name: Names, perms: SUBSET Permissions]
    \cup [pc: {"granting"}, role: RoleIds, perms: SUBSET Permissions,
          seen: SUBSET Grant]
    \cup [pc: {"renaming"}, role: RoleIds, from: Names, to: Names,
          replace: BOOLEAN, perms: SUBSET Permissions]
    \cup [pc: {"deleting"}, role: RoleIds]
    \cup [pc: {"assigning"}, member: Members, roles: SUBSET RoleIds,
          seen: SUBSET Holding, was: BOOLEAN, admin: BOOLEAN]

TypeOK ==
    /\ name \in [RoleIds -> Names \cup Absent]
    /\ grants \in [RoleIds -> SUBSET Grant]
    /\ held \in [Members -> SUBSET Holding]
    /\ super \in [Members -> BOOLEAN]
    /\ thread \in [Threads -> ThreadState]
    /\ requests \in 0..MaxRequests
    /\ asked \in [RoleIds -> SUBSET Permissions]
    /\ given \in [Members -> SUBSET RoleIds]
    /\ overlapped \subseteq Threads
    /\ mixed \subseteq RoleIds
    /\ disturbed \subseteq Members

-----------------------------------------------------------------------------
Exists(r) == name[r] \in Names
Allowed(r) == {g.perm : g \in grants[r]}
HeldBy(m) == {h.role : h \in held[m]}

(* RequiresPermission: a superuser, or by a role.                          *)
May(m, perm) == super[m] \/ \E r \in HeldBy(m) : perm \in Allowed(r)
Authorised(perm) == \E m \in Members : May(m, perm)

(* The database accepts the name for r.                                    *)
Accepted(r, n) == UniqueNames => \A x \in RoleIds \ {r} : name[x] # n

At(t, pc) == thread[t].pc = pc
Move(t, s) == thread' = [thread EXCEPT ![t] = s]

(* MaxRequests bounds what administrators do.                              *)
Request == requests < MaxRequests /\ requests' = requests + 1

(* A request that reads what it will replace meets the rivals in flight    *)
(* that will replace or delete it too; one that ends is forgotten.         *)
Starts(t, s, rivals) ==
    /\ Move(t, s)
    /\ overlapped' = IF rivals = {} THEN overlapped ELSE overlapped \cup rivals \cup {t}
Ends(t) ==
    /\ Move(t, Idle)
    /\ overlapped' = overlapped \ {t}
Sharing(history, x, t) ==
    IF t \in overlapped THEN history \cup {x} ELSE history \ {x}

Setting(r) == {t \in Threads : At(t, "granting") /\ thread[t].role = r}
Giving(m) == {t \in Threads : At(t, "assigning") /\ thread[t].member = m}
GivingRole(r) == {t \in Threads : At(t, "assigning") /\ r \in thread[t].roles}
Removing(rs) == {t \in Threads : At(t, "deleting") /\ thread[t].role \in rs}

(* New rows are like none that exists or that a request in flight has      *)
(* read.  Rows of a kind there is none of may have any batch.              *)
Known(rows, readers) == rows \cup UNION {thread[t].seen : t \in readers}
AnyBatch == CHOOSE b \in Batches : TRUE
Granted(perms, b) == [perm: perms, batch: {b}]
HoldingsUnkeyed(roles, b) == [role: roles]
Holdings(roles, b) == [role: roles, batch: {b}]

-----------------------------------------------------------------------------
(* The default permissions of r if `role' is the role of each system name. *)
Defaults(role, r) == UNION {Seeded[n] : n \in {s \in SystemNames : role[s] = r}}

(* After the first start.                                                  *)
Init ==
    /\ name = [r \in RoleIds |->
                 IF \E n \in SystemNames : BuiltIn[n] = r
                 THEN CHOOSE n \in SystemNames : BuiltIn[n] = r
                 ELSE "unused"]
    /\ grants = [r \in RoleIds |-> Granted(Defaults(BuiltIn, r), AnyBatch)]
    /\ held = [m \in Members |->
                 IF m = Root THEN Holdings({BuiltIn[RootName]}, AnyBatch) ELSE {}]
    /\ super = [m \in Members |-> m = Root]
    /\ thread = [t \in Threads |-> Idle]
    /\ requests = 0
    /\ asked = [r \in RoleIds |-> Defaults(BuiltIn, r)]
    /\ overlapped = {}
    /\ mixed = {}
    /\ given = [m \in Members |-> IF m = Root THEN {BuiltIn[RootName]} ELSE {}]
    /\ disturbed = {}

-----------------------------------------------------------------------------
(* Creating, updating and deleting roles.                                  *)

CreateRead(t, n, perms) ==
    /\ Request /\ At(t, "idle") /\ Authorised(AssignRoles)
    /\ \A r \in RoleIds : name[r] # n
    /\ Move(t, [pc |-> "creating", name |-> n, perms |-> perms])
    /\ UNCHANGED <<directory, holders, overlapped>>

CreateCommit(t) ==
    /\ At(t, "creating")
    /\ \E r \in {x \in RoleIds : name[x] = "unused"} :
          /\ Accepted(r, thread[t].name)
          /\ name' = [name EXCEPT ![r] = thread[t].name]
          /\ IF thread[t].perms = {} THEN Ends(t)
             ELSE Starts(t, [pc |-> "granting", role |-> r, seen |-> {},
                             perms |-> thread[t].perms], {})
    /\ UNCHANGED <<grants, asked, mixed, holders, requests>>

(* A request without a name keeps the one that was read.  A request        *)
(* without permissions does not replace them.                              *)
UpdateReadRenames(t, r, n, replace, perms) ==
    /\ Request /\ At(t, "idle") /\ Authorised(AssignRoles)
    /\ Exists(r)
    /\ Move(t, [pc |-> "renaming", role |-> r, from |-> name[r], to |-> n,
                replace |-> replace, perms |-> perms])
    /\ UNCHANGED <<directory, holders, overlapped>>
UpdateRead(t, r, n, replace, perms) ==
    /\ Request /\ At(t, "idle") /\ Authorised(AssignRoles)
    /\ Exists(r)
    /\ name[r] \in SystemNames => n = name[r]
    /\ Move(t, [pc |-> "renaming", role |-> r, from |-> name[r], to |-> n,
                replace |-> replace, perms |-> perms])
    /\ UNCHANGED <<directory, holders, overlapped>>

(* The first commit writes the name if it changed; the permissions to be   *)
(* replaced are read after it.                                             *)
UpdateCommit(t) ==
    LET me == thread[t] IN
    /\ At(t, "renaming")
    /\ Exists(me.role)
    /\ me.from # me.to => Accepted(me.role, me.to)
    /\ name' = IF me.from = me.to THEN name ELSE [name EXCEPT ![me.role] = me.to]
    /\ IF ~me.replace THEN Ends(t)
       ELSE Starts(t, [pc |-> "granting", role |-> me.role, seen |-> grants[me.role],
                       perms |-> me.perms], Setting(me.role))
    /\ UNCHANGED <<grants, asked, mixed, holders, requests>>

(* The second commit of both.                                              *)
GrantCommitAdds(t) ==
    LET me == thread[t] IN
    /\ At(t, "granting")
    /\ Exists(me.role)
    /\ grants' = [grants EXCEPT ![me.role] = @ \cup Granted(me.perms, AnyBatch)]
    /\ asked' = [asked EXCEPT ![me.role] = me.perms]
    /\ mixed' = Sharing(mixed, me.role, t)
    /\ Ends(t)
    /\ UNCHANGED <<name, holders, requests>>
GrantCommit(t) ==
    LET me == thread[t] IN
    /\ At(t, "granting")
    /\ Exists(me.role)
    /\ LET known == Known(grants[me.role], Setting(me.role))
           new == {b \in Batches : Granted(me.perms, b) \cap known = {}}
           b == CHOOSE x \in new : TRUE
       IN
       /\ new # {}
       /\ grants' = [grants EXCEPT ![me.role] = (@ \ me.seen) \cup Granted(me.perms, b)]
    /\ asked' = [asked EXCEPT ![me.role] = me.perms]
    /\ mixed' = Sharing(mixed, me.role, t)
    /\ Ends(t)
    /\ UNCHANGED <<name, holders, requests>>

DeleteReadUncounted(t, r) ==
    /\ Request /\ At(t, "idle") /\ Authorised(AssignRoles)
    /\ Exists(r) /\ name[r] \notin SystemNames
    /\ Starts(t, [pc |-> "deleting", role |-> r], GivingRole(r))
    /\ UNCHANGED <<directory, holders>>
DeleteRead(t, r) ==
    /\ Request /\ At(t, "idle") /\ Authorised(AssignRoles)
    /\ Exists(r) /\ name[r] \notin SystemNames
    /\ \A m \in Members : r \notin HeldBy(m)
    /\ Starts(t, [pc |-> "deleting", role |-> r], GivingRole(r))
    /\ UNCHANGED <<directory, holders>>

(* The rows of the role go with it.                                        *)
DeleteCommitKeepsHolders(t) ==
    LET r == thread[t].role IN
    /\ At(t, "deleting")
    /\ name' = [name EXCEPT ![r] = "gone"]
    /\ grants' = [grants EXCEPT ![r] = {}]
    /\ Ends(t)
    /\ UNCHANGED <<asked, mixed, holders, requests>>
DeleteCommit(t) ==
    LET r == thread[t].role IN
    /\ At(t, "deleting")
    /\ name' = [name EXCEPT ![r] = "gone"]
    /\ grants' = [grants EXCEPT ![r] = {}]
    /\ held' = [m \in Members |-> {h \in held[m] : h.role # r}]
    /\ Ends(t)
    /\ UNCHANGED <<asked, mixed, super, given, disturbed, requests>>

-----------------------------------------------------------------------------
(* Giving roles to members.                                                *)

AssignFrom(t, m, roles, admin) ==
    /\ Starts(t, [pc |-> "assigning", member |-> m, roles |-> roles,
                  seen |-> held[m], was |-> super[m], admin |-> admin],
              Giving(m) \cup Removing(roles))
    /\ UNCHANGED <<directory, holders>>

(* The identity role: any role of that name.                               *)
AssignRead(t, m, n) ==
    /\ Request /\ At(t, "idle") /\ Authorised(AssignRoles)
    /\ \E r \in RoleIds : name[r] = n /\ AssignFrom(t, m, {r}, n \in AdminNames)

(* The list of roles of an account's edit: every role of those names.  All *)
(* rows the member has are deleted in one statement, the last that is read *)
(* here.  A flag in the same request prevails over what the roles imply.   *)
AssignListRead(t, m, ns, flag) ==
    LET roles == {r \in RoleIds : name[r] \in ns} IN
    /\ Request /\ At(t, "idle") /\ Authorised(ManageUsers)
    /\ ns # {} => roles # {}
    /\ AssignFrom(t, m, roles, flag)

(* A role deleted meanwhile fails it.                                      *)
AssignCommit(t) ==
    LET me == thread[t] IN
    /\ At(t, "assigning")
    /\ \A r \in me.roles : Exists(r)
    /\ LET known == Known(held[me.member], Giving(me.member))
           new == {b \in Batches : Holdings(me.roles, b) \cap known = {}}
           b == CHOOSE x \in new : TRUE
       IN
       /\ new # {}
       /\ held' = [held EXCEPT ![me.member] = (@ \ me.seen) \cup Holdings(me.roles, b)]
    /\ super' = IF me.was = me.admin THEN super ELSE [super EXCEPT ![me.member] = me.admin]
    /\ given' = [given EXCEPT ![me.member] = me.roles]
    /\ disturbed' = Sharing(disturbed, me.member, t)
    /\ Ends(t)
    /\ UNCHANGED <<directory, requests>>

(* An account's edit may also set the flag by itself.                      *)
SetSuperuser(m, flag) ==
    /\ Request /\ Authorised(ManageUsers)
    /\ super' = [super EXCEPT ![m] = flag]
    /\ UNCHANGED <<directory, held, given, disturbed, thread, overlapped>>

-----------------------------------------------------------------------------
(* A handler fails, before or between its commits.                         *)
ThreadFails(t) ==
    /\ ~At(t, "idle")
    /\ Ends(t)
    /\ UNCHANGED <<directory, holders, requests>>

(* Every start gives the built-in roles what they lack of their defaults,  *)
(* and Root the role of RootName (init_db).  There always is a role of     *)
(* each system name (SystemRolesStay), so none is created.                 *)
SeedNewRoles(role) ==
    UNCHANGED <<grants, asked>>
SeedRoles(role) ==
    LET lacks(r) == Defaults(role, r) \ Allowed(r) IN
    /\ grants' = [r \in RoleIds |-> grants[r] \cup Granted(lacks(r), AnyBatch)]
    /\ asked' = [r \in RoleIds |-> asked[r] \cup lacks(r)]

RestoreRoot(r) ==
    IF r \in HeldBy(Root) THEN UNCHANGED holders
    ELSE /\ held' = [held EXCEPT ![Root] = @ \cup Holdings({r}, AnyBatch)]
         /\ super' = [super EXCEPT ![Root] = TRUE]
         /\ given' = [given EXCEPT ![Root] = @ \cup {r}]
         /\ UNCHANGED disturbed

Restart ==
    /\ thread' = [t \in Threads |-> Idle]
    /\ overlapped' = {}
    /\ \E role \in [SystemNames -> RoleIds] :
          /\ \A n \in SystemNames : name[role[n]] = n
          /\ SeedRoles(role)
          /\ RestoreRoot(role[RootName])
    /\ UNCHANGED <<name, mixed, requests>>

-----------------------------------------------------------------------------
Next ==
    \/ \E t \in Threads :
          \/ \E n \in Names, perms \in Lists : CreateRead(t, n, perms)
          \/ \E r \in RoleIds, n \in Names : UpdateRead(t, r, n, FALSE, {})
          \/ \E r \in RoleIds, n \in Names, perms \in Lists : UpdateRead(t, r, n, TRUE, perms)
          \/ \E r \in RoleIds : DeleteRead(t, r)
          \/ CreateCommit(t) \/ UpdateCommit(t) \/ GrantCommit(t) \/ DeleteCommit(t)
          \/ \E m \in Members, n \in Names : AssignRead(t, m, n)
          \/ \E m \in Members, ns \in SUBSET Names, flag \in BOOLEAN :
                AssignListRead(t, m, ns, flag)
          \/ AssignCommit(t) \/ ThreadFails(t)
    \/ \E m \in Members, flag \in BOOLEAN : SetSuperuser(m, flag)
    \/ Restart

Spec == Init /\ [][Next]_rvars

-----------------------------------------------------------------------------
(* Properties.                                                             *)

(* What was asked for a role last is granted, and nothing else unless the  *)
(* request that asked overlapped another (update_role, create_role).       *)
GrantsFollowRequests ==
    \A r \in RoleIds : Exists(r) =>
        /\ asked[r] \subseteq Allowed(r)
        /\ r \notin mixed => Allowed(r) = asked[r]

(* A member holds the roles given last, and no others unless the request   *)
(* overlapped another: one for the same member, or the deletion of a role  *)
(* it gives.  No other deletion takes a role away (delete_role counts the  *)
(* holders first).                                                         *)
HoldingsFollowAssignments ==
    \A m \in Members :
        /\ {r \in given[m] : Exists(r)} \subseteq HeldBy(m)
        /\ m \notin disturbed => HeldBy(m) = given[m]

(* "System roles cannot be deleted or have name changed"                   *)
(* (roles_permissions_service.py:21), though the name is checked long      *)
(* before the commit: there always is a role of each of these names.       *)
SystemRolesStay ==
    \A n \in SystemNames : \E r \in RoleIds : name[r] = n

(* Whatever administrators take from one another, a start makes Root able  *)
(* to manage roles again, also when several roles have the system name.    *)
RestartRestoresRoot ==
    [][Restart => May(Root, AssignRoles)']_rvars

-----------------------------------------------------------------------------
(* The directory these requests implement: see RoleDirectory.  Until a     *)
(* commit nothing of a request shows; at its commit it is done at once.    *)
Directory == INSTANCE RoleDirectory WITH
    title  <- name,
    grants <- [r \in RoleIds |-> Allowed(r)],
    holds  <- [m \in Members |-> HeldBy(m)]

(* Reading and replacing rows in two commits, keys, late deletions and     *)
(* starts in between: all that shows of them are operations of the         *)
(* directory (roles_permissions_service.py, user_repository.py, db.py).    *)
DirectorySpec == Directory!Spec
=============================================================================
