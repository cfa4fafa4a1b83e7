----------------------------- MODULE RolesProofs ----------------------------
(***************************************************************************)
(* The permissions of roles and the roles of members, for every set of     *)
(* roles, members, names, permissions and requests in flight.              *)
(***************************************************************************)
EXTENDS Roles, TLAPS

(* The record of a request at each of its points.                          *)
LEMMA Fields ==
    ASSUME TypeOK, NEW t \in Threads
    PROVE  /\ At(t, "creating") =>
                /\ thread[t].name \in Names
                /\ thread[t].perms \in SUBSET Permissions
           /\ At(t, "granting") =>
                /\ thread[t].role \in RoleIds
                /\ thread[t].perms \in SUBSET Permissions
                /\ thread[t].seen \in SUBSET Grant
           /\ At(t, "renaming") =>
                /\ thread[t].role \in RoleIds
                /\ thread[t].from \in Names
                /\ thread[t].to \in Names
                /\ thread[t].replace \in BOOLEAN
                /\ thread[t].perms \in SUBSET Permissions
           /\ At(t, "deleting") => thread[t].role \in RoleIds
           /\ At(t, "assigning") =>
                /\ thread[t].member \in Members
                /\ thread[t].roles \in SUBSET RoleIds
                /\ thread[t].seen \in SUBSET Holding
                /\ thread[t].was \in BOOLEAN
                /\ thread[t].admin \in BOOLEAN
  BY DEF TypeOK, ThreadState, Idle, At

LEMMA RowsTyped ==
    /\ \A perms \in SUBSET Permissions, b \in Batches : Granted(perms, b) \in SUBSET Grant
    /\ \A roles \in SUBSET RoleIds, b \in Batches : Holdings(roles, b) \in SUBSET Holding
  BY DEF Granted, Holdings, Grant, Holding

LEMMA AnyBatchTyped == AnyBatch \in Batches
  BY BatchesAssumption DEF AnyBatch

(* What the rows of one request say.                                       *)
LEMMA RowsSay ==
    ASSUME NEW b
    PROVE  /\ \A perms : {g.perm : g \in Granted(perms, b)} = perms
           /\ \A roles : {h.role : h \in Holdings(roles, b)} = roles
<1>1. ASSUME NEW perms PROVE {g.perm : g \in Granted(perms, b)} = perms
  <2>1. ASSUME NEW p \in perms PROVE p \in {g.perm : g \in Granted(perms, b)}
    <3>1. [perm |-> p, batch |-> b] \in Granted(perms, b)
      BY DEF Granted
    <3> QED
      BY <3>1
  <2> QED
    BY <2>1 DEF Granted
<1>2. ASSUME NEW roles PROVE {h.role : h \in Holdings(roles, b)} = roles
  <2>1. ASSUME NEW r \in roles PROVE r \in {h.role : h \in Holdings(roles, b)}
    <3>1. [role |-> r, batch |-> b] \in Holdings(roles, b)
      BY DEF Holdings
    <3> QED
      BY <3>1
  <2> QED
    BY <2>1 DEF Holdings
<1> QED
  BY <1>1, <1>2

LEMMA MoveTyped ==
    ASSUME TypeOK, NEW t \in Threads, NEW s \in ThreadState, Move(t, s)
    PROVE  /\ thread' \in [Threads -> ThreadState]
           /\ thread'[t] = s
           /\ \A u \in Threads : u # t => thread'[u] = thread[u]
  BY DEF TypeOK, Move

LEMMA StartsTyped ==
    ASSUME TypeOK, NEW t \in Threads, NEW s \in ThreadState, NEW rivals \in SUBSET Threads,
           Starts(t, s, rivals)
    PROVE  /\ thread' \in [Threads -> ThreadState]
           /\ overlapped' \subseteq Threads
           /\ thread'[t] = s
           /\ \A u \in Threads : u # t => thread'[u] = thread[u]
  BY MoveTyped DEF TypeOK, Starts

LEMMA EndsTyped ==
    ASSUME TypeOK, NEW t \in Threads, Ends(t)
    PROVE  /\ thread' \in [Threads -> ThreadState]
           /\ overlapped' = overlapped \ {t}
           /\ thread'[t] = Idle
           /\ \A u \in Threads : u # t => thread'[u] = thread[u]
  BY MoveTyped DEF TypeOK, Ends, ThreadState

-----------------------------------------------------------------------------
LEMMA DefaultsTyped ==
    \A role, r : Defaults(role, r) \in SUBSET Permissions
  BY SeededAssumption DEF Defaults

LEMMA InitNames ==
    ASSUME Init
    PROVE  /\ \A n \in SystemNames : name[BuiltIn[n]] = n
           /\ \A r \in RoleIds : name[r] # "unused" => \E n \in SystemNames : BuiltIn[n] = r
           /\ \A r \in RoleIds : name[r] \in Names \cup Absent
<1>1. ASSUME NEW n \in SystemNames
      PROVE  name[BuiltIn[n]] = n
  <2>1. \E s \in SystemNames : BuiltIn[s] = BuiltIn[n]
    OBVIOUS
  <2>2. BuiltIn[n] \in RoleIds
    BY BuiltInAssumption
  <2>3. PICK s \in SystemNames : BuiltIn[s] = BuiltIn[n] /\ name[BuiltIn[n]] = s
    BY <2>1, <2>2 DEF Init
  <2> QED
    BY <2>3, BuiltInAssumption
<1>2. ASSUME NEW r \in RoleIds
      PROVE  \/ name[r] = "unused"
             \/ name[r] \in SystemNames /\ BuiltIn[name[r]] = r
  <2>1. CASE \E n \in SystemNames : BuiltIn[n] = r
    BY <2>1 DEF Init
  <2>2. CASE ~\E n \in SystemNames : BuiltIn[n] = r
    BY <2>2 DEF Init
  <2> QED
    BY <2>1, <2>2
<1> QED
  BY <1>1, <1>2, NamesAssumption DEF Absent

LEMMA InitTyped == Init => TypeOK
<1> SUFFICES ASSUME Init PROVE TypeOK
  OBVIOUS
<1>1. name \in [RoleIds -> Names \cup Absent]
  <2>1. \A r \in RoleIds : name[r] \in Names \cup Absent
    BY InitNames
  <2> QED
    BY <2>1 DEF Init
<1>2. grants \in [RoleIds -> SUBSET Grant] /\ asked \in [RoleIds -> SUBSET Permissions]
  BY DefaultsTyped, RowsTyped, AnyBatchTyped DEF Init
<1>3. BuiltIn[RootName] \in RoleIds
  BY NamesAssumption, BuiltInAssumption
<1>4. held \in [Members -> SUBSET Holding] /\ given \in [Members -> SUBSET RoleIds]
  BY <1>3, RowsTyped, AnyBatchTyped DEF Init
<1>5. super \in [Members -> BOOLEAN]
  BY Zenon DEF Init
<1>6. thread \in [Threads -> ThreadState]
  BY DEF Init, ThreadState
<1>7. requests = 0 /\ overlapped = {} /\ mixed = {} /\ disturbed = {}
  BY Zenon DEF Init
<1> QED
  BY <1>1, <1>2, <1>4, <1>5, <1>6, <1>7, RequestsAssumption DEF TypeOK

-----------------------------------------------------------------------------
(* Every action keeps the types.                                           *)

LEMMA DirectoryStepTyped ==
    ASSUME TypeOK, NEW t \in Threads,
           \/ \E n \in Names, perms \in Lists : CreateRead(t, n, perms)
           \/ \E r \in RoleIds, n \in Names : UpdateRead(t, r, n, FALSE, {})
           \/ \E r \in RoleIds, n \in Names, perms \in Lists : UpdateRead(t, r, n, TRUE, perms)
           \/ \E r \in RoleIds : DeleteRead(t, r)
           \/ CreateCommit(t) \/ UpdateCommit(t) \/ GrantCommit(t) \/ DeleteCommit(t)
    PROVE  TypeOK'
<1> USE DEF directory, holders
<1>1. ASSUME NEW n \in Names, NEW perms \in Lists, CreateRead(t, n, perms) PROVE TypeOK'
  <2>1. [pc |-> "creating", name |-> n, perms |-> perms] \in ThreadState
    BY ListsAssumption DEF ThreadState
  <2> QED
    BY <1>1, <2>1, MoveTyped, RequestsAssumption DEF CreateRead, Request, TypeOK
<1>2. ASSUME NEW r \in RoleIds, NEW n \in Names, NEW b \in BOOLEAN,
             NEW perms \in SUBSET Permissions, UpdateRead(t, r, n, b, perms)
      PROVE  TypeOK'
  <2>1. [pc |-> "renaming", role |-> r, from |-> name[r], to |-> n,
         replace |-> b, perms |-> perms] \in ThreadState
    BY <1>2 DEF ThreadState, UpdateRead, Exists
  <2> QED
    BY <1>2, <2>1, MoveTyped, RequestsAssumption DEF UpdateRead, Request, TypeOK
<1>3. ASSUME NEW r \in RoleIds, DeleteRead(t, r) PROVE TypeOK'
  <2>1. [pc |-> "deleting", role |-> r] \in ThreadState
    BY DEF ThreadState
  <2>2. GivingRole(r) \in SUBSET Threads
    BY DEF GivingRole
  <2> QED
    BY <1>3, <2>1, <2>2, StartsTyped, RequestsAssumption DEF DeleteRead, Request, TypeOK
<1>4. CASE CreateCommit(t)
  <2>1. PICK r \in {x \in RoleIds : name[x] = "unused"} :
            /\ name' = [name EXCEPT ![r] = thread[t].name]
            /\ IF thread[t].perms = {} THEN Ends(t)
               ELSE Starts(t, [pc |-> "granting", role |-> r, seen |-> {},
                               perms |-> thread[t].perms], {})
    BY <1>4 DEF CreateCommit
  <2>2. thread[t].name \in Names /\ thread[t].perms \in SUBSET Permissions
    BY <1>4, Fields DEF CreateCommit
  <2>3. [pc |-> "granting", role |-> r, seen |-> {}, perms |-> thread[t].perms] \in ThreadState
    BY <2>2 DEF ThreadState
  <2>4. thread' \in [Threads -> ThreadState] /\ overlapped' \subseteq Threads
    BY <2>1, <2>3, StartsTyped, EndsTyped DEF TypeOK
  <2>5. name' \in [RoleIds -> Names \cup Absent]
    BY <2>1, <2>2 DEF TypeOK
  <2> QED
    BY <1>4, <2>4, <2>5 DEF CreateCommit, TypeOK
<1>5. CASE UpdateCommit(t)
  <2> DEFINE me == thread[t]
  <2>1. /\ me.role \in RoleIds /\ me.to \in Names /\ me.perms \in SUBSET Permissions
        /\ grants[me.role] \in SUBSET Grant
    BY <1>5, Fields DEF UpdateCommit, TypeOK
  <2>2. [pc |-> "granting", role |-> me.role, seen |-> grants[me.role],
         perms |-> me.perms] \in ThreadState
    BY <2>1 DEF ThreadState
  <2>3. Setting(me.role) \in SUBSET Threads
    BY DEF Setting
  <2>4. thread' \in [Threads -> ThreadState] /\ overlapped' \subseteq Threads
    BY <1>5, <2>2, <2>3, StartsTyped, EndsTyped DEF TypeOK, UpdateCommit
  <2>5. name' \in [RoleIds -> Names \cup Absent]
    BY <1>5, <2>1 DEF TypeOK, UpdateCommit
  <2> QED
    BY <1>5, <2>4, <2>5 DEF UpdateCommit, TypeOK
<1>6. CASE GrantCommit(t)
  <2> DEFINE me == thread[t]
  <2>1. me.role \in RoleIds /\ me.perms \in SUBSET Permissions
    BY <1>6, Fields DEF GrantCommit
  <2>2. PICK b \in Batches :
            grants' = [grants EXCEPT ![me.role] = (@ \ me.seen) \cup Granted(me.perms, b)]
    BY <1>6 DEF GrantCommit
  <2>3. grants' \in [RoleIds -> SUBSET Grant]
    BY <2>1, <2>2, RowsTyped DEF TypeOK
  <2>4. /\ asked' \in [RoleIds -> SUBSET Permissions]
        /\ mixed' \subseteq RoleIds
    BY <1>6, <2>1 DEF GrantCommit, TypeOK, Sharing
  <2> QED
    BY <1>6, <2>3, <2>4, EndsTyped DEF GrantCommit, TypeOK
<1>7. CASE DeleteCommit(t)
  <2>1. thread[t].role \in RoleIds
    BY <1>7, Fields DEF DeleteCommit
  <2>2. name' \in [RoleIds -> Names \cup Absent]
    BY <1>7, <2>1 DEF DeleteCommit, TypeOK, Absent
  <2> QED
    BY <1>7, <2>1, <2>2, EndsTyped DEF DeleteCommit, TypeOK
<1>8. CASE \E r \in RoleIds, n \in Names : UpdateRead(t, r, n, FALSE, {})
  <2>1. {} \in SUBSET Permissions /\ FALSE \in BOOLEAN
    OBVIOUS
  <2> QED
    BY <1>2, <1>8, <2>1
<1>9. CASE \E r \in RoleIds, n \in Names, perms \in Lists : UpdateRead(t, r, n, TRUE, perms)
  <2>1. PICK r \in RoleIds, n \in Names, perms \in Lists : UpdateRead(t, r, n, TRUE, perms)
    BY <1>9
  <2>2. perms \in SUBSET Permissions /\ TRUE \in BOOLEAN
    BY ListsAssumption
  <2> QED
    BY <1>2, <2>1, <2>2
<1> QED
  BY <1>1, <1>3, <1>4, <1>5, <1>6, <1>7, <1>8, <1>9

LEMMA HolderStepTyped ==
    ASSUME TypeOK, NEW t \in Threads,
           \/ \E m \in Members, n \in Names : AssignRead(t, m, n)
           \/ \E m \in Members, ns \in SUBSET Names, flag \in BOOLEAN :
                    AssignListRead(t, m, ns, flag)
           \/ AssignCommit(t) \/ ThreadFails(t)
    PROVE  TypeOK'
<1> USE DEF directory, holders
<1>1. ASSUME NEW m \in Members, NEW roles \in SUBSET RoleIds, NEW admin \in BOOLEAN,
             AssignFrom(t, m, roles, admin), Request
      PROVE  TypeOK'
  <2>1. super[m] \in BOOLEAN /\ held[m] \in SUBSET Holding
    BY DEF TypeOK
  <2>2. [pc |-> "assigning", member |-> m, roles |-> roles, seen |-> held[m],
         was |-> super[m], admin |-> admin] \in ThreadState
    BY <2>1 DEF ThreadState
  <2>3. Giving(m) \cup Removing(roles) \in SUBSET Threads
    BY DEF Giving, Removing
  <2> QED
    BY <1>1, <2>2, <2>3, StartsTyped, RequestsAssumption DEF AssignFrom, Request, TypeOK
<1>2. ASSUME NEW m \in Members, NEW n \in Names, AssignRead(t, m, n) PROVE TypeOK'
  <2> DEFINE admin == n \in AdminNames
  <2>1. PICK r \in RoleIds : AssignFrom(t, m, {r}, admin) /\ Request
    BY <1>2 DEF AssignRead
  <2>2. admin \in BOOLEAN
    OBVIOUS
  <2>3. {r} \in SUBSET RoleIds
    BY <2>1
  <2>4. AssignFrom(t, m, {r}, admin)
    BY <2>1
  <2> HIDE DEF admin
  <2> QED
    BY <1>1, <2>1, <2>2, <2>3, <2>4
<1>3. ASSUME NEW m \in Members, NEW ns \in SUBSET Names, NEW flag \in BOOLEAN,
             AssignListRead(t, m, ns, flag)
      PROVE  TypeOK'
  <2> DEFINE roles == {r \in RoleIds : name[r] \in ns}
  <2>1. AssignFrom(t, m, roles, flag) /\ Request
    BY <1>3 DEF AssignListRead
  <2>2. roles \in SUBSET RoleIds
    OBVIOUS
  <2> HIDE DEF roles
  <2> QED
    BY <1>1, <2>1, <2>2
<1>4. CASE AssignCommit(t)
  <2> DEFINE me == thread[t]
  <2>1. /\ me.member \in Members /\ me.roles \in SUBSET RoleIds
        /\ me.admin \in BOOLEAN
    BY <1>4, Fields DEF AssignCommit
  <2>2. PICK b \in Batches :
            held' = [held EXCEPT ![me.member] = (@ \ me.seen) \cup Holdings(me.roles, b)]
    BY <1>4 DEF AssignCommit
  <2>3. held' \in [Members -> SUBSET Holding]
    BY <2>1, <2>2, RowsTyped DEF TypeOK
  <2>4. super' \in [Members -> BOOLEAN]
    BY <1>4, <2>1 DEF AssignCommit, TypeOK
  <2>5. /\ given' \in [Members -> SUBSET RoleIds]
        /\ disturbed' \subseteq Members
    BY <1>4, <2>1 DEF AssignCommit, TypeOK, Sharing
  <2> QED
    BY <1>4, <2>3, <2>4, <2>5, EndsTyped DEF AssignCommit, TypeOK
<1>5. CASE ThreadFails(t)
  BY <1>5, EndsTyped DEF ThreadFails, TypeOK
<1> QED
  BY <1>2, <1>3, <1>4, <1>5

LEMMA RestartTyped == TypeOK /\ Restart => TypeOK'
<1> SUFFICES ASSUME TypeOK, Restart PROVE TypeOK'
  OBVIOUS
<1> USE DEF directory, holders
<1>1. PICK role \in [SystemNames -> RoleIds] :
          SeedRoles(role) /\ RestoreRoot(role[RootName])
  BY DEF Restart
<1>2. \A r : Defaults(role, r) \ Allowed(r) \in SUBSET Permissions
  BY DefaultsTyped
<1>3. /\ grants' \in [RoleIds -> SUBSET Grant]
      /\ asked' \in [RoleIds -> SUBSET Permissions]
  BY <1>1, <1>2, RowsTyped, AnyBatchTyped DEF SeedRoles, TypeOK
<1>4. role[RootName] \in RoleIds
  BY <1>1, NamesAssumption
<1>5. /\ held' \in [Members -> SUBSET Holding]
      /\ super' \in [Members -> BOOLEAN]
      /\ given' \in [Members -> SUBSET RoleIds]
      /\ disturbed' = disturbed
  <2>1. Holdings({role[RootName]}, AnyBatch) \in SUBSET Holding
    BY <1>4, RowsTyped, AnyBatchTyped
  <2>2. CASE role[RootName] \in HeldBy(Root)
    BY <1>1, <2>2 DEF RestoreRoot, TypeOK
  <2>3. CASE role[RootName] \notin HeldBy(Root)
    <3>1. /\ held' = [held EXCEPT ![Root] = @ \cup Holdings({role[RootName]}, AnyBatch)]
          /\ super' = [super EXCEPT ![Root] = TRUE]
          /\ given' = [given EXCEPT ![Root] = @ \cup {role[RootName]}]
          /\ disturbed' = disturbed
      BY <1>1, <2>3 DEF RestoreRoot
    <3> HIDE DEF holders
    <3> QED
      BY <1>4, <2>1, <3>1, RootAssumption DEF TypeOK
  <2> QED
    BY <2>2, <2>3
<1>6. thread' \in [Threads -> ThreadState]
  BY DEF Restart, ThreadState
<1> QED
  BY <1>3, <1>5, <1>6 DEF Restart, TypeOK

LEMMA TypeStep == TypeOK /\ [Next]_rvars => TypeOK'
<1> SUFFICES ASSUME TypeOK, [Next]_rvars PROVE TypeOK'
  OBVIOUS
<1>1. ASSUME NEW m \in Members, NEW flag \in BOOLEAN, SetSuperuser(m, flag) PROVE TypeOK'
  BY <1>1, RequestsAssumption DEF SetSuperuser, Request, TypeOK, directory
<1>2. CASE UNCHANGED rvars
  BY <1>2 DEF rvars, directory, holders, TypeOK
<1> QED
  BY <1>1, <1>2, DirectoryStepTyped, HolderStepTyped, RestartTyped DEF Next

(* Every variable of Roles keeps its type.                                 *)
THEOREM TypeCorrect == Spec => []TypeOK
<1>1. Init => TypeOK
  BY InitTyped
<1>2. TypeOK /\ [Next]_rvars => TypeOK'
  BY TypeStep
<1> QED
  BY <1>1, <1>2, PTL DEF Spec

-----------------------------------------------------------------------------
(* What most actions do to the requests: t is somewhere else, the others   *)
(* are where they were, and none of these forgets an overlap.              *)
OneMoves(t) ==
    \A u \in Threads \ {t} :
        thread'[u] = thread[u] /\ (u \in overlapped => u \in overlapped')

LEMMA CreateReadMoves ==
    ASSUME TypeOK, NEW t \in Threads, NEW n, NEW perms, CreateRead(t, n, perms)
    PROVE  OneMoves(t) /\ thread'[t].pc = "creating"
  BY DEF CreateRead, Move, TypeOK, OneMoves

LEMMA UpdateReadMoves ==
    ASSUME TypeOK, NEW t \in Threads, NEW r, NEW n, NEW b, NEW perms,
           UpdateRead(t, r, n, b, perms)
    PROVE  /\ OneMoves(t)
           /\ thread'[t].pc = "renaming" /\ thread'[t].role = r
           /\ thread'[t].from = name[r] /\ thread'[t].to = n
  BY DEF UpdateRead, Move, TypeOK, OneMoves

LEMMA DeleteReadMoves ==
    ASSUME TypeOK, NEW t \in Threads, NEW r, DeleteRead(t, r)
    PROVE  /\ OneMoves(t)
           /\ thread'[t].pc = "deleting" /\ thread'[t].role = r
           /\ GivingRole(r) \subseteq overlapped'
  BY DEF DeleteRead, Starts, Move, TypeOK, OneMoves

(* Reading for an assignment, whichever of the two.                        *)
Assigning(t, m, roles) ==
    /\ OneMoves(t)
    /\ thread'[t].pc = "assigning" /\ thread'[t].member = m
    /\ thread'[t].roles = roles /\ thread'[t].seen = held[m]
    /\ Giving(m) \subseteq overlapped'
    /\ Giving(m) \cup Removing(roles) # {} => t \in overlapped'
    /\ \A r \in roles : Exists(r)
    /\ UNCHANGED <<directory, holders>>

LEMMA AssignFromMoves ==
    ASSUME TypeOK, NEW t \in Threads, NEW m, NEW roles, NEW admin,
           AssignFrom(t, m, roles, admin), \A r \in roles : Exists(r)
    PROVE  Assigning(t, m, roles)
  BY DEF AssignFrom, Starts, Move, TypeOK, OneMoves, Assigning

LEMMA AssignMoves ==
    ASSUME TypeOK, NEW t \in Threads,
           \/ \E m \in Members, n \in Names : AssignRead(t, m, n)
           \/ \E m \in Members, ns \in SUBSET Names, flag \in BOOLEAN :
                    AssignListRead(t, m, ns, flag)
    PROVE  \E m \in Members, roles \in SUBSET RoleIds : Assigning(t, m, roles)
<1>1. ASSUME NEW m \in Members, NEW n \in Names, AssignRead(t, m, n)
      PROVE  \E roles \in SUBSET RoleIds : Assigning(t, m, roles)
  <2> DEFINE admin == n \in AdminNames
  <2>1. PICK r \in RoleIds : name[r] = n /\ AssignFrom(t, m, {r}, admin)
    BY <1>1 DEF AssignRead
  <2> HIDE DEF admin
  <2>2. {r} \in SUBSET RoleIds /\ \A x \in {r} : Exists(x)
    BY <2>1 DEF Exists
  <2> QED
    BY <2>1, <2>2, AssignFromMoves
<1>2. ASSUME NEW m \in Members, NEW ns \in SUBSET Names, NEW flag \in BOOLEAN,
             AssignListRead(t, m, ns, flag)
      PROVE  \E roles \in SUBSET RoleIds : Assigning(t, m, roles)
  <2> DEFINE roles == {r \in RoleIds : name[r] \in ns}
  <2>1. AssignFrom(t, m, roles, flag)
    BY <1>2 DEF AssignListRead
  <2>2. roles \in SUBSET RoleIds /\ \A x \in roles : Exists(x)
    BY DEF Exists
  <2> HIDE DEF roles
  <2> QED
    BY <2>1, <2>2, AssignFromMoves
<1> QED
  BY <1>1, <1>2

LEMMA EndMoves ==
    ASSUME TypeOK, NEW t \in Threads, Ends(t)
    PROVE  OneMoves(t) /\ thread'[t].pc = "idle"
  BY DEF Ends, Move, TypeOK, Idle, OneMoves

-----------------------------------------------------------------------------
(* The built-in roles.                                                     *)

(* Each keeps its name; no request in flight is about to change or delete  *)
(* it, whatever name it read.                                              *)
BuiltInsKept ==
    /\ \A n \in SystemNames : name[BuiltIn[n]] = n
    /\ \A t \in Threads, n \in SystemNames :
          /\ At(t, "renaming") /\ thread[t].role = BuiltIn[n] => thread[t].from = thread[t].to
          /\ At(t, "deleting") => thread[t].role # BuiltIn[n]

LEMMA BuiltInsStep == TypeOK /\ BuiltInsKept /\ [Next]_rvars => BuiltInsKept'
<1> SUFFICES ASSUME TypeOK, BuiltInsKept, [Next]_rvars PROVE BuiltInsKept'
  OBVIOUS
<1> USE DEF directory, holders
<1>0. \A n \in SystemNames : BuiltIn[n] \in RoleIds /\ n \in Names
  BY BuiltInAssumption, NamesAssumption
<1>1. ASSUME NEW t \in Threads, OneMoves(t), thread'[t].pc \notin {"renaming", "deleting"},
             name' = name
      PROVE  BuiltInsKept'
  BY <1>1 DEF BuiltInsKept, OneMoves, At
<1>2. ASSUME NEW t \in Threads, NEW n \in Names, NEW perms \in Lists, CreateRead(t, n, perms)
      PROVE  BuiltInsKept'
  BY <1>1, <1>2, CreateReadMoves DEF CreateRead
<1>3. ASSUME NEW t \in Threads, NEW r \in RoleIds, NEW n \in Names, NEW b \in BOOLEAN,
             NEW perms \in SUBSET Permissions, UpdateRead(t, r, n, b, perms)
      PROVE  BuiltInsKept'
  <2>1. /\ OneMoves(t)
        /\ thread'[t].pc = "renaming" /\ thread'[t].role = r
        /\ thread'[t].from = name[r] /\ thread'[t].to = n
    BY <1>3, UpdateReadMoves
  <2>2. name[r] \in SystemNames => n = name[r]
    BY <1>3 DEF UpdateRead
  <2> QED
    BY <1>3, <2>1, <2>2 DEF BuiltInsKept, OneMoves, At, UpdateRead
<1>4. ASSUME NEW t \in Threads, NEW r \in RoleIds, DeleteRead(t, r)
      PROVE  BuiltInsKept'
  <2>1. OneMoves(t) /\ thread'[t].pc = "deleting" /\ thread'[t].role = r
    BY <1>4, DeleteReadMoves
  <2>2. name[r] \notin SystemNames
    BY <1>4 DEF DeleteRead
  <2> QED
    BY <1>4, <2>1, <2>2 DEF BuiltInsKept, OneMoves, At, DeleteRead
<1>5. ASSUME NEW t \in Threads, CreateCommit(t) PROVE BuiltInsKept'
  <2>1. PICK r \in {x \in RoleIds : name[x] = "unused"} :
            /\ name' = [name EXCEPT ![r] = thread[t].name]
            /\ IF thread[t].perms = {} THEN Ends(t)
               ELSE Starts(t, [pc |-> "granting", role |-> r, seen |-> {},
                               perms |-> thread[t].perms], {})
    BY <1>5 DEF CreateCommit
  <2>2. OneMoves(t) /\ thread'[t].pc \notin {"renaming", "deleting"}
    BY <2>1 DEF Ends, Starts, Move, OneMoves, Idle, TypeOK
  <2>3. \A n \in SystemNames : BuiltIn[n] # r
    BY <2>1, <1>0, NamesAssumption DEF BuiltInsKept, Absent
  <2> QED
    BY <2>1, <2>2, <2>3, <1>0 DEF BuiltInsKept, OneMoves, At, TypeOK
<1>6. ASSUME NEW t \in Threads, UpdateCommit(t) PROVE BuiltInsKept'
  <2>1. OneMoves(t) /\ thread'[t].pc \notin {"renaming", "deleting"}
    BY <1>6 DEF UpdateCommit, Ends, Starts, Move, OneMoves, Idle, TypeOK
  <2>2. \A n \in SystemNames : name'[BuiltIn[n]] = name[BuiltIn[n]]
    BY <1>6, <1>0 DEF UpdateCommit, BuiltInsKept, TypeOK
  <2> QED
    BY <2>1, <2>2 DEF BuiltInsKept, OneMoves, At
<1>7. ASSUME NEW t \in Threads, GrantCommit(t) \/ AssignCommit(t) \/ ThreadFails(t)
      PROVE  BuiltInsKept'
  <2>1. Ends(t) /\ name' = name
    BY <1>7 DEF GrantCommit, AssignCommit, ThreadFails
  <2>2. OneMoves(t) /\ thread'[t].pc = "idle"
    BY <2>1, EndMoves
  <2> QED
    BY <1>1, <2>1, <2>2
<1>8. ASSUME NEW t \in Threads, DeleteCommit(t) PROVE BuiltInsKept'
  <2>1. OneMoves(t) /\ thread'[t].pc = "idle"
    BY <1>8, EndMoves DEF DeleteCommit
  <2>2. \A n \in SystemNames : name'[BuiltIn[n]] = name[BuiltIn[n]]
    BY <1>8, <1>0 DEF DeleteCommit, BuiltInsKept, TypeOK
  <2> QED
    BY <2>1, <2>2 DEF BuiltInsKept, OneMoves, At
<1>9. ASSUME NEW t \in Threads,
             \/ \E m \in Members, n \in Names : AssignRead(t, m, n)
             \/ \E m \in Members, ns \in SUBSET Names, flag \in BOOLEAN :
                    AssignListRead(t, m, ns, flag)
      PROVE  BuiltInsKept'
  <2>1. PICK m \in Members, roles \in SUBSET RoleIds : Assigning(t, m, roles)
    BY <1>9, AssignMoves
  <2>2. OneMoves(t) /\ thread'[t].pc = "assigning" /\ name' = name
    BY <2>1 DEF Assigning
  <2> QED
    BY <1>1, <2>2
<1>10. CASE Restart
  BY <1>10 DEF Restart, BuiltInsKept, At, Idle
<1>11. CASE \/ \E m \in Members, flag \in BOOLEAN : SetSuperuser(m, flag)
            \/ UNCHANGED rvars
  BY <1>11 DEF SetSuperuser, rvars, BuiltInsKept, At
<1>12. {} \in SUBSET Permissions /\ \A l \in Lists : l \in SUBSET Permissions
  BY ListsAssumption
<1>13. ASSUME NEW t \in Threads,
              \/ \E r \in RoleIds, n \in Names : UpdateRead(t, r, n, FALSE, {})
              \/ \E r \in RoleIds, n \in Names, perms \in Lists :
                    UpdateRead(t, r, n, TRUE, perms)
       PROVE  BuiltInsKept'
  BY <1>3, <1>12, <1>13
<1> QED
  BY <1>2, <1>4, <1>5, <1>6, <1>7, <1>8, <1>9, <1>10, <1>11, <1>13 DEF Next

(* No sequence or overlap of updates and deletions takes away the last     *)
(* role of a system name: the role the first start made keeps it.          *)
THEOREM SystemRolesAreKept == Spec => []SystemRolesStay
<1>1. Init => BuiltInsKept
  BY InitNames DEF Init, BuiltInsKept, At, Idle
<1>2. TypeOK /\ BuiltInsKept /\ [Next]_rvars => BuiltInsKept'
  BY BuiltInsStep
<1>3. BuiltInsKept => SystemRolesStay
  BY BuiltInAssumption DEF BuiltInsKept, SystemRolesStay
<1> QED
  BY <1>1, <1>2, <1>3, TypeCorrect, PTL DEF Spec

-----------------------------------------------------------------------------
(* The permissions of roles.                                               *)

(* A key not yet used has no permissions and no request in flight.         *)
UnusedIsBare ==
    /\ \A r \in RoleIds : name[r] = "unused" => grants[r] = {} /\ asked[r] = {}
    /\ \A t \in Threads :
          At(t, "granting") \/ At(t, "renaming") => name[thread[t].role] # "unused"

(* A request that met no other still knows all rows of its role.           *)
SeenIsFresh ==
    \A t \in Threads :
        At(t, "granting") /\ t \notin overlapped /\ Exists(thread[t].role)
            => thread[t].seen = grants[thread[t].role]

(* Two about to set the permissions of one role have met.                  *)
SettersMeet ==
    \A t, u \in Threads :
        t # u /\ At(t, "granting") /\ At(u, "granting") /\ thread[t].role = thread[u].role
            => t \in overlapped

GrantBooks ==
    /\ GrantsFollowRequests
    /\ UnusedIsBare
    /\ SeenIsFresh
    /\ SettersMeet

LEMMA NoGrants == \A b : Granted({}, b) = {}
  BY DEF Granted

LEMMA InitGrantBooks == Init => GrantBooks
<1> SUFFICES ASSUME Init PROVE GrantBooks
  OBVIOUS
<1>1. GrantsFollowRequests
  <2>1. \A r \in RoleIds : Allowed(r) = asked[r]
    BY RowsSay DEF Init, Allowed
  <2> QED
    BY <2>1 DEF GrantsFollowRequests
<1>2. UnusedIsBare
  <2>1. ASSUME NEW r \in RoleIds, name[r] = "unused"
        PROVE  Defaults(BuiltIn, r) = {}
    BY <2>1, InitNames, NamesAssumption DEF Defaults, Absent
  <2> QED
    BY <2>1, NoGrants DEF Init, UnusedIsBare, At, Idle
<1>3. SeenIsFresh /\ SettersMeet
  <2>1. \A t \in Threads : ~At(t, "granting")
    BY DEF Init, At, Idle
  <2>2. SeenIsFresh
    BY <2>1 DEF SeenIsFresh
  <2>3. SettersMeet
    BY <2>1 DEF SettersMeet
  <2> QED
    BY <2>2, <2>3
<1> QED
  BY <1>1, <1>2, <1>3 DEF GrantBooks

(* Steps that leave the directory alone.                                   *)
LEMMA QuietGrants ==
    ASSUME GrantBooks, NEW t \in Threads, OneMoves(t), UNCHANGED directory,
           \/ thread'[t].pc \notin {"granting", "renaming"}
           \/ thread'[t].pc = "renaming" /\ name[thread'[t].role] # "unused"
    PROVE  GrantBooks'
<1> USE DEF directory
<1>1. GrantsFollowRequests'
  BY DEF GrantBooks, GrantsFollowRequests, Exists, Allowed
<1>2. UnusedIsBare'
  BY DEF GrantBooks, UnusedIsBare, OneMoves, At
<1>3. SeenIsFresh'
  BY DEF GrantBooks, SeenIsFresh, OneMoves, At, Exists
<1>4. SettersMeet'
  BY DEF GrantBooks, SettersMeet, OneMoves, At
<1> QED
  BY <1>1, <1>2, <1>3, <1>4 DEF GrantBooks

LEMMA CreateCommitGrants ==
    ASSUME TypeOK, GrantBooks, NEW t \in Threads, CreateCommit(t)
    PROVE  GrantBooks'
<1>1. PICK r \in {x \in RoleIds : name[x] = "unused"} :
          /\ name' = [name EXCEPT ![r] = thread[t].name]
          /\ IF thread[t].perms = {} THEN Ends(t)
             ELSE Starts(t, [pc |-> "granting", role |-> r, seen |-> {},
                             perms |-> thread[t].perms], {})
  BY DEF CreateCommit
<1>2. OneMoves(t) /\ (\/ thread'[t].pc = "idle"
                     \/ /\ thread'[t].pc = "granting" /\ thread'[t].role = r
                        /\ thread'[t].seen = {})
  BY <1>1 DEF Ends, Starts, Move, OneMoves, Idle, TypeOK
<1>3. thread[t].name \in Names /\ "unused" \notin Names
  BY Fields, NamesAssumption DEF CreateCommit, Absent
<1>4. UNCHANGED <<grants, asked, mixed>>
  BY DEF CreateCommit
<1>5. \A x \in RoleIds : x # r => name'[x] = name[x]
  BY <1>1 DEF TypeOK
<1>6. name'[r] = thread[t].name /\ grants[r] = {} /\ asked[r] = {} /\ r \in RoleIds
  BY <1>1 DEF TypeOK, GrantBooks, UnusedIsBare
<1>7. GrantsFollowRequests'
  BY <1>4, <1>5, <1>6 DEF GrantBooks, GrantsFollowRequests, Exists, Allowed
<1>8. \A u \in Threads : u # t /\ (At(u, "granting") \/ At(u, "renaming"))
                            => thread[u].role # r /\ thread[u].role \in RoleIds
  BY <1>1, Fields DEF GrantBooks, UnusedIsBare
<1>9. UnusedIsBare'
  BY <1>2, <1>3, <1>4, <1>5, <1>6, <1>8 DEF GrantBooks, UnusedIsBare, OneMoves, At
<1>10. SeenIsFresh'
  BY <1>2, <1>4, <1>5, <1>6, <1>8 DEF GrantBooks, SeenIsFresh, OneMoves, At, Exists
<1>11. SettersMeet'
  BY <1>2, <1>8 DEF GrantBooks, SettersMeet, OneMoves, At
<1> QED
  BY <1>7, <1>9, <1>10, <1>11 DEF GrantBooks

LEMMA UpdateCommitGrants ==
    ASSUME TypeOK, GrantBooks, NEW t \in Threads, UpdateCommit(t)
    PROVE  GrantBooks'
<1> DEFINE r == thread[t].role
<1>1. /\ At(t, "renaming") /\ Exists(r) /\ r \in RoleIds
      /\ thread[t].to \in Names /\ "unused" \notin Names
  BY Fields, NamesAssumption DEF UpdateCommit, Absent
<1>2. /\ name' \in [RoleIds -> Names \cup Absent] /\ name'[r] \in Names
      /\ \A x \in RoleIds : x # r => name'[x] = name[x]
  BY <1>1 DEF UpdateCommit, TypeOK, Exists
<1>3. UNCHANGED <<grants, asked, mixed>>
  BY DEF UpdateCommit
<1>4. \/ Ends(t)
      \/ Starts(t, [pc |-> "granting", role |-> r, seen |-> grants[r],
                    perms |-> thread[t].perms], Setting(r))
  BY DEF UpdateCommit
<1>5. /\ OneMoves(t)
      /\ \/ thread'[t].pc = "idle"
         \/ /\ thread'[t].pc = "granting" /\ thread'[t].role = r
            /\ thread'[t].seen = grants[r]
            /\ Setting(r) # {} => Setting(r) \cup {t} \subseteq overlapped'
  BY <1>4 DEF Ends, Starts, Move, OneMoves, Idle, TypeOK
<1> HIDE DEF r
<1>6. GrantsFollowRequests'
  BY <1>1, <1>2, <1>3 DEF GrantBooks, GrantsFollowRequests, Exists, Allowed
<1>7. UnusedIsBare'
  BY <1>1, <1>2, <1>3, <1>5, Fields DEF GrantBooks, UnusedIsBare, OneMoves, At, Exists
<1>8. SeenIsFresh'
  BY <1>1, <1>2, <1>3, <1>5, Fields DEF GrantBooks, SeenIsFresh, OneMoves, At, Exists
<1>9. SettersMeet'
  BY <1>5 DEF GrantBooks, SettersMeet, OneMoves, At, Setting
<1> QED
  BY <1>6, <1>7, <1>8, <1>9 DEF GrantBooks

LEMMA GrantCommitGrants ==
    ASSUME TypeOK, GrantBooks, NEW t \in Threads, GrantCommit(t)
    PROVE  GrantBooks'
<1> DEFINE r == thread[t].role
           perms == thread[t].perms
<1>1. At(t, "granting") /\ Exists(r) /\ r \in RoleIds /\ name' = name
  BY Fields DEF GrantCommit
<1>2. PICK b : grants' = [grants EXCEPT ![r] = (@ \ thread[t].seen) \cup Granted(perms, b)]
  BY DEF GrantCommit
<1>3. asked' = [asked EXCEPT ![r] = perms] /\ mixed' = Sharing(mixed, r, t)
  BY DEF GrantCommit
<1>4. OneMoves(t) /\ thread'[t].pc = "idle"
  BY EndMoves DEF GrantCommit
<1>5. /\ grants'[r] = (grants[r] \ thread[t].seen) \cup Granted(perms, b)
      /\ asked'[r] = perms
      /\ \A x \in RoleIds : x # r => grants'[x] = grants[x] /\ asked'[x] = asked[x]
  BY <1>1, <1>2, <1>3 DEF TypeOK
<1>6. {g.perm : g \in Granted(perms, b)} = perms
  BY RowsSay
<1>7. t \notin overlapped => thread[t].seen = grants[r]
  BY <1>1 DEF GrantBooks, SeenIsFresh
<1> HIDE DEF r, perms
<1>8. GrantsFollowRequests'
  <2> SUFFICES ASSUME NEW x \in RoleIds, Exists(x)'
               PROVE  /\ asked'[x] \subseteq Allowed(x)'
                      /\ x \notin mixed' => Allowed(x)' = asked'[x]
    BY DEF GrantsFollowRequests
  <2>1. CASE x # r
    BY <1>1, <1>3, <1>5, <2>1 DEF GrantBooks, GrantsFollowRequests, Exists, Allowed, Sharing
  <2>2. CASE x = r /\ t \in overlapped
    <3>1. perms \subseteq {g.perm : g \in grants'[r]}
      BY <1>5, <1>6
    <3>2. r \in mixed'
      BY <1>3, <2>2 DEF Sharing
    <3> QED
      BY <1>5, <2>2, <3>1, <3>2 DEF Allowed
  <2>3. CASE x = r /\ t \notin overlapped
    <3>1. grants'[r] = Granted(perms, b)
      BY <1>5, <1>7, <2>3
    <3> QED
      BY <1>5, <1>6, <2>3, <3>1 DEF Allowed
  <2> QED
    BY <2>1, <2>2, <2>3
<1>9. UnusedIsBare'
  BY <1>1, <1>4, <1>5, NamesAssumption DEF GrantBooks, UnusedIsBare, OneMoves, At, Exists, Absent
<1>10. SeenIsFresh'
  <2> SUFFICES ASSUME NEW u \in Threads, At(u, "granting")', u \notin overlapped',
                      Exists(thread[u].role)'
               PROVE  thread'[u].seen = grants'[thread'[u].role]
    BY DEF SeenIsFresh
  <2>1. u # t /\ thread'[u] = thread[u] /\ u \notin overlapped /\ At(u, "granting")
    BY <1>4 DEF OneMoves, At
  <2>2. thread[u].role # r /\ thread[u].role \in RoleIds
    BY <1>1, <2>1, Fields DEF GrantBooks, SettersMeet, r
  <2> QED
    BY <1>1, <1>5, <2>1, <2>2 DEF GrantBooks, SeenIsFresh, Exists
<1>11. SettersMeet'
  BY <1>4 DEF GrantBooks, SettersMeet, OneMoves, At
<1> QED
  BY <1>8, <1>9, <1>10, <1>11 DEF GrantBooks

LEMMA DeleteCommitGrants ==
    ASSUME TypeOK, GrantBooks, NEW t \in Threads, DeleteCommit(t)
    PROVE  GrantBooks'
<1> DEFINE r == thread[t].role
<1>1. r \in RoleIds /\ UNCHANGED <<asked, mixed>>
  BY Fields DEF DeleteCommit
<1>2. /\ name'[r] = "gone" /\ grants'[r] = {}
      /\ \A x \in RoleIds : x # r => name'[x] = name[x] /\ grants'[x] = grants[x]
  BY <1>1 DEF DeleteCommit, TypeOK
<1>3. OneMoves(t) /\ thread'[t].pc = "idle"
  BY EndMoves DEF DeleteCommit
<1>4. "gone" \notin Names /\ "gone" # "unused"
  BY NamesAssumption DEF Absent
<1> HIDE DEF r
<1>5. GrantsFollowRequests'
  BY <1>1, <1>2, <1>4 DEF GrantBooks, GrantsFollowRequests, Exists, Allowed
<1>6. UnusedIsBare'
  BY <1>1, <1>2, <1>3, <1>4, Fields DEF GrantBooks, UnusedIsBare, OneMoves, At
<1>7. SeenIsFresh'
  BY <1>1, <1>2, <1>3, <1>4, Fields DEF GrantBooks, SeenIsFresh, OneMoves, At, Exists
<1>8. SettersMeet'
  BY <1>3 DEF GrantBooks, SettersMeet, OneMoves, At
<1> QED
  BY <1>5, <1>6, <1>7, <1>8 DEF GrantBooks

LEMMA RestartGrants ==
    ASSUME TypeOK, GrantBooks, Restart
    PROVE  GrantBooks'
<1>1. PICK role \in [SystemNames -> RoleIds] :
          (\A n \in SystemNames : name[role[n]] = n) /\ SeedRoles(role)
  BY DEF Restart
<1>2. thread' = [t \in Threads |-> Idle] /\ UNCHANGED <<name, mixed>>
  BY DEF Restart
<1> DEFINE lacks(r) == Defaults(role, r) \ Allowed(r)
<1>3. \A r \in RoleIds : /\ grants'[r] = grants[r] \cup Granted(lacks(r), AnyBatch)
                          /\ asked'[r] = asked[r] \cup lacks(r)
  BY <1>1 DEF SeedRoles
<1>4. ASSUME NEW r \in RoleIds PROVE Allowed(r)' = Allowed(r) \cup lacks(r)
  <2>1. {g.perm : g \in Granted(lacks(r), AnyBatch)} = lacks(r)
    BY RowsSay
  <2> HIDE DEF lacks
  <2> QED
    BY <1>3, <2>1 DEF Allowed
<1>5. GrantsFollowRequests'
  BY <1>2, <1>3, <1>4 DEF GrantBooks, GrantsFollowRequests, Exists
<1>6. UnusedIsBare'
  <2>1. ASSUME NEW r \in RoleIds, name[r] = "unused" PROVE lacks(r) = {}
    BY <1>1, <2>1, NamesAssumption DEF Defaults, Absent
  <2> QED
    BY <1>2, <1>3, <2>1, NoGrants DEF GrantBooks, UnusedIsBare, At, Idle
<1>7. SeenIsFresh' /\ SettersMeet'
  <2>1. \A t \in Threads : ~At(t, "granting")'
    BY <1>2 DEF At, Idle
  <2>2. SeenIsFresh'
    BY <2>1 DEF SeenIsFresh
  <2>3. SettersMeet'
    BY <2>1 DEF SettersMeet
  <2> QED
    BY <2>2, <2>3
<1> QED
  BY <1>5, <1>6, <1>7 DEF GrantBooks

LEMMA GrantBooksStep == TypeOK /\ GrantBooks /\ [Next]_rvars => GrantBooks'
<1> SUFFICES ASSUME TypeOK, GrantBooks, [Next]_rvars PROVE GrantBooks'
  OBVIOUS
<1>1. ASSUME NEW t \in Threads, NEW n \in Names, NEW perms \in Lists, CreateRead(t, n, perms)
      PROVE  GrantBooks'
  <2>1. OneMoves(t) /\ thread'[t].pc = "creating" /\ UNCHANGED directory
    BY <1>1, CreateReadMoves DEF CreateRead
  <2> QED
    BY <2>1, QuietGrants
<1>2. ASSUME NEW t \in Threads, NEW r \in RoleIds, NEW n, NEW b, NEW perms,
             UpdateRead(t, r, n, b, perms)
      PROVE  GrantBooks'
  <2>1. /\ OneMoves(t) /\ thread'[t].pc = "renaming" /\ thread'[t].role = r
        /\ UNCHANGED directory
    BY <1>2, UpdateReadMoves DEF UpdateRead
  <2>2. name[r] # "unused"
    BY <1>2, NamesAssumption DEF UpdateRead, Exists, Absent
  <2> QED
    BY <2>1, <2>2, QuietGrants
<1>3. ASSUME NEW t \in Threads, NEW r \in RoleIds, DeleteRead(t, r)
      PROVE  GrantBooks'
  <2>1. OneMoves(t) /\ thread'[t].pc = "deleting" /\ UNCHANGED directory
    BY <1>3, DeleteReadMoves DEF DeleteRead
  <2> QED
    BY <2>1, QuietGrants
<1>4. ASSUME NEW t \in Threads,
             \/ \E m \in Members, n \in Names : AssignRead(t, m, n)
             \/ \E m \in Members, ns \in SUBSET Names, flag \in BOOLEAN :
                    AssignListRead(t, m, ns, flag)
      PROVE  GrantBooks'
  <2>1. PICK m \in Members, roles \in SUBSET RoleIds : Assigning(t, m, roles)
    BY <1>4, AssignMoves
  <2>2. OneMoves(t) /\ thread'[t].pc = "assigning" /\ UNCHANGED directory
    BY <2>1 DEF Assigning
  <2> QED
    BY <2>2, QuietGrants
<1>5. ASSUME NEW t \in Threads, AssignCommit(t) \/ ThreadFails(t)
      PROVE  GrantBooks'
  <2>1. OneMoves(t) /\ thread'[t].pc = "idle" /\ UNCHANGED directory
    BY <1>5, EndMoves DEF AssignCommit, ThreadFails
  <2> QED
    BY <2>1, QuietGrants
<1>6. CASE \/ \E m \in Members, flag \in BOOLEAN : SetSuperuser(m, flag)
           \/ UNCHANGED rvars
  <2>1. UNCHANGED <<directory, thread, overlapped>>
    BY <1>6 DEF SetSuperuser, rvars
  <2> QED
    BY <2>1 DEF GrantBooks, GrantsFollowRequests, UnusedIsBare, SeenIsFresh, SettersMeet,
       directory, Allowed, Exists, At
<1> QED
  BY <1>1, <1>2, <1>3, <1>4, <1>5, <1>6, CreateCommitGrants, UpdateCommitGrants,
     GrantCommitGrants, DeleteCommitGrants, RestartGrants DEF Next

(* However updates, creations, deletions and starts follow one another,    *)
(* a role grants what was asked for it last, and more only if that request *)
(* overlapped another.                                                     *)
THEOREM GrantsAreAsked == Spec => []GrantsFollowRequests
<1>1. Init => GrantBooks
  BY InitGrantBooks
<1>2. TypeOK /\ GrantBooks /\ [Next]_rvars => GrantBooks'
  BY GrantBooksStep
<1>3. GrantBooks => GrantsFollowRequests
  BY DEF GrantBooks
<1> QED
  BY <1>1, <1>2, <1>3, TypeCorrect, PTL DEF Spec

-----------------------------------------------------------------------------
(* The roles of members.                                                   *)

(* Only keys already used are given.                                       *)
GivenAreUsed ==
    /\ \A m \in Members, r \in RoleIds : r \in given[m] => name[r] # "unused"
    /\ \A t \in Threads, r \in RoleIds :
          At(t, "assigning") /\ r \in thread[t].roles => name[r] # "unused"

(* A request that met no other will replace all rows of its member.        *)
SeenCovers ==
    \A t \in Threads :
        At(t, "assigning") /\ t \notin overlapped
            => held[thread[t].member] \subseteq thread[t].seen

(* Two about to give roles to one member have met.                         *)
GiversMeet ==
    \A t, u \in Threads :
        t # u /\ At(t, "assigning") /\ At(u, "assigning") /\ thread[t].member = thread[u].member
            => t \in overlapped

(* One about to give a role has met whoever is about to delete it.         *)
DeletersMeet ==
    \A t, u \in Threads :
        At(t, "assigning") /\ At(u, "deleting") /\ thread[u].role \in thread[t].roles
            => t \in overlapped

(* A role about to be deleted is held only after such a meeting.           *)
RemovedIsUnheld ==
    \A u \in Threads, m \in Members :
        At(u, "deleting") /\ m \notin disturbed => thread[u].role \notin HeldBy(m)

HoldBooks ==
    /\ HoldingsFollowAssignments
    /\ GivenAreUsed
    /\ SeenCovers
    /\ GiversMeet
    /\ DeletersMeet
    /\ RemovedIsUnheld

LEMMA InitHoldBooks == Init => HoldBooks
<1> SUFFICES ASSUME Init PROVE HoldBooks
  OBVIOUS
<1>1. \A m \in Members : HeldBy(m) = given[m]
  <2> SUFFICES ASSUME NEW m \in Members PROVE HeldBy(m) = given[m]
    OBVIOUS
  <2>1. CASE m = Root
    <3>1. /\ held[m] = Holdings({BuiltIn[RootName]}, AnyBatch)
          /\ given[m] = {BuiltIn[RootName]}
      BY <2>1 DEF Init
    <3>2. {h.role : h \in Holdings({BuiltIn[RootName]}, AnyBatch)} = {BuiltIn[RootName]}
      BY RowsSay
    <3> QED
      BY <3>1, <3>2 DEF HeldBy
  <2>2. CASE m # Root
    <3>1. held[m] = {} /\ given[m] = {}
      BY <2>2 DEF Init
    <3> QED
      BY <3>1 DEF HeldBy
  <2> QED
    BY <2>1, <2>2
<1>2. HoldingsFollowAssignments
  BY <1>1 DEF HoldingsFollowAssignments
<1>3. \A t \in Threads : ~At(t, "assigning") /\ ~At(t, "deleting")
  BY DEF Init, At, Idle
<1>4. BuiltIn[RootName] \in RoleIds /\ name[BuiltIn[RootName]] # "unused"
  BY InitNames, NamesAssumption, BuiltInAssumption DEF Absent
<1>5. \A m \in Members : given[m] \subseteq {BuiltIn[RootName]}
  BY DEF Init
<1>6. GivenAreUsed
  BY <1>3, <1>4, <1>5 DEF GivenAreUsed
<1>7. SeenCovers /\ GiversMeet /\ DeletersMeet /\ RemovedIsUnheld
  BY <1>3 DEF SeenCovers, GiversMeet, DeletersMeet, RemovedIsUnheld
<1> QED
  BY <1>2, <1>6, <1>7 DEF HoldBooks

(* Steps that leave the holders alone and start no rival: they make no     *)
(* deleted role exist again.                                               *)
LEMMA QuietHolders ==
    ASSUME TypeOK, HoldBooks, NEW t \in Threads, OneMoves(t), UNCHANGED holders,
           thread'[t].pc \notin {"assigning", "deleting"},
           \A r \in RoleIds : /\ Exists(r)' => Exists(r) \/ name[r] = "unused"
                              /\ name[r] # "unused" => name'[r] # "unused"
    PROVE  HoldBooks'
<1> USE DEF holders
<1>1. HoldingsFollowAssignments'
  <2>1. \A m \in Members, r \in RoleIds :
            r \in given[m] /\ Exists(r)' => r \in HeldBy(m)
    BY DEF HoldBooks, HoldingsFollowAssignments, GivenAreUsed
  <2>2. \A m \in Members : given[m] \subseteq RoleIds /\ HeldBy(m)' = HeldBy(m)
    BY DEF TypeOK, HeldBy
  <2>3. \A m \in Members : m \notin disturbed => HeldBy(m) = given[m]
    BY DEF HoldBooks, HoldingsFollowAssignments
  <2> QED
    BY <2>1, <2>2, <2>3 DEF HoldingsFollowAssignments
<1>2. GivenAreUsed'
  BY DEF HoldBooks, GivenAreUsed, OneMoves, At
<1>3. SeenCovers' /\ GiversMeet'
  BY DEF HoldBooks, SeenCovers, GiversMeet, OneMoves, At
<1>4. DeletersMeet'
  BY DEF HoldBooks, DeletersMeet, OneMoves, At
<1>5. RemovedIsUnheld'
  BY DEF HoldBooks, RemovedIsUnheld, OneMoves, At, HeldBy
<1> QED
  BY <1>1, <1>2, <1>3, <1>4, <1>5 DEF HoldBooks

LEMMA DeleteReadHolds ==
    ASSUME TypeOK, HoldBooks, NEW t \in Threads, NEW r \in RoleIds, DeleteRead(t, r)
    PROVE  HoldBooks'
<1>1. /\ OneMoves(t) /\ thread'[t].pc = "deleting" /\ thread'[t].role = r
      /\ GivingRole(r) \subseteq overlapped'
  BY DeleteReadMoves
<1>2. /\ \A m \in Members : r \notin HeldBy(m)
      /\ UNCHANGED <<name, held, given, disturbed>>
  BY DEF DeleteRead, directory, holders
<1>3. HoldingsFollowAssignments'
  BY <1>2 DEF HoldBooks, HoldingsFollowAssignments, HeldBy, Exists
<1>4. GivenAreUsed'
  BY <1>1, <1>2 DEF HoldBooks, GivenAreUsed, OneMoves, At
<1>5. SeenCovers' /\ GiversMeet'
  BY <1>1, <1>2 DEF HoldBooks, SeenCovers, GiversMeet, OneMoves, At
<1>6. DeletersMeet'
  BY <1>1 DEF HoldBooks, DeletersMeet, OneMoves, At, GivingRole
<1>7. RemovedIsUnheld'
  BY <1>1, <1>2 DEF HoldBooks, RemovedIsUnheld, OneMoves, At, HeldBy
<1> QED
  BY <1>3, <1>4, <1>5, <1>6, <1>7 DEF HoldBooks

LEMMA AssignReadHolds ==
    ASSUME TypeOK, HoldBooks, NEW t \in Threads, NEW m \in Members,
           NEW roles \in SUBSET RoleIds, Assigning(t, m, roles)
    PROVE  HoldBooks'
<1>1. /\ OneMoves(t)
      /\ thread'[t].pc = "assigning" /\ thread'[t].member = m
      /\ thread'[t].roles = roles /\ thread'[t].seen = held[m]
      /\ Giving(m) \subseteq overlapped'
      /\ Giving(m) \cup Removing(roles) # {} => t \in overlapped'
      /\ \A r \in roles : name[r] # "unused"
  BY NamesAssumption DEF Assigning, Exists, Absent
<1>2. UNCHANGED <<name, held, given, disturbed>>
  BY DEF Assigning, directory, holders
<1>3. HoldingsFollowAssignments'
  BY <1>2 DEF HoldBooks, HoldingsFollowAssignments, HeldBy, Exists
<1>4. GivenAreUsed'
  BY <1>1, <1>2 DEF HoldBooks, GivenAreUsed, OneMoves, At
<1>5. SeenCovers'
  BY <1>1, <1>2 DEF HoldBooks, SeenCovers, OneMoves, At
<1>6. GiversMeet'
  BY <1>1 DEF HoldBooks, GiversMeet, OneMoves, At, Giving
<1>7. DeletersMeet'
  BY <1>1 DEF HoldBooks, DeletersMeet, OneMoves, At, Removing
<1>8. RemovedIsUnheld'
  BY <1>1, <1>2 DEF HoldBooks, RemovedIsUnheld, OneMoves, At, HeldBy
<1> QED
  BY <1>3, <1>4, <1>5, <1>6, <1>7, <1>8 DEF HoldBooks

LEMMA DeleteCommitHolds ==
    ASSUME TypeOK, HoldBooks, NEW t \in Threads, DeleteCommit(t)
    PROVE  HoldBooks'
<1> DEFINE r == thread[t].role
<1>1. At(t, "deleting") /\ r \in RoleIds /\ UNCHANGED <<given, disturbed>>
  BY Fields DEF DeleteCommit
<1>2. /\ name'[r] = "gone"
      /\ \A x \in RoleIds : x # r => name'[x] = name[x]
      /\ \A m \in Members : held'[m] = {h \in held[m] : h.role # r}
  BY <1>1 DEF DeleteCommit, TypeOK
<1>3. OneMoves(t) /\ thread'[t].pc = "idle"
  BY EndMoves DEF DeleteCommit
<1>4. "gone" \notin Names /\ "gone" # "unused"
  BY NamesAssumption DEF Absent
<1>5. \A m \in Members : m \notin disturbed => r \notin HeldBy(m)
  BY <1>1 DEF HoldBooks, RemovedIsUnheld
<1> HIDE DEF r
<1>6. \A m \in Members : /\ HeldBy(m)' = HeldBy(m) \ {r}
                         /\ given[m] \subseteq RoleIds
                         /\ held'[m] \subseteq held[m]
  BY <1>2 DEF HeldBy, TypeOK
<1>7. HoldingsFollowAssignments'
  <2>1. \A m \in Members, x \in RoleIds :
            x \in given[m] /\ Exists(x)' => x \in HeldBy(m) \ {r}
    BY <1>1, <1>2, <1>4 DEF HoldBooks, HoldingsFollowAssignments, Exists
  <2>2. \A m \in Members : m \notin disturbed => HeldBy(m) \ {r} = given[m]
    BY <1>5 DEF HoldBooks, HoldingsFollowAssignments
  <2> QED
    BY <1>1, <1>6, <2>1, <2>2 DEF HoldingsFollowAssignments
<1>8. GivenAreUsed'
  BY <1>1, <1>2, <1>3, <1>4 DEF HoldBooks, GivenAreUsed, OneMoves, At
<1>9. SeenCovers'
  <2>1. \A u \in Threads : At(u, "assigning") => thread[u].member \in Members
    BY Fields
  <2> QED
    BY <1>3, <1>6, <2>1 DEF HoldBooks, SeenCovers, OneMoves, At
<1>10. GiversMeet' /\ DeletersMeet'
  BY <1>3 DEF HoldBooks, GiversMeet, DeletersMeet, OneMoves, At
<1>11. RemovedIsUnheld'
  BY <1>1, <1>3, <1>6 DEF HoldBooks, RemovedIsUnheld, OneMoves, At
<1> QED
  BY <1>7, <1>8, <1>9, <1>10, <1>11 DEF HoldBooks

LEMMA AssignCommitHolds ==
    ASSUME TypeOK, HoldBooks, NEW t \in Threads, AssignCommit(t)
    PROVE  HoldBooks'
<1> DEFINE m == thread[t].member
           roles == thread[t].roles
<1>1. At(t, "assigning") /\ m \in Members /\ roles \in SUBSET RoleIds /\ name' = name
  BY Fields DEF AssignCommit, directory
<1>2. PICK b : held' = [held EXCEPT ![m] = (@ \ thread[t].seen) \cup Holdings(roles, b)]
  BY DEF AssignCommit
<1>3. given' = [given EXCEPT ![m] = roles] /\ disturbed' = Sharing(disturbed, m, t)
  BY DEF AssignCommit
<1>4. OneMoves(t) /\ thread'[t].pc = "idle"
  BY EndMoves DEF AssignCommit
<1>5. /\ held'[m] = (held[m] \ thread[t].seen) \cup Holdings(roles, b)
      /\ given'[m] = roles
      /\ \A x \in Members : x # m => held'[x] = held[x] /\ given'[x] = given[x]
  BY <1>1, <1>2, <1>3 DEF TypeOK
<1>6. {h.role : h \in Holdings(roles, b)} = roles
  BY RowsSay
<1>7. t \notin overlapped => held[m] \subseteq thread[t].seen
  BY <1>1 DEF HoldBooks, SeenCovers
<1>8. \A u \in Threads : At(u, "deleting") /\ t \notin overlapped => thread[u].role \notin roles
  BY <1>1 DEF HoldBooks, DeletersMeet
<1>9. \A u \in Threads : u # t /\ At(u, "assigning") /\ u \notin overlapped
                            => thread[u].member # m /\ thread[u].member \in Members
  BY <1>1, Fields DEF HoldBooks, GiversMeet
<1>10. \A r \in roles : name[r] # "unused"
  BY <1>1 DEF HoldBooks, GivenAreUsed
<1> HIDE DEF m, roles
<1>11. t \notin overlapped => {h.role : h \in held'[m]} = roles
  <2> SUFFICES ASSUME t \notin overlapped PROVE {h.role : h \in held'[m]} = roles
    OBVIOUS
  <2>1. held'[m] = Holdings(roles, b)
    BY <1>5, <1>7
  <2> QED
    BY <1>6, <2>1
<1>12. roles \subseteq {h.role : h \in held'[m]}
  BY <1>5, <1>6
<1>13. ASSUME NEW x \in Members, x # m
       PROVE  /\ {h.role : h \in held'[x]} = HeldBy(x)
              /\ x \in disturbed => x \in disturbed'
  <2>1. held'[x] = held[x]
    BY <1>5, <1>13
  <2>2. x \in disturbed => x \in disturbed'
    BY <1>3, <1>13 DEF Sharing
  <2> QED
    BY <2>1, <2>2 DEF HeldBy
<1>14. m \notin disturbed' => t \notin overlapped
  BY <1>3 DEF Sharing
<1>15. HoldingsFollowAssignments'
  <2> SUFFICES ASSUME NEW x \in Members
               PROVE  /\ \A r \in given'[x] : name'[r] \in Names => r \in {h.role : h \in held'[x]}
                      /\ x \notin disturbed' => {h.role : h \in held'[x]} = given'[x]
    BY DEF HoldingsFollowAssignments, Exists, HeldBy
  <2>1. CASE x # m
    <3>1. /\ \A r \in given[x] : name[r] \in Names => r \in HeldBy(x)
          /\ x \notin disturbed => HeldBy(x) = given[x]
      BY DEF HoldBooks, HoldingsFollowAssignments, Exists
    <3>2. {h.role : h \in held'[x]} = HeldBy(x) /\ (x \in disturbed => x \in disturbed')
      BY <1>13, <2>1
    <3>3. given'[x] = given[x] /\ name' = name
      BY <1>1, <1>5, <2>1
    <3> QED
      BY <3>1, <3>2, <3>3
  <2>2. CASE x = m
    BY <1>5, <1>11, <1>12, <1>14, <2>2
  <2> QED
    BY <2>1, <2>2
<1>16. GivenAreUsed'
  BY <1>1, <1>4, <1>5, <1>10 DEF HoldBooks, GivenAreUsed, OneMoves, At
<1>17. SeenCovers'
  BY <1>4, <1>5, <1>9 DEF HoldBooks, SeenCovers, OneMoves, At
<1>18. GiversMeet' /\ DeletersMeet'
  BY <1>4 DEF HoldBooks, GiversMeet, DeletersMeet, OneMoves, At
<1>19. RemovedIsUnheld'
  <2> SUFFICES ASSUME NEW u \in Threads, NEW x \in Members,
                      At(u, "deleting")', x \notin disturbed'
               PROVE  thread'[u].role \notin {h.role : h \in held'[x]}
    BY DEF RemovedIsUnheld, HeldBy
  <2>1. thread'[u] = thread[u] /\ At(u, "deleting")
    BY <1>4 DEF OneMoves, At
  <2>2. CASE x # m
    <3>1. {h.role : h \in held'[x]} = HeldBy(x) /\ x \notin disturbed
      BY <1>13, <2>2
    <3>2. thread[u].role \notin HeldBy(x)
      BY <2>1, <3>1 DEF HoldBooks, RemovedIsUnheld
    <3> QED
      BY <2>1, <3>1, <3>2
  <2>3. CASE x = m
    BY <1>8, <1>11, <1>14, <2>1, <2>3
  <2> QED
    BY <2>2, <2>3
<1> QED
  BY <1>15, <1>16, <1>17, <1>18, <1>19 DEF HoldBooks

LEMMA RestartHolds ==
    ASSUME TypeOK, HoldBooks, Restart
    PROVE  HoldBooks'
<1>1. PICK role \in [SystemNames -> RoleIds] :
          (\A n \in SystemNames : name[role[n]] = n) /\ RestoreRoot(role[RootName])
  BY DEF Restart
<1> DEFINE r == role[RootName]
<1>2. r \in RoleIds /\ name[r] # "unused"
  BY <1>1, NamesAssumption DEF Absent
<1>3. name' = name /\ disturbed' = disturbed
  BY <1>1 DEF Restart, RestoreRoot, holders
<1>4. \A t \in Threads : thread'[t].pc = "idle"
  BY DEF Restart, Idle
<1> HIDE DEF r
<1>5. \/ held' = held /\ given' = given
      \/ /\ held' = [held EXCEPT ![Root] = @ \cup Holdings({r}, AnyBatch)]
         /\ given' = [given EXCEPT ![Root] = @ \cup {r}]
  BY <1>1 DEF RestoreRoot, holders, r
<1>6. {h.role : h \in Holdings({r}, AnyBatch)} = {r}
  BY RowsSay
<1>7. \A m \in Members : \E more \in SUBSET {r} :
          HeldBy(m)' = HeldBy(m) \cup more /\ given'[m] = given[m] \cup more
  <2> SUFFICES ASSUME NEW m \in Members
               PROVE  \E more \in SUBSET {r} :
                         HeldBy(m)' = HeldBy(m) \cup more /\ given'[m] = given[m] \cup more
    OBVIOUS
  <2>1. CASE held'[m] = held[m] /\ given'[m] = given[m]
    <3>1. HeldBy(m)' = HeldBy(m) \cup {} /\ given'[m] = given[m] \cup {}
      BY <2>1 DEF HeldBy
    <3> QED
      BY <3>1
  <2>2. CASE held'[m] = held[m] \cup Holdings({r}, AnyBatch) /\ given'[m] = given[m] \cup {r}
    <3>1. HeldBy(m)' = HeldBy(m) \cup {r}
      BY <1>6, <2>2 DEF HeldBy
    <3> QED
      BY <2>2, <3>1
  <2> QED
    BY <1>5, <2>1, <2>2, RootAssumption DEF TypeOK
<1>8. HoldingsFollowAssignments'
  BY <1>3, <1>7 DEF HoldBooks, HoldingsFollowAssignments, Exists
<1>9. \A t \in Threads : ~At(t, "assigning")' /\ ~At(t, "deleting")'
  BY <1>4 DEF At
<1>10. GivenAreUsed'
  BY <1>2, <1>3, <1>7, <1>9 DEF HoldBooks, GivenAreUsed
<1>11. SeenCovers' /\ GiversMeet' /\ DeletersMeet' /\ RemovedIsUnheld'
  BY <1>9 DEF SeenCovers, GiversMeet, DeletersMeet, RemovedIsUnheld
<1> QED
  BY <1>8, <1>10, <1>11 DEF HoldBooks

LEMMA HoldBooksStep == TypeOK /\ HoldBooks /\ [Next]_rvars => HoldBooks'
<1> SUFFICES ASSUME TypeOK, HoldBooks, [Next]_rvars PROVE HoldBooks'
  OBVIOUS
<1>1. ASSUME NEW t \in Threads, NEW n \in Names, NEW perms \in Lists, CreateRead(t, n, perms)
      PROVE  HoldBooks'
  <2>1. OneMoves(t) /\ thread'[t].pc = "creating" /\ name' = name /\ UNCHANGED holders
    BY <1>1, CreateReadMoves DEF CreateRead, directory
  <2> QED
    BY <2>1, QuietHolders DEF Exists
<1>2. ASSUME NEW t \in Threads, NEW r \in RoleIds, NEW n, NEW b, NEW perms,
             UpdateRead(t, r, n, b, perms)
      PROVE  HoldBooks'
  <2>1. OneMoves(t) /\ thread'[t].pc = "renaming" /\ name' = name /\ UNCHANGED holders
    BY <1>2, UpdateReadMoves DEF UpdateRead, directory
  <2> QED
    BY <2>1, QuietHolders DEF Exists
<1>3. ASSUME NEW t \in Threads, CreateCommit(t) PROVE HoldBooks'
  <2>1. PICK r \in {x \in RoleIds : name[x] = "unused"} :
            /\ name' = [name EXCEPT ![r] = thread[t].name]
            /\ IF thread[t].perms = {} THEN Ends(t)
               ELSE Starts(t, [pc |-> "granting", role |-> r, seen |-> {},
                               perms |-> thread[t].perms], {})
    BY <1>3 DEF CreateCommit
  <2>2. OneMoves(t) /\ thread'[t].pc \in {"idle", "granting"}
    BY <2>1 DEF Ends, Starts, Move, OneMoves, Idle, TypeOK
  <2>3. UNCHANGED holders
    BY <1>3 DEF CreateCommit
  <2>4. \A x \in RoleIds : name'[x] = name[x] \/ name[x] = "unused"
    BY <2>1 DEF TypeOK
  <2> QED
    BY <2>2, <2>3, <2>4, QuietHolders DEF Exists
<1>4. ASSUME NEW t \in Threads, UpdateCommit(t) PROVE HoldBooks'
  <2>1. OneMoves(t) /\ thread'[t].pc \in {"idle", "granting"}
    BY <1>4 DEF UpdateCommit, Ends, Starts, Move, OneMoves, Idle, TypeOK
  <2>2. UNCHANGED holders
    BY <1>4 DEF UpdateCommit
  <2>3. thread[t].to \in Names /\ "unused" \notin Names
    BY <1>4, Fields, NamesAssumption DEF UpdateCommit, Absent
  <2>4. \A x \in RoleIds : name'[x] = name[x] \/ (Exists(x) /\ name'[x] \in Names)
    BY <1>4, <2>3 DEF UpdateCommit, TypeOK
  <2> QED
    BY <2>1, <2>2, <2>3, <2>4, QuietHolders DEF Exists
<1>5. ASSUME NEW t \in Threads, GrantCommit(t) \/ ThreadFails(t) PROVE HoldBooks'
  <2>1. Ends(t) /\ name' = name /\ UNCHANGED holders
    BY <1>5 DEF GrantCommit, ThreadFails, directory
  <2>2. OneMoves(t) /\ thread'[t].pc = "idle"
    BY <2>1, EndMoves
  <2> QED
    BY <2>1, <2>2, QuietHolders DEF Exists
<1>6. ASSUME NEW t \in Threads,
             \/ \E m \in Members, n \in Names : AssignRead(t, m, n)
             \/ \E m \in Members, ns \in SUBSET Names, flag \in BOOLEAN :
                    AssignListRead(t, m, ns, flag)
      PROVE  HoldBooks'
  BY <1>6, AssignMoves, AssignReadHolds
<1>7. CASE \/ \E m \in Members, flag \in BOOLEAN : SetSuperuser(m, flag)
           \/ UNCHANGED rvars
  <2>1. UNCHANGED <<name, held, given, disturbed, thread, overlapped>>
    BY <1>7 DEF SetSuperuser, rvars, directory, holders
  <2> QED
    BY <2>1 DEF HoldBooks, HoldingsFollowAssignments, GivenAreUsed, SeenCovers, GiversMeet,
       DeletersMeet, RemovedIsUnheld, HeldBy, Exists, At
<1> QED
  BY <1>1, <1>2, <1>3, <1>4, <1>5, <1>6, <1>7, DeleteReadHolds, DeleteCommitHolds,
     AssignCommitHolds, RestartHolds DEF Next

(* A member holds what was given last, and loses no role to a deletion     *)
(* that did not overlap an assignment.                                     *)
THEOREM HoldingsAreGiven == Spec => []HoldingsFollowAssignments
<1>1. Init => HoldBooks
  BY InitHoldBooks
<1>2. TypeOK /\ HoldBooks /\ [Next]_rvars => HoldBooks'
  BY HoldBooksStep
<1>3. HoldBooks => HoldingsFollowAssignments
  BY DEF HoldBooks
<1> QED
  BY <1>1, <1>2, <1>3, TypeCorrect, PTL DEF Spec

-----------------------------------------------------------------------------
(* Whatever was done before, a start makes Root able to manage roles.      *)
THEOREM RootIsRestored == Spec => RestartRestoresRoot
<1>1. ASSUME TypeOK, Restart PROVE May(Root, AssignRoles)'
  <2>1. PICK role \in [SystemNames -> RoleIds] :
            SeedRoles(role) /\ RestoreRoot(role[RootName])
    BY <1>1 DEF Restart
  <2> DEFINE r == role[RootName]
             lacks == Defaults(role, r) \ Allowed(r)
  <2>2. r \in RoleIds /\ RootName \in SystemNames
    BY <2>1, NamesAssumption
  <2>3. r \in HeldBy(Root)'
    <3>1. {h.role : h \in Holdings({r}, AnyBatch)} = {r}
      BY RowsSay
    <3> HIDE DEF r
    <3>2. CASE r \in HeldBy(Root)
      BY <2>1, <3>2 DEF RestoreRoot, holders, HeldBy, r
    <3>3. CASE r \notin HeldBy(Root)
      <4>1. held' = [held EXCEPT ![Root] = @ \cup Holdings({r}, AnyBatch)]
        BY <2>1, <3>3 DEF RestoreRoot, r
      <4>2. held'[Root] = held[Root] \cup Holdings({r}, AnyBatch)
        BY <1>1, <4>1, RootAssumption DEF TypeOK
      <4> QED
        BY <3>1, <4>2 DEF HeldBy
    <3> QED
      BY <3>2, <3>3
  <2>4. AssignRoles \in Defaults(role, r)
    BY <2>2, SeededAssumption DEF Defaults
  <2>5. grants'[r] = grants[r] \cup Granted(lacks, AnyBatch)
    BY <2>1, <2>2 DEF SeedRoles
  <2>6. {g.perm : g \in Granted(lacks, AnyBatch)} = lacks
    BY RowsSay
  <2> HIDE DEF lacks
  <2>7. {g.perm : g \in grants'[r]} = Allowed(r) \cup lacks
    BY <2>5, <2>6 DEF Allowed
  <2>8. AssignRoles \in Allowed(r)'
    BY <2>4, <2>7 DEF Allowed, lacks
  <2> QED
    BY <2>3, <2>8 DEF May
<1>2. TypeOK => [Restart => May(Root, AssignRoles)']_rvars
  BY <1>1
<1> QED
  BY <1>2, TypeCorrect, PTL DEF RestartRestoresRoot

-----------------------------------------------------------------------------
(* The directory the requests implement.                                   *)

(* A deleted role grants nothing and nobody holds it; only roles that were *)
(* used are about to be deleted.                                           *)
GoneIsBare ==
    /\ \A r \in RoleIds : name[r] = "gone" =>
          grants[r] = {} /\ \A m \in Members : r \notin HeldBy(m)
    /\ \A t \in Threads : At(t, "deleting") => name[thread[t].role] # "unused"

(* Steps that delete nothing, and give nothing to deleted roles.           *)
LEMMA QuietGone ==
    ASSUME GoneIsBare,
           \A r \in RoleIds : /\ name'[r] = "gone" => name[r] = "gone"
                              /\ name[r] # "unused" => name'[r] # "unused"
                              /\ name[r] = "gone" =>
                                    /\ grants'[r] = grants[r]
                                    /\ \A m \in Members : r \in HeldBy(m)' => r \in HeldBy(m),
           \A t \in Threads : At(t, "deleting")' =>
                                 /\ thread'[t].role \in RoleIds
                                 /\ name[thread'[t].role] # "unused"
    PROVE  GoneIsBare'
<1>1. ASSUME NEW r \in RoleIds, name'[r] = "gone"
      PROVE  grants'[r] = {} /\ \A m \in Members : r \notin HeldBy(m)'
  BY <1>1 DEF GoneIsBare
<1>2. \A t \in Threads : At(t, "deleting")' => name'[thread'[t].role] # "unused"
  OBVIOUS
<1> QED
  BY <1>1, <1>2 DEF GoneIsBare

(* A request that ends, or goes on to something else than a deletion.      *)
LEMMA DeletersStay ==
    ASSUME TypeOK, GoneIsBare, NEW t \in Threads, OneMoves(t), thread'[t].pc # "deleting"
    PROVE  \A u \in Threads : At(u, "deleting")' =>
              thread'[u].role \in RoleIds /\ name[thread'[u].role] # "unused"
<1> SUFFICES ASSUME NEW u \in Threads, At(u, "deleting")'
             PROVE  thread'[u].role \in RoleIds /\ name[thread'[u].role] # "unused"
  OBVIOUS
<1>1. u # t /\ thread'[u] = thread[u]
  BY DEF OneMoves, At
<1>2. At(u, "deleting")
  BY <1>1 DEF At
<1> QED
  BY <1>1, <1>2, Fields DEF GoneIsBare

LEMMA CreateCommitGone ==
    ASSUME TypeOK, GoneIsBare, NEW t \in Threads, CreateCommit(t)
    PROVE  GoneIsBare'
<1>1. PICK r \in {x \in RoleIds : name[x] = "unused"} :
          /\ name' = [name EXCEPT ![r] = thread[t].name]
          /\ IF thread[t].perms = {} THEN Ends(t)
             ELSE Starts(t, [pc |-> "granting", role |-> r, seen |-> {},
                             perms |-> thread[t].perms], {})
  BY DEF CreateCommit
<1>2. OneMoves(t) /\ thread'[t].pc # "deleting"
  BY <1>1 DEF Ends, Starts, Move, OneMoves, Idle, TypeOK
<1>3. thread[t].name \in Names /\ UNCHANGED <<grants, held>>
  BY Fields DEF CreateCommit, holders
<1>4. \A x \in RoleIds : /\ name'[x] = "gone" => name[x] = "gone"
                         /\ name[x] # "unused" => name'[x] # "unused"
  BY <1>1, <1>3, NamesAssumption DEF TypeOK, Absent
<1> QED
  BY <1>2, <1>3, <1>4, DeletersStay, QuietGone DEF HeldBy

LEMMA UpdateCommitGone ==
    ASSUME TypeOK, GoneIsBare, NEW t \in Threads, UpdateCommit(t)
    PROVE  GoneIsBare'
<1>1. OneMoves(t) /\ thread'[t].pc # "deleting"
  BY DEF UpdateCommit, Ends, Starts, Move, OneMoves, Idle, TypeOK
<1>2. thread[t].to \in Names /\ UNCHANGED <<grants, held>>
  BY Fields DEF UpdateCommit, holders
<1>3. \A x \in RoleIds : /\ name'[x] = "gone" => name[x] = "gone"
                         /\ name[x] # "unused" => name'[x] # "unused"
  BY <1>2, NamesAssumption DEF UpdateCommit, TypeOK, Absent
<1> QED
  BY <1>1, <1>2, <1>3, DeletersStay, QuietGone DEF HeldBy

LEMMA GrantCommitGone ==
    ASSUME TypeOK, GoneIsBare, NEW t \in Threads, GrantCommit(t)
    PROVE  GoneIsBare'
<1>1. /\ OneMoves(t) /\ thread'[t].pc # "deleting"
      /\ Exists(thread[t].role) /\ UNCHANGED <<name, held>>
  BY EndMoves DEF GrantCommit, holders
<1>2. PICK b : grants' = [grants EXCEPT ![thread[t].role] =
                            (@ \ thread[t].seen) \cup Granted(thread[t].perms, b)]
  BY DEF GrantCommit
<1>3. \A x \in RoleIds : name[x] = "gone" => grants'[x] = grants[x]
  BY <1>1, <1>2, NamesAssumption DEF Exists, Absent, TypeOK
<1> QED
  BY <1>1, <1>3, DeletersStay, QuietGone DEF HeldBy

LEMMA DeleteCommitGone ==
    ASSUME TypeOK, GoneIsBare, NEW t \in Threads, DeleteCommit(t)
    PROVE  GoneIsBare'
<1> DEFINE r == thread[t].role
<1>1. r \in RoleIds /\ OneMoves(t) /\ thread'[t].pc # "deleting"
  BY Fields, EndMoves DEF DeleteCommit
<1>2. /\ name'[r] = "gone" /\ grants'[r] = {}
      /\ \A x \in RoleIds : x # r => name'[x] = name[x] /\ grants'[x] = grants[x]
      /\ \A m \in Members : HeldBy(m)' = HeldBy(m) \ {r}
  BY <1>1 DEF DeleteCommit, TypeOK, HeldBy
<1> HIDE DEF r
<1>3. ASSUME NEW x \in RoleIds, name'[x] = "gone"
      PROVE  grants'[x] = {} /\ \A m \in Members : x \notin HeldBy(m)'
  BY <1>2, <1>3 DEF GoneIsBare
<1>4. ASSUME NEW u \in Threads, At(u, "deleting")' PROVE name'[thread'[u].role] # "unused"
  BY <1>1, <1>2, <1>4, DeletersStay
<1> QED
  BY <1>3, <1>4 DEF GoneIsBare

LEMMA AssignCommitGone ==
    ASSUME TypeOK, GoneIsBare, NEW t \in Threads, AssignCommit(t)
    PROVE  GoneIsBare'
<1> DEFINE m == thread[t].member
           roles == thread[t].roles
<1>1. /\ OneMoves(t) /\ thread'[t].pc # "deleting"
      /\ \A r \in roles : Exists(r)
      /\ m \in Members /\ UNCHANGED <<name, grants>>
  BY EndMoves, Fields DEF AssignCommit, directory
<1>2. PICK b : held' = [held EXCEPT ![m] = (@ \ thread[t].seen) \cup Holdings(roles, b)]
  BY DEF AssignCommit
<1>3. {h.role : h \in Holdings(roles, b)} = roles
  BY RowsSay
<1> HIDE DEF m, roles
<1>4. \A x \in Members : HeldBy(x)' \subseteq HeldBy(x) \cup roles
  BY <1>1, <1>2, <1>3 DEF HeldBy, TypeOK
<1>5. \A r \in roles : name[r] # "gone"
  BY <1>1, NamesAssumption DEF Exists, Absent
<1> QED
  BY <1>1, <1>4, <1>5, DeletersStay, QuietGone

(* What a start gives to roles and to Root.                                *)
LEMMA RestartGives ==
    ASSUME TypeOK, NEW role \in [SystemNames -> RoleIds], SeedRoles(role),
           RestoreRoot(role[RootName])
    PROVE  /\ \A r \in RoleIds : Allowed(r)' = Allowed(r) \cup Defaults(role, r)
           /\ \A r \in RoleIds : Defaults(role, r) = {} => grants'[r] = grants[r]
           /\ \A m \in Members : m # Root => HeldBy(m)' = HeldBy(m)
           /\ HeldBy(Root)' = HeldBy(Root) \cup {role[RootName]}
           /\ disturbed' = disturbed
<1> DEFINE lacks(r) == Defaults(role, r) \ Allowed(r)
<1>1. \A r \in RoleIds : grants'[r] = grants[r] \cup Granted(lacks(r), AnyBatch)
  BY DEF SeedRoles
<1>2. ASSUME NEW r \in RoleIds PROVE Allowed(r)' = Allowed(r) \cup Defaults(role, r)
  <2>1. {g.perm : g \in Granted(lacks(r), AnyBatch)} = lacks(r)
    BY RowsSay
  <2>2. Allowed(r)' = Allowed(r) \cup {g.perm : g \in Granted(lacks(r), AnyBatch)}
    <3> HIDE DEF lacks
    <3> QED
      BY <1>1 DEF Allowed
  <2>3. Allowed(r) \cup lacks(r) = Allowed(r) \cup Defaults(role, r)
    OBVIOUS
  <2> QED
    BY <2>1, <2>2, <2>3
<1>3. ASSUME NEW r \in RoleIds, Defaults(role, r) = {} PROVE grants'[r] = grants[r]
  <2>1. lacks(r) = {}
    BY <1>3
  <2> QED
    BY <1>1, <2>1, NoGrants
<1> DEFINE x == role[RootName]
<1>4. {h.role : h \in Holdings({x}, AnyBatch)} = {x}
  BY RowsSay
<1> HIDE DEF x
<1>5. CASE x \in HeldBy(Root)
  <2>1. UNCHANGED holders
    BY <1>5 DEF RestoreRoot, x
  <2> QED
    BY <1>2, <1>3, <1>5, <2>1 DEF holders, HeldBy, x
<1>6. CASE x \notin HeldBy(Root)
  <2>1. held' = [held EXCEPT ![Root] = @ \cup Holdings({x}, AnyBatch)] /\ disturbed' = disturbed
    BY <1>6 DEF RestoreRoot, x
  <2>2. /\ held'[Root] = held[Root] \cup Holdings({x}, AnyBatch)
        /\ \A m \in Members : m # Root => held'[m] = held[m]
    BY <2>1, RootAssumption DEF TypeOK
  <2>3. HeldBy(Root)' = HeldBy(Root) \cup {x}
    BY <1>4, <2>2 DEF HeldBy
  <2>4. \A m \in Members : m # Root => HeldBy(m)' = HeldBy(m)
    BY <2>2 DEF HeldBy
  <2> QED
    BY <1>2, <1>3, <2>1, <2>3, <2>4 DEF x
<1> QED
  BY <1>5, <1>6

LEMMA RestartGone ==
    ASSUME TypeOK, GoneIsBare, Restart
    PROVE  GoneIsBare'
<1>1. PICK role \in [SystemNames -> RoleIds] :
          /\ \A n \in SystemNames : name[role[n]] = n
          /\ SeedRoles(role) /\ RestoreRoot(role[RootName])
  BY DEF Restart
<1>2. name' = name /\ \A t \in Threads : ~At(t, "deleting")'
  BY DEF Restart, At, Idle
<1>3. \A r \in RoleIds, n \in SystemNames : name[r] = "gone" => role[n] # r
  BY <1>1, NamesAssumption DEF Absent
<1>4. \A r \in RoleIds : name[r] = "gone" => Defaults(role, r) = {}
  BY <1>3 DEF Defaults
<1>5. RootName \in SystemNames
  BY NamesAssumption
<1>6. ASSUME NEW r \in RoleIds, name[r] = "gone"
      PROVE  grants'[r] = grants[r] /\ \A m \in Members : r \in HeldBy(m)' => r \in HeldBy(m)
  BY <1>1, <1>3, <1>4, <1>5, <1>6, RestartGives
<1> QED
  BY <1>2, <1>6, QuietGone

LEMMA GoneStep == TypeOK /\ GoneIsBare /\ [Next]_rvars => GoneIsBare'
<1> SUFFICES ASSUME TypeOK, GoneIsBare, [Next]_rvars PROVE GoneIsBare'
  OBVIOUS
<1>1. ASSUME NEW t \in Threads, OneMoves(t), thread'[t].pc # "deleting",
             UNCHANGED <<name, grants, held>>
      PROVE  GoneIsBare'
  BY <1>1, DeletersStay, QuietGone DEF HeldBy
<1>2. ASSUME NEW t \in Threads, NEW n \in Names, NEW perms \in Lists, CreateRead(t, n, perms)
      PROVE  GoneIsBare'
  BY <1>1, <1>2, CreateReadMoves DEF CreateRead, directory, holders
<1>3. ASSUME NEW t \in Threads, NEW r \in RoleIds, NEW n, NEW b, NEW perms,
             UpdateRead(t, r, n, b, perms)
      PROVE  GoneIsBare'
  BY <1>1, <1>3, UpdateReadMoves DEF UpdateRead, directory, holders
<1>4. ASSUME NEW t \in Threads, NEW r \in RoleIds, DeleteRead(t, r)
      PROVE  GoneIsBare'
  <2>1. /\ OneMoves(t) /\ thread'[t].role = r
        /\ Exists(r) /\ UNCHANGED <<name, grants, held>>
    BY <1>4, DeleteReadMoves DEF DeleteRead, directory, holders
  <2>2. ASSUME NEW u \in Threads, At(u, "deleting")'
        PROVE  thread'[u].role \in RoleIds /\ name[thread'[u].role] # "unused"
    <3>1. CASE u = t
      BY <2>1, <3>1, NamesAssumption DEF Exists, Absent
    <3>2. CASE u # t
      <4>1. thread'[u] = thread[u] /\ At(u, "deleting")
        BY <2>1, <2>2, <3>2 DEF OneMoves, At
      <4> QED
        BY <4>1, Fields DEF GoneIsBare
    <3> QED
      BY <3>1, <3>2
  <2> QED
    BY <2>1, <2>2, QuietGone DEF HeldBy
<1>5. ASSUME NEW t \in Threads,
             \/ \E m \in Members, n \in Names : AssignRead(t, m, n)
             \/ \E m \in Members, ns \in SUBSET Names, flag \in BOOLEAN :
                    AssignListRead(t, m, ns, flag)
      PROVE  GoneIsBare'
  BY <1>1, <1>5, AssignMoves DEF Assigning, directory, holders
<1>6. ASSUME NEW t \in Threads, ThreadFails(t) PROVE GoneIsBare'
  BY <1>1, <1>6, EndMoves DEF ThreadFails, directory, holders
<1>7. CASE \/ \E m \in Members, flag \in BOOLEAN : SetSuperuser(m, flag)
           \/ UNCHANGED rvars
  <2>1. UNCHANGED <<name, grants, held, thread>>
    BY <1>7 DEF SetSuperuser, rvars, directory, holders
  <2> QED
    BY <2>1 DEF GoneIsBare, HeldBy, At
<1> QED
  BY <1>2, <1>3, <1>4, <1>5, <1>6, <1>7, CreateCommitGone, UpdateCommitGone, GrantCommitGone,
     DeleteCommitGone, AssignCommitGone, RestartGone DEF Next

-----------------------------------------------------------------------------
(* Each step of a request is a step of the directory, or none.             *)
DirectoryStays ==
    /\ name' = name /\ mixed' = mixed /\ disturbed' = disturbed
    /\ \A r \in RoleIds : Allowed(r)' = Allowed(r)
    /\ \A m \in Members : HeldBy(m)' = HeldBy(m)

LEMMA StaysMaps == DirectoryStays => UNCHANGED Directory!dvars
  BY DEF DirectoryStays, Directory!dvars

(* Nothing but a commit of a request, or a start, shows.                   *)
LEMMA OthersStay ==
    ASSUME UNCHANGED <<directory, held, disturbed>>
    PROVE  DirectoryStays
  BY DEF directory, DirectoryStays, Allowed, HeldBy

LEMMA CreateMaps ==
    ASSUME TypeOK, NEW t \in Threads, CreateCommit(t)
    PROVE  \E r \in RoleIds, n \in Names : Directory!Create(r, n)
<1>1. PICK r \in {x \in RoleIds : name[x] = "unused"} :
          /\ Accepted(r, thread[t].name)
          /\ name' = [name EXCEPT ![r] = thread[t].name]
  BY DEF CreateCommit
<1>2. thread[t].name \in Names
  BY Fields DEF CreateCommit
<1>3. UNCHANGED <<grants, held, mixed, disturbed>>
  BY DEF CreateCommit, holders
<1>4. Directory!Create(r, thread[t].name)
  BY <1>1, <1>3 DEF Directory!Create, Directory!Name, Directory!Free, Accepted, Allowed, HeldBy
<1> QED
  BY <1>1, <1>2, <1>4

LEMMA UpdateMaps ==
    ASSUME TypeOK, BuiltInsKept, NEW t \in Threads, UpdateCommit(t)
    PROVE  \/ \E r \in RoleIds, n \in Names : Directory!Rename(r, n)
           \/ DirectoryStays
<1> DEFINE r == thread[t].role
           n == thread[t].to
<1>1. At(t, "renaming") /\ Exists(r) /\ r \in RoleIds /\ n \in Names
  BY Fields DEF UpdateCommit
<1>2. UNCHANGED <<grants, held, mixed, disturbed>>
  BY DEF UpdateCommit, holders
<1>3. CASE thread[t].from = n
  <2>1. name' = name
    BY <1>3 DEF UpdateCommit
  <2> QED
    BY <1>2, <2>1 DEF DirectoryStays, Allowed, HeldBy
<1>4. CASE thread[t].from # n
  <2>1. Accepted(r, n) /\ name' = [name EXCEPT ![r] = n]
    BY <1>4 DEF UpdateCommit
  <2>2. ~ Directory!IsBuiltIn(r)
    BY <1>1, <1>4 DEF BuiltInsKept, Directory!IsBuiltIn
  <2>3. Directory!Rename(r, n)
    BY <1>1, <1>2, <2>1, <2>2 DEF Directory!Rename, Directory!Name, Directory!Free,
       Directory!Exists, Accepted, Exists, Allowed, HeldBy
  <2> QED
    BY <1>1, <2>3
<1> QED
  BY <1>3, <1>4

LEMMA GrantMaps ==
    ASSUME TypeOK, GrantBooks, NEW t \in Threads, GrantCommit(t)
    PROVE  \E r \in RoleIds, perms \in SUBSET Permissions : Directory!SetGrants(r, perms)
<1> DEFINE shown == [x \in RoleIds |-> Allowed(x)]
<1>0. PICK r \in RoleIds, perms \in SUBSET Permissions :
          r = thread[t].role /\ perms = thread[t].perms
  BY Fields DEF GrantCommit
<1>1. /\ At(t, "granting") /\ Exists(r) /\ r \in RoleIds /\ perms \in SUBSET Permissions
      /\ name' = name /\ held' = held /\ disturbed' = disturbed
  BY <1>0 DEF GrantCommit, holders
<1>2. PICK b : grants' = [grants EXCEPT ![r] = (@ \ thread[t].seen) \cup Granted(perms, b)]
  BY <1>0 DEF GrantCommit
<1>3. mixed' = Sharing(mixed, r, t)
  BY <1>0 DEF GrantCommit
<1>4. {g.perm : g \in Granted(perms, b)} = perms
  BY RowsSay
<1>5. t \notin overlapped => thread[t].seen = grants[r]
  BY <1>0, <1>1 DEF GrantBooks, SeenIsFresh
<1> DEFINE more == {g.perm : g \in grants[r] \ thread[t].seen}
<1>6. grants'[r] = (grants[r] \ thread[t].seen) \cup Granted(perms, b)
  BY <1>1, <1>2 DEF TypeOK
<1>7. \A x \in RoleIds : x # r => grants'[x] = grants[x]
  BY <1>1, <1>2 DEF TypeOK
<1>8. Allowed(r)' = perms \cup more
  BY <1>4, <1>6 DEF Allowed
<1>9. \A x \in RoleIds : x # r => Allowed(x)' = Allowed(x)
  BY <1>7 DEF Allowed
<1>10. more \in SUBSET Allowed(r)
  BY DEF Allowed
<1>11. t \notin overlapped => more = {}
  BY <1>5
<1> HIDE DEF more
<1>12. shown' = [shown EXCEPT ![r] = perms \cup more]
  BY <1>1, <1>8, <1>9
<1>13. shown[r] = Allowed(r)
  BY <1>1
<1>14. [m \in Members |-> HeldBy(m)]' = [m \in Members |-> HeldBy(m)]
  BY <1>1 DEF HeldBy
<1> HIDE DEF shown
<1>15. CASE t \in overlapped
  <2>1. mixed' = mixed \cup {r}
    BY <1>3, <1>15 DEF Sharing
  <2>2. \E x \in SUBSET shown[r] : shown' = [shown EXCEPT ![r] = perms \cup x]
    BY <1>10, <1>12, <1>13
  <2>3. Directory!SetGrants(r, perms)
    BY <1>1, <1>14, <2>1, <2>2 DEF Directory!SetGrants, Directory!Exists, Exists, shown
  <2> QED
    BY <1>1, <2>3
<1>16. CASE t \notin overlapped
  <2>1. mixed' = mixed \ {r}
    BY <1>3, <1>16 DEF Sharing
  <2>2. shown' = [shown EXCEPT ![r] = perms]
    BY <1>11, <1>12, <1>16
  <2>3. Directory!SetGrants(r, perms)
    BY <1>1, <1>14, <2>1, <2>2 DEF Directory!SetGrants, Directory!Exists, Exists, shown
  <2> QED
    BY <1>1, <2>3
<1> QED
  BY <1>15, <1>16

LEMMA DeleteMaps ==
    ASSUME TypeOK, BuiltInsKept, HoldBooks, GoneIsBare, NEW t \in Threads, DeleteCommit(t)
    PROVE  \/ \E r \in RoleIds : Directory!Delete(r)
           \/ DirectoryStays
<1>0. PICK r \in RoleIds : r = thread[t].role
  BY Fields DEF DeleteCommit
<1>1. At(t, "deleting") /\ r \in RoleIds /\ UNCHANGED <<mixed, disturbed>>
  BY DEF DeleteCommit
<1>2. /\ name' = [name EXCEPT ![r] = "gone"]
      /\ grants' = [grants EXCEPT ![r] = {}]
      /\ \A m \in Members : held'[m] = {h \in held[m] : h.role # r}
  BY <1>0 DEF DeleteCommit
<1>3. ~ Directory!IsBuiltIn(r)
  BY <1>0, <1>1 DEF BuiltInsKept, Directory!IsBuiltIn
<1>4. \A m \in Members : r \in HeldBy(m) => m \in disturbed
  BY <1>0, <1>1 DEF HoldBooks, RemovedIsUnheld
<1>5. name[r] # "unused"
  BY <1>0, <1>1 DEF GoneIsBare
<1>6. Allowed(r)' = {} /\ \A x \in RoleIds : x # r => Allowed(x)' = Allowed(x)
  BY <1>1, <1>2 DEF Allowed, TypeOK
<1>7. \A m \in Members : HeldBy(m)' = HeldBy(m) \ {r}
  BY <1>2 DEF HeldBy
<1>8. CASE Exists(r)
  <2>1. [x \in RoleIds |-> Allowed(x)]' = [[x \in RoleIds |-> Allowed(x)] EXCEPT ![r] = {}]
    BY <1>1, <1>6
  <2>2. [m \in Members |-> HeldBy(m)]' = [m \in Members |-> [x \in Members |-> HeldBy(x)][m] \ {r}]
    BY <1>7
  <2>3. \A m \in Members : r \in [x \in Members |-> HeldBy(x)][m] => m \in disturbed
    BY <1>4
  <2>4. Directory!Delete(r)
    BY <1>1, <1>2, <1>3, <1>8, <2>1, <2>2, <2>3 DEF Directory!Delete, Directory!Exists, Exists
  <2> QED
    BY <1>1, <2>4
<1>9. CASE ~Exists(r)
  <2>1. name[r] = "gone"
    BY <1>1, <1>5, <1>9 DEF TypeOK, Exists, Absent
  <2>2. name' = name
    BY <1>1, <1>2, <2>1 DEF TypeOK
  <2>3. Allowed(r) = {} /\ \A m \in Members : r \notin HeldBy(m)
    BY <1>1, <2>1 DEF GoneIsBare, Allowed
  <2> QED
    BY <1>1, <1>6, <1>7, <2>2, <2>3 DEF DirectoryStays
<1> QED
  BY <1>8, <1>9

LEMMA AssignMaps ==
    ASSUME TypeOK, HoldBooks, NEW t \in Threads, AssignCommit(t)
    PROVE  \E m \in Members, roles \in SUBSET RoleIds : Directory!Assign(m, roles)
<1> DEFINE shown == [x \in Members |-> HeldBy(x)]
<1>0. PICK m \in Members, roles \in SUBSET RoleIds :
          m = thread[t].member /\ roles = thread[t].roles
  BY Fields DEF AssignCommit
<1>1. /\ At(t, "assigning") /\ m \in Members /\ roles \in SUBSET RoleIds
      /\ name' = name /\ grants' = grants /\ mixed' = mixed
      /\ \A r \in roles : Exists(r)
  BY <1>0 DEF AssignCommit, directory
<1>2. PICK b : held' = [held EXCEPT ![m] = (@ \ thread[t].seen) \cup Holdings(roles, b)]
  BY <1>0 DEF AssignCommit
<1>3. disturbed' = Sharing(disturbed, m, t)
  BY <1>0 DEF AssignCommit
<1>4. {h.role : h \in Holdings(roles, b)} = roles
  BY RowsSay
<1>5. t \notin overlapped => held[m] \subseteq thread[t].seen
  BY <1>0, <1>1 DEF HoldBooks, SeenCovers
<1> DEFINE more == {h.role : h \in held[m] \ thread[t].seen}
<1>6. held'[m] = (held[m] \ thread[t].seen) \cup Holdings(roles, b)
  BY <1>1, <1>2 DEF TypeOK
<1>7. \A x \in Members : x # m => held'[x] = held[x]
  BY <1>1, <1>2 DEF TypeOK
<1>8. HeldBy(m)' = roles \cup more
  BY <1>4, <1>6 DEF HeldBy
<1>9. \A x \in Members : x # m => HeldBy(x)' = HeldBy(x)
  BY <1>7 DEF HeldBy
<1>10. more \in SUBSET HeldBy(m)
  BY DEF HeldBy
<1>11. t \notin overlapped => more = {}
  BY <1>5
<1> HIDE DEF more
<1>12. shown' = [shown EXCEPT ![m] = roles \cup more]
  BY <1>1, <1>8, <1>9
<1>13. shown[m] = HeldBy(m)
  BY <1>1
<1>14. [x \in RoleIds |-> Allowed(x)]' = [x \in RoleIds |-> Allowed(x)]
  BY <1>1 DEF Allowed
<1> HIDE DEF shown
<1>15. CASE t \in overlapped
  <2>1. disturbed' = disturbed \cup {m}
    BY <1>3, <1>15 DEF Sharing
  <2>2. \E x \in SUBSET shown[m] : shown' = [shown EXCEPT ![m] = roles \cup x]
    BY <1>10, <1>12, <1>13
  <2>3. Directory!Assign(m, roles)
    BY <1>1, <1>14, <2>1, <2>2 DEF Directory!Assign, Directory!Exists, Exists, shown
  <2> QED
    BY <1>1, <2>3
<1>16. CASE t \notin overlapped
  <2>1. disturbed' = disturbed \ {m}
    BY <1>3, <1>16 DEF Sharing
  <2>2. shown' = [shown EXCEPT ![m] = roles]
    BY <1>11, <1>12, <1>16
  <2>3. Directory!Assign(m, roles)
    BY <1>1, <1>14, <2>1, <2>2 DEF Directory!Assign, Directory!Exists, Exists, shown
  <2> QED
    BY <1>1, <2>3
<1> QED
  BY <1>15, <1>16

LEMMA RestartMaps ==
    ASSUME TypeOK, Restart
    PROVE  Directory!Start
<1>1. PICK role \in [SystemNames -> RoleIds] :
          /\ \A n \in SystemNames : name[role[n]] = n
          /\ SeedRoles(role) /\ RestoreRoot(role[RootName])
  BY DEF Restart
<1>2. UNCHANGED <<name, mixed>>
  BY DEF Restart
<1>3. /\ \A r \in RoleIds : Allowed(r)' = Allowed(r) \cup Defaults(role, r)
      /\ \A m \in Members : m # Root => HeldBy(m)' = HeldBy(m)
      /\ HeldBy(Root)' = HeldBy(Root) \cup {role[RootName]}
      /\ disturbed' = disturbed
  BY <1>1, RestartGives
<1>4. \A r : Directory!Defaults(role, r) = Defaults(role, r)
  BY DEF Directory!Defaults, Defaults
<1>5. [r \in RoleIds |-> Allowed(r)]' =
          [r \in RoleIds |-> [x \in RoleIds |-> Allowed(x)][r] \cup Directory!Defaults(role, r)]
  BY <1>3, <1>4
<1>6. [m \in Members |-> HeldBy(m)]' =
          [[m \in Members |-> HeldBy(m)] EXCEPT ![Root] = @ \cup {role[RootName]}]
  BY <1>3, RootAssumption
<1> QED
  BY <1>1, <1>2, <1>3, <1>5, <1>6 DEF Directory!Start

LEMMA DirectoryStep ==
    TypeOK /\ BuiltInsKept /\ GrantBooks /\ HoldBooks /\ GoneIsBare /\ [Next]_rvars
        => [Directory!Next]_(Directory!dvars)
<1> SUFFICES ASSUME TypeOK, BuiltInsKept, GrantBooks, HoldBooks, GoneIsBare, [Next]_rvars
             PROVE  Directory!Next \/ UNCHANGED Directory!dvars
  OBVIOUS
<1>1. ASSUME DirectoryStays PROVE Directory!Next \/ UNCHANGED Directory!dvars
  BY <1>1, StaysMaps
<1>2. ASSUME NEW t \in Threads,
             \/ \E n \in Names, perms \in Lists : CreateRead(t, n, perms)
             \/ \E r \in RoleIds, n \in Names : UpdateRead(t, r, n, FALSE, {})
             \/ \E r \in RoleIds, n \in Names, perms \in Lists : UpdateRead(t, r, n, TRUE, perms)
             \/ \E r \in RoleIds : DeleteRead(t, r)
             \/ ThreadFails(t)
      PROVE  DirectoryStays
  <2>1. UNCHANGED <<directory, holders>>
    BY <1>2 DEF CreateRead, UpdateRead, DeleteRead, ThreadFails
  <2> QED
    BY <2>1, OthersStay DEF holders
<1>3. ASSUME NEW t \in Threads,
             \/ \E m \in Members, n \in Names : AssignRead(t, m, n)
             \/ \E m \in Members, ns \in SUBSET Names, flag \in BOOLEAN :
                    AssignListRead(t, m, ns, flag)
      PROVE  DirectoryStays
  BY <1>3, AssignMoves, OthersStay DEF Assigning, holders
<1>4. ASSUME NEW t \in Threads, CreateCommit(t) PROVE Directory!Next
  BY <1>4, CreateMaps DEF Directory!Next
<1>5. ASSUME NEW t \in Threads, UpdateCommit(t) PROVE Directory!Next \/ DirectoryStays
  BY <1>5, UpdateMaps DEF Directory!Next
<1>6. ASSUME NEW t \in Threads, GrantCommit(t) PROVE Directory!Next
  BY <1>6, GrantMaps DEF Directory!Next
<1>7. ASSUME NEW t \in Threads, DeleteCommit(t) PROVE Directory!Next \/ DirectoryStays
  BY <1>7, DeleteMaps DEF Directory!Next
<1>8. ASSUME NEW t \in Threads, AssignCommit(t) PROVE Directory!Next
  BY <1>8, AssignMaps DEF Directory!Next
<1>9. CASE \/ \E m \in Members, flag \in BOOLEAN : SetSuperuser(m, flag)
           \/ UNCHANGED rvars
  <2>1. UNCHANGED <<directory, held, disturbed>>
    BY <1>9 DEF SetSuperuser, rvars, holders
  <2> QED
    BY <1>1, <2>1, OthersStay
<1>10. CASE Restart
  BY <1>10, RestartMaps DEF Directory!Next
<1> QED
  BY <1>1, <1>2, <1>3, <1>4, <1>5, <1>6, <1>7, <1>8, <1>9, <1>10 DEF Next

LEMMA DirectoryInit == Init => Directory!Init
<1> SUFFICES ASSUME Init PROVE Directory!Init
  OBVIOUS
<1>1. \A r \in RoleIds : Allowed(r) = Directory!Defaults(BuiltIn, r)
  BY RowsSay DEF Init, Allowed, Defaults, Directory!Defaults
<1>2. \A m \in Members : HeldBy(m) = IF m = Root THEN {BuiltIn[RootName]} ELSE {}
  <2>1. {h.role : h \in Holdings({BuiltIn[RootName]}, AnyBatch)} = {BuiltIn[RootName]}
    BY RowsSay
  <2>2. \A m \in Members :
            held[m] = IF m = Root THEN Holdings({BuiltIn[RootName]}, AnyBatch) ELSE {}
    BY DEF Init
  <2> QED
    BY <2>1, <2>2 DEF HeldBy
<1>3. name = [r \in RoleIds |->
                IF Directory!IsBuiltIn(r) THEN CHOOSE n \in SystemNames : BuiltIn[n] = r
                ELSE "unused"]
  BY DEF Init, Directory!IsBuiltIn
<1> QED
  BY <1>1, <1>2, <1>3 DEF Init, Directory!Init

(* For any roles, members and requests in flight: all that shows of their  *)
(* reads, commits, failures and restarts is a directory whose operations   *)
(* happen at once, exactly as asked wherever no two of them overlapped.    *)
THEOREM ImplementsDirectory == Spec => DirectorySpec
<1>1. Init => BuiltInsKept /\ GrantBooks /\ HoldBooks /\ GoneIsBare
  <2>1. Init => BuiltInsKept
    BY InitNames DEF Init, BuiltInsKept, At, Idle
  <2>2. Init => GoneIsBare
    <3> SUFFICES ASSUME Init PROVE GoneIsBare
      OBVIOUS
    <3>1. \A r \in RoleIds : name[r] # "gone"
      BY InitNames, NamesAssumption, BuiltInAssumption DEF Absent
    <3>2. \A t \in Threads : ~At(t, "deleting")
      BY DEF Init, At, Idle
    <3> QED
      BY <3>1, <3>2 DEF GoneIsBare
  <2> QED
    BY <2>1, <2>2, InitGrantBooks, InitHoldBooks
<1>2. TypeOK /\ BuiltInsKept /\ GrantBooks /\ HoldBooks /\ GoneIsBare /\ [Next]_rvars
        => (BuiltInsKept /\ GrantBooks /\ HoldBooks /\ GoneIsBare)'
  BY BuiltInsStep, GrantBooksStep, HoldBooksStep, GoneStep
<1>3. Init => Directory!Init
  BY DirectoryInit
<1>4. TypeOK /\ BuiltInsKept /\ GrantBooks /\ HoldBooks /\ GoneIsBare /\ [Next]_rvars
        => [Directory!Next]_(Directory!dvars)
  BY DirectoryStep
<1> QED
  BY <1>1, <1>2, <1>3, <1>4, TypeCorrect, PTL DEF Spec, DirectorySpec, Directory!Spec
=============================================================================
