-------------------------- MODULE DeploymentProofs --------------------------
(***************************************************************************)
(* What holds of every deployment, start, step by hand and repair,         *)
(* whatever databases this history begins with: the types, that an upgrade *)
(* is all or nothing, that no payment is lost, that a server which says it *)
(* is initialized has its tables, and that it gets there; that the version *)
(* table has one row, that no deployment costs a database its upgrade to   *)
(* the head, and that a deployment only moves on.                          *)
(***************************************************************************)
EXTENDS MigrationsProofs

(* A statement that creates a table makes this one and no other.           *)
LEMMA TableMade ==
    ASSUME NEW t, NEW cols, NEW refs, NEW idx, NEW o, o = CreateTable(t, cols, refs, idx)
    PROVE  /\ Table(t) \in o.made
           /\ \A f \in o.made : IsTable(f) => f = Table(t)
<1>1. o.made = {Table(t)} \cup Columns(t, cols \cup idx \cup {r[2] : r \in refs})
                 \cup Refs(t, refs) \cup Indexes(t, idx)
  BY DEF CreateTable, Nothing
<1>2. \A f \in Columns(t, cols \cup idx \cup {r[2] : r \in refs}) \cup Refs(t, refs)
                 \cup Indexes(t, idx) : ~ IsTable(f)
  BY DEF Columns, Refs, Indexes, Column, Fk, Index, IsTable
<1> QED
  BY <1>1, <1>2

IsCreation(o) == \E t, cols, refs, idx : o = CreateTable(t, cols, refs, idx)

(* The tables of the models are made by such statements.                   *)
LEMMA ModelsAreCreated == \A o \in ModelTables : IsCreation(o)
<1>1. IsCreation(UserTable) /\ IsCreation(PaymentTable) /\ IsCreation(SettingsTable)
  BY DEF IsCreation, UserTable, PaymentTable, SettingsTable
<1>2. IsCreation(DueTable) /\ IsCreation(NotificationTable)
  BY DEF IsCreation, DueTable, NotificationTable
<1>3. \A o \in RoleTables : IsCreation(o)
  BY DEF IsCreation, RoleTables
<1>4. \A o \in AnnouncementTables \cup EventTables : IsCreation(o)
  BY DEF IsCreation, AnnouncementTables, EventTables
<1> QED
  BY <1>1, <1>2, <1>3, <1>4 DEF ModelTables

(* create_all leaves no table of the models missing.                       *)
LEMMA CreatedServes == \A S : Served \subseteq Created(S)
<1> SUFFICES ASSUME NEW S, NEW f \in ModelFacts, IsTable(f)
             PROVE  f \in Created(S)
  BY DEF Served
<1>1. PICK o \in ModelTables : f \in o.made
  BY DEF ModelFacts, IsTable, KeyIsUuid
<1>2. \A g \in o.made : IsTable(g) => g = f
  BY <1>1, ModelsAreCreated, TableMade DEF IsCreation
<1>3. CASE f \in S
  BY <1>3 DEF Created
<1>4. CASE f \notin S
  <2>1. o \in Missing(S)
    BY <1>1, <1>2, <1>4 DEF Missing
  <2> QED
    BY <1>1, <2>1 DEF Created
<1> QED
  BY <1>3, <1>4

(* Past create_all the tables are there, and only a server that has        *)
(* finished its start-up says that it is initialized.                      *)
Started ==
    /\ initialized => phase = "serving"
    /\ phase \in {"settings", "seeding"} \/ initialized => Served \subseteq schema

(* A start-up that was done with create_all, and every step on the way to  *)
(* it, keeps that; the others leave `initialized` unset.                   *)
LEMMA StartedStep == Started /\ [Next]_vars => Started'
<1> SUFFICES ASSUME Started, [Next]_vars PROVE Started'
  OBVIOUS
<1>1. ASSUME UNCHANGED <<schema, phase, initialized>>
      PROVE  Started'
  BY <1>1 DEF Started
<1>2. ASSUME initialized' = FALSE, phase' \notin {"settings", "seeding"}
      PROVE  Started'
  BY <1>2 DEF Started
<1>3. CASE Deploy \/ DbNeverAnswers \/ DbAnswers
  BY <1>2, <1>3 DEF Started, Deploy, DbNeverAnswers, DbAnswers
<1>4. CASE Upgrade \/ UpgradeLost
  BY <1>2, <1>4 DEF Started, Upgrade, NotLocated, UpgradeCommit, UpgradeStep, UpgradeLost, Upgraded
<1>5. CASE AlterPayment
  BY <1>2, <1>5 DEF Started, AlterPayment, Then
<1>6. CASE CreateAll
  BY <1>6, CreatedServes DEF Started, CreateAll, Then
<1>7. CASE EnsureSettings
  BY <1>7 DEF Started, EnsureSettings, Then
<1>8. CASE Seed
  BY <1>8 DEF Started, Seed, Then
<1>9. CASE StartUpFails
  BY <1>9 DEF Started, StartUpFails, Then
<1>10. CASE PaymentTaken
  BY <1>10 DEF Started, PaymentTaken
<1>11. CASE Stop
  BY <1>2, <1>11 DEF Stop
<1>12. CASE UpgradeOne \/ DowngradeOne \/ Stamp \/ FixState
  BY <1>2, <1>12 DEF Started, UpgradeOne, DowngradeOne, Stamp, FixState, ByHand
<1>13. CASE UNCHANGED vars
  BY <1>1, <1>13 DEF vars
<1> QED
  BY <1>3, <1>4, <1>5, <1>6, <1>7, <1>8, <1>9, <1>10, <1>11, <1>12, <1>13 DEF Next, StartUp

(* Whatever database the server is started on, whatever happened to its    *)
(* upgrade and wherever start-up failed: a server that says "Main database *)
(* initialization complete." has every table of its models.                *)
THEOREM TablesAreThere == Spec => []InitializedHasTables
<1>1. Init => Started
  BY DEF Init, Started
<1>2. Started => InitializedHasTables
  BY DEF Started, InitializedHasTables
<1> QED
  BY <1>1, <1>2, StartedStep, PTL DEF Spec

-----------------------------------------------------------------------------
(* Every step keeps the types: a version is made of revisions of this      *)
(* history.                                                                *)
LEMMA TypesAreRight == TypeOK /\ [Next]_vars => TypeOK'
<1> SUFFICES ASSUME TypeOK, [Next]_vars PROVE TypeOK'
  OBVIOUS
<1> USE DEF TypeOK
<1>1. CASE Deploy
  BY <1>1 DEF Deploy, db, past
<1>2. CASE DbNeverAnswers
  BY <1>2 DEF DbNeverAnswers, db, past
<1>3. CASE DbAnswers
  BY <1>3 DEF DbAnswers, past
<1>4. CASE NotLocated \/ UpgradeLost
  BY <1>4 DEF NotLocated, UpgradeLost, Upgraded, past
<1>5. CASE UpgradeCommit
  BY <1>5 DEF UpgradeCommit, Upgraded, past, Located
<1>6. CASE UpgradeStep
  <2>1. PICK r \in Due :
          \/ /\ \E S \in Run(UpgradeOf(r, tx[1].schema), tx[1].schema) :
                  tx' = << [schema |-> S, recorded |-> Recording(tx[1].recorded, r)] >>
             /\ UNCHANGED <<phase, job>>
          \/ Upgraded
    BY <1>6 DEF UpgradeStep
  <2>2. phase = "upgrading" /\ UNCHANGED <<schema, recorded, past, initialized, troubled>>
    BY <1>6 DEF UpgradeStep
  <2>3. CASE Upgraded
    BY <2>2, <2>3 DEF Upgraded, past
  <2>4. CASE /\ \E S \in Run(UpgradeOf(r, tx[1].schema), tx[1].schema) :
                  tx' = << [schema |-> S, recorded |-> Recording(tx[1].recorded, r)] >>
             /\ UNCHANGED <<phase, job>>
    <3>1. tx' # <<>>
      BY <2>4
    <3> QED
      BY <2>2, <2>4, <3>1 DEF past
  <2> QED
    BY <2>1, <2>3, <2>4
<1>7. CASE StartUp
  <2>1. initialized' \in BOOLEAN
    <3>1. Seedable(schema) \in BOOLEAN
      BY DEF Seedable
    <3> QED
      BY <1>7, <3>1 DEF StartUp, AlterPayment, CreateAll, EnsureSettings, Seed
  <2>2. startedUp' \in BOOLEAN
    <3>1. (startedUp \/ schema' # schema) \in BOOLEAN
      OBVIOUS
    <3> QED
      BY <1>7, <3>1 DEF StartUp, AlterPayment, CreateAll, EnsureSettings, Seed, Changed
  <2>3. UNCHANGED <<origin, recorded, tx, job, troubled, byHand>>
    BY <1>7 DEF StartUp, AlterPayment, CreateAll, EnsureSettings, Seed, Then
  <2>4. phase \in {"altering", "creating", "settings", "seeding"}
          /\ phase' \in {"creating", "settings", "seeding", "serving"}
    BY <1>7 DEF StartUp, AlterPayment, CreateAll, EnsureSettings, Seed, Then
  <2> QED
    BY <2>1, <2>2, <2>3, <2>4
<1>8. CASE StartUpFails
  BY <1>8 DEF StartUpFails, Then
<1>9. CASE PaymentTaken
  BY <1>9 DEF PaymentTaken, past
<1>10. CASE Stop
  BY <1>10 DEF Stop, past
<1>11. CASE UpgradeOne
  <2>1. recorded' \subseteq Revisions
    BY <1>11 DEF UpgradeOne, Children
  <2> QED
    BY <1>11, <2>1 DEF UpgradeOne, ByHand
<1>12. CASE DowngradeOne
  <2>1. recorded' \subseteq Revisions
    <3>1. PICK r \in {"ab55"} \cup (Revisions \ Applied(Known[origin].floor)) :
               recorded' = Parents[r]
      BY <1>12 DEF DowngradeOne
    <3>2. "ab55" \in Revisions
      BY DEF Revisions, History
    <3> QED
      BY <3>1, <3>2, ParentsAreRevisions
  <2> QED
    BY <1>12, <2>1 DEF DowngradeOne, ByHand
<1>13. CASE Stamp
  <2>1. recorded' \subseteq Revisions
    BY <1>13 DEF Stamp, Stamped, Revisions, History
  <2> QED
    BY <1>13, <2>1 DEF Stamp, ByHand
<1>14. CASE FixState
  BY <1>14 DEF FixState
<1>15. CASE UNCHANGED vars
  BY <1>15 DEF vars
<1> QED
  BY <1>1, <1>2, <1>3, <1>4, <1>5, <1>6, <1>7, <1>8, <1>9, <1>10, <1>11, <1>12, <1>13, <1>14,
     <1>15 DEF Next, Upgrade

(* The versions databases begin with.                                      *)
LEMMA FirstVersions ==
    ASSUME NEW o \in Origins
    PROVE  /\ o \in {"empty", "hub", "alumni", "orphan"}
           /\ Known[o].recorded \subseteq Revisions \cup {Orphan}
           /\ Known[o].recorded \cap Revisions = {} \/ \E r : Known[o].recorded = {r}
<1>1. o \in {"empty", "hub", "alumni", "orphan"}
  BY OriginsAssumption DEF Known
<1>2. {"merge_tag_and_copilot", "2ff9"} \subseteq Revisions
  BY DEF Revisions, History
<1>3. /\ Known["empty"].recorded = {} /\ Known["hub"].recorded = {"merge_tag_and_copilot"}
      /\ Known["alumni"].recorded = {"2ff9"} /\ Known["orphan"].recorded = {Orphan}
  BY DEF Known
<1> QED
  BY <1>1, <1>2, <1>3

(* The databases begin with the types right.                               *)
LEMMA FirstTyped == Init => TypeOK
<1> SUFFICES ASSUME Init PROVE TypeOK
  OBVIOUS
<1>1. recorded \subseteq Revisions \cup {Orphan}
  BY FirstVersions DEF Init
<1> QED
  BY <1>1 DEF Init, TypeOK

(* Whatever is deployed, taken back or repaired by hand: the version table *)
(* names revisions of this history, or one that has lost its file, and a   *)
(* transaction is open exactly while an upgrade runs.                      *)
THEOREM TypeIsRight == Spec => []TypeOK
BY FirstTyped, TypesAreRight, PTL DEF Spec

-----------------------------------------------------------------------------
(* The version table, and the one of a running upgrade, hold one row per   *)
(* branch and no row that another one implies.                             *)
OneRowPerBranch ==
  /\ Antichain(recorded)
  /\ phase = "upgrading" => Antichain(tx[1].recorded)

(* Versions of one row, or of rows without a file, have no such rows.      *)
LEMMA FewRowsAreAntichain ==
    /\ \A r : Antichain({r})
    /\ \A rs : rs \cap Revisions = {} => Antichain(rs)
    /\ \A rs : Antichain(rs) => Antichain(rs \cap Revisions)
BY DEF Antichain

(* Every step keeps one row per branch.                                    *)
LEMMA BranchesStep == OneRowPerBranch /\ [Next]_vars => OneRowPerBranch'
<1> SUFFICES ASSUME OneRowPerBranch, [Next]_vars PROVE OneRowPerBranch'
  OBVIOUS
<1>1. ASSUME UNCHANGED recorded, phase' # "upgrading" \/ UNCHANGED <<phase, tx>>
      PROVE  OneRowPerBranch'
  BY <1>1 DEF OneRowPerBranch
<1>2. CASE Deploy \/ DbNeverAnswers \/ Stop
  BY <1>1, <1>2 DEF Deploy, DbNeverAnswers, Stop, db
<1>3. CASE DbAnswers
  BY <1>3 DEF DbAnswers, OneRowPerBranch
<1>4. CASE NotLocated \/ UpgradeLost
  BY <1>1, <1>4 DEF NotLocated, UpgradeLost, Upgraded
<1>5. CASE UpgradeCommit
  BY <1>5 DEF UpgradeCommit, Upgraded, OneRowPerBranch
<1>6. CASE UpgradeStep
  <2>1. PICK r \in Due :
          \/ /\ \E S \in Run(UpgradeOf(r, tx[1].schema), tx[1].schema) :
                  tx' = << [schema |-> S, recorded |-> Recording(tx[1].recorded, r)] >>
             /\ UNCHANGED <<phase, job>>
          \/ Upgraded
    BY <1>6 DEF UpgradeStep
  <2>2. phase = "upgrading" /\ UNCHANGED recorded
    BY <1>6 DEF UpgradeStep
  <2>3. CASE Upgraded
    BY <1>1, <2>2, <2>3 DEF Upgraded
  <2>4. CASE \E S \in Run(UpgradeOf(r, tx[1].schema), tx[1].schema) :
                tx' = << [schema |-> S, recorded |-> Recording(tx[1].recorded, r)] >>
    <3>1. tx'[1].recorded = Recording(tx[1].recorded, r)
      BY <2>4
    <3>2. /\ r \in Revisions \ Applied(tx[1].recorded)
          /\ Parents[r] \subseteq Applied(tx[1].recorded)
      BY <2>1 DEF Due
    <3>3. Antichain(Recording(tx[1].recorded, r))
      BY <2>2, <3>2, RecordingKeepsAntichain DEF OneRowPerBranch
    <3> QED
      BY <2>2, <3>1, <3>3 DEF OneRowPerBranch
  <2> QED
    BY <2>1, <2>3, <2>4
<1>7. CASE StartUp \/ StartUpFails
  BY <1>1, <1>7 DEF StartUp, AlterPayment, CreateAll, EnsureSettings, Seed, Then, StartUpFails
<1>8. CASE PaymentTaken
  BY <1>1, <1>8 DEF PaymentTaken
<1>9. CASE UpgradeOne
  <2>1. recorded' \subseteq Revisions /\ Cardinality(recorded') = 1
    BY <1>9 DEF UpgradeOne, Children
  <2>2. PICK r \in Revisions : recorded' = {r}
    BY <2>1, OneRevision
  <2>3. phase' # "upgrading"
    BY <1>9 DEF UpgradeOne, ByHand
  <2> QED
    BY <2>2, <2>3, FewRowsAreAntichain DEF OneRowPerBranch
<1>10. CASE DowngradeOne
  <2>1. PICK r \in {"ab55"} \cup (Revisions \ Applied(Known[origin].floor)) :
             recorded' = Parents[r] /\ Cardinality(Parents[r]) < 2
    BY <1>10 DEF DowngradeOne
  <2>2. "ab55" \in Revisions
    BY DEF Revisions, History
  <2>3. recorded' \subseteq Revisions /\ Cardinality(recorded') < 2
    BY <2>1, <2>2, ParentsAreRevisions
  <2>4. recorded' = {} \/ \E q \in Revisions : recorded' = {q}
    BY <2>3, FewRevisions
  <2>5. phase' # "upgrading"
    BY <1>10 DEF DowngradeOne, ByHand
  <2> QED
    BY <2>4, <2>5, FewRowsAreAntichain DEF OneRowPerBranch
<1>11. CASE Stamp
  BY <1>11, FewRowsAreAntichain DEF Stamp, ByHand, OneRowPerBranch
<1>12. CASE FixState
  BY <1>12, FewRowsAreAntichain DEF FixState, OneRowPerBranch
<1>13. CASE UNCHANGED vars
  BY <1>1, <1>13 DEF vars
<1> QED
  BY <1>2, <1>3, <1>4, <1>5, <1>6, <1>7, <1>8, <1>9, <1>10, <1>11, <1>12, <1>13 DEF Next, Upgrade

(* The databases begin that way.                                           *)
LEMMA BranchesAtFirst == Init => OneRowPerBranch
<1> SUFFICES ASSUME Init PROVE OneRowPerBranch
  OBVIOUS
<1>1. Antichain(recorded)
  BY FirstVersions, FewRowsAreAntichain DEF Init
<1> QED
  BY <1>1 DEF Init, OneRowPerBranch

(* What an upgrade commits is the head.                                    *)
LEMMA CommitIsLatest == ASSUME OneRowPerBranch, UpgradeCommit PROVE recorded' = {Latest}
<1>1. tx[1].recorded \subseteq Revisions /\ Antichain(tx[1].recorded)
  BY DEF UpgradeCommit, Located, OneRowPerBranch
<1>2. \A r \in Revisions \ Applied(tx[1].recorded) :
         ~ (Parents[r] \subseteq Applied(tx[1].recorded))
  BY DEF UpgradeCommit, Due
<1>3. tx[1].recorded = {Latest}
  BY <1>1, <1>2, NoneDueAtHead
<1> QED
  BY <1>3 DEF UpgradeCommit

(* An upgrade to the head reaches it or changes nothing.                   *)
THEOREM AtomicUpgrades == Spec => UpgradeIsAtomic
<1> DEFINE Atomic == phase = "upgrading" => \/ recorded' = {Latest}
                                            \/ schema' = schema /\ recorded' = recorded
<1>1. OneRowPerBranch /\ [Next]_vars => [Atomic]_vars
  <2> SUFFICES ASSUME OneRowPerBranch, Next, phase = "upgrading"
               PROVE  recorded' = {Latest} \/ (schema' = schema /\ recorded' = recorded)
    OBVIOUS
  <2>1. CASE UpgradeCommit
    BY <2>1, CommitIsLatest
  <2>2. CASE NotLocated \/ UpgradeStep \/ UpgradeLost \/ Stop
    BY <2>2 DEF NotLocated, UpgradeStep, UpgradeLost, Stop
  <2>3. CASE \/ Deploy \/ DbNeverAnswers \/ DbAnswers \/ StartUp \/ StartUpFails \/ PaymentTaken
             \/ UpgradeOne \/ DowngradeOne \/ Stamp \/ FixState
    BY <2>3 DEF Deploy, DbNeverAnswers, DbAnswers, StartUp, AlterPayment, CreateAll, EnsureSettings,
                Seed, StartUpFails, PaymentTaken, UpgradeOne, DowngradeOne, Stamp, FixState, ByHand
  <2> QED
    BY <2>1, <2>2, <2>3 DEF Next, Upgrade
<1>2. Spec => []OneRowPerBranch
  BY BranchesAtFirst, BranchesStep, PTL DEF Spec
<1> QED
  BY <1>1, <1>2, PTL DEF Spec, UpgradeIsAtomic

-----------------------------------------------------------------------------
(* What a running upgrade would commit has the payments.                   *)
PaymentsCarried ==
  phase = "upgrading" /\ Rows("payment") \in schema => Rows("payment") \in tx[1].schema

(* No revision of "user" makes payments.                                   *)
LEMMA RowsAreKept ==
    /\ Rows("payment") \in Facts
    /\ \A r : Rows("payment") \notin MadeBy(r)
    /\ NoRoleTables(<<>>)
<1>1. Rows("payment") \notin UserFacts
  BY DEF UserFacts, Columns, Column, KeyIsUuid, Rows
<1>2. NoRoleTables(<<>>)
  BY DEF NoRoleTables
<1> QED
  BY <1>1, <1>2, MadeIsOfUser DEF Facts

(* A step of an upgrade is a revision that comes next, or the end.         *)
LEMMA UpgradeStepIs ==
    ASSUME UpgradeStep
    PROVE  /\ phase = "upgrading" /\ UNCHANGED <<schema, recorded, past, initialized, troubled>>
           /\ \/ Upgraded
              \/ \E r \in Due : \E S \in Run(UpgradeOf(r, tx[1].schema), tx[1].schema) :
                   tx' = << [schema |-> S, recorded |-> Recording(tx[1].recorded, r)] >>
BY DEF UpgradeStep

(* No step loses the payments, nor makes an upgrade that would.            *)
LEMMA PaymentsStep ==
    ASSUME PaymentsCarried, [Next]_vars
    PROVE  PaymentsCarried' /\ (Rows("payment") \in schema => Rows("payment") \in schema')
<1>1. ASSUME phase' # "upgrading", schema \subseteq schema'
      PROVE  PaymentsCarried' /\ (Rows("payment") \in schema => Rows("payment") \in schema')
  BY <1>1 DEF PaymentsCarried
<1>2. CASE Deploy \/ DbNeverAnswers \/ NotLocated \/ UpgradeLost \/ Stop \/ Stamp
  BY <1>1, <1>2 DEF Deploy, DbNeverAnswers, NotLocated, UpgradeLost, Upgraded, Stop, Stamp, ByHand,
                    db
<1>3. CASE DbAnswers
  BY <1>3 DEF DbAnswers, PaymentsCarried
<1>4. CASE UpgradeCommit
  BY <1>4 DEF UpgradeCommit, Upgraded, PaymentsCarried
<1>5. CASE UpgradeStep
  <2>1. phase = "upgrading" /\ UNCHANGED schema
    BY <1>5, UpgradeStepIs
  <2>2. CASE Upgraded
    BY <1>1, <2>1, <2>2 DEF Upgraded
  <2>3. CASE \E r \in Due : \E S \in Run(UpgradeOf(r, tx[1].schema), tx[1].schema) :
                tx' = << [schema |-> S, recorded |-> Recording(tx[1].recorded, r)] >>
    <3>1. PICK r, S : /\ S \in Run(UpgradeOf(r, tx[1].schema), tx[1].schema)
                      /\ tx'[1].schema = S
      BY <2>3
    <3>2. Facts \cap tx[1].schema \subseteq S
      BY <3>1, UpgradesKeep
    <3> QED
      BY <2>1, <3>1, <3>2, RowsAreKept DEF PaymentsCarried
  <2> QED
    BY <1>5, <2>2, <2>3, UpgradeStepIs
<1>6. CASE AlterPayment \/ EnsureSettings \/ Seed
  BY <1>1, <1>6 DEF AlterPayment, EnsureSettings, Seed, Then
<1>7. CASE CreateAll
  BY <1>1, <1>7 DEF CreateAll, Created, Then
<1>8. CASE StartUpFails \/ PaymentTaken
  BY <1>1, <1>8 DEF StartUpFails, PaymentTaken, Then
<1>9. CASE UpgradeOne
  <2>1. PICK r : schema' \in Replayed(schema, Lineage[r] \ Applied(recorded), <<>>)
    BY <1>9 DEF UpgradeOne
  <2>2. Facts \cap schema \subseteq schema'
    BY <2>1, RowsAreKept, ReplayMakes
  <2>3. phase' # "upgrading"
    BY <1>9 DEF UpgradeOne, ByHand
  <2> QED
    BY <2>2, <2>3, RowsAreKept DEF PaymentsCarried
<1>10. CASE DowngradeOne
  <2>1. PICK r : schema' \in Run(DowngradeOf(r, schema), schema)
    BY <1>10 DEF DowngradeOne
  <2>2. /\ r # "e241" => (Facts \ MadeBy(r)) \cap schema \subseteq schema'
        /\ r = "e241" => {Rows("payment")} \cap schema \subseteq schema'
    BY <2>1, DowngradesKeep
  <2>3. phase' # "upgrading"
    BY <1>10 DEF DowngradeOne, ByHand
  <2> QED
    BY <2>2, <2>3, RowsAreKept DEF PaymentsCarried
<1>11. CASE FixState
  BY <1>11 DEF FixState, PaymentsCarried
<1>12. CASE UNCHANGED vars
  BY <1>12 DEF vars, PaymentsCarried
<1> QED
  BY <1>2, <1>3, <1>4, <1>5, <1>6, <1>7, <1>8, <1>9, <1>10, <1>11, <1>12 DEF Next, Upgrade, StartUp

(* Whatever is deployed, cut off, taken back by hand or repaired, even     *)
(* down to the first revision or below a stamp: no step leaves a database  *)
(* without the payments it had.                                            *)
THEOREM PaymentsAreKept == Spec => PaymentsSurvive
<1> DEFINE Survive == Rows("payment") \in schema => Rows("payment") \in schema'
<1>1. Init => PaymentsCarried
  BY DEF Init, PaymentsCarried
<1>2. PaymentsCarried /\ [Next]_vars => PaymentsCarried' /\ Survive
  BY PaymentsStep
<1>3. PaymentsCarried /\ [Next]_vars => PaymentsCarried' /\ [Survive]_vars
  BY <1>2
<1> QED
  BY <1>1, <1>3, PTL DEF Spec, PaymentsSurvive

-----------------------------------------------------------------------------
(* A database whose version is rs, unless a script has rewritten it: "user"*)
(* has what the applied revisions make of it, or all of it where start-up  *)
(* has made it; the tables of the roles are whole.                         *)
Good(S, rs) ==
  /\ \A r \in Applied(rs) : MadeBy(r) \subseteq S
  /\ rs = {} /\ Table("user") \in S => UserFacts \subseteq S
  /\ RolesWhole(S)

Sound ==
  ~ byHand => /\ Good(schema, recorded)
              /\ (phase = "upgrading" => Good(tx[1].schema, tx[1].recorded))

(* At the head, or where only start-up has made tables, "user" is complete.*)
LEMMA UserComplete ==
    ASSUME NEW S, NEW rs \in {{}, {Latest}}, Good(S, rs)
    PROVE  UserFacts \subseteq S \/ Table("user") \notin S
<1>1. CASE rs = {}
  BY <1>1 DEF Good
<1>2. CASE rs = {Latest}
  <2>1. Applied(rs) = Revisions
    <3>1. rs \cap Revisions = {Latest}
      BY <1>2, Places
    <3> QED
      BY <3>1, LatestFollowsAll DEF Applied
  <2>2. {"e241", "d98d", "add_user_settings_fields", "dcca", "b066", "add_timezone_user",
         "a53f", "ab55", "2ff9"} \subseteq Revisions
    BY DEF Revisions, History
  <2>3. UserFacts \subseteq UNION {MadeBy(r) : r \in Revisions}
    BY <2>2, AllIsMade
  <2> QED
    BY <2>1, <2>3 DEF Good
<1> QED
  BY <1>1, <1>2

(* More facts that make no table of the roles.                             *)
LEMMA GoodGrows ==
    ASSUME NEW S, NEW rs, Good(S, rs), NEW X, \A t : Table(t) \notin X
    PROVE  Good(S \cup X, rs)
BY DEF Good, RolesWhole

(* create_all leaves a good database good.                                 *)
LEMMA GoodCreated ==
    ASSUME NEW S, NEW rs, Good(S, rs)
    PROVE  Good(Created(S), rs)
<1>1. S \subseteq Created(S)
  BY DEF Created
<1>2. Table("user") \notin S => UserFacts \subseteq Created(S)
  <2> SUFFICES ASSUME Table("user") \notin S PROVE UserFacts \subseteq Created(S)
    OBVIOUS
  <2>1. KeyIsUuid("user") \in Created(S)
    BY DEF Created
  <2>2. \A f \in UserTable.made : IsTable(f) => f = Table("user")
    BY TableMade DEF UserTable
  <2>3. UserTable \in Missing(S)
    BY <2>2 DEF Missing, ModelTables
  <2>4. Columns("user", UserColumnsOfModel) \subseteq UserTable.made
    BY DEF UserTable, CreateTable, Nothing, Columns
  <2> QED
    BY <2>1, <2>3, <2>4 DEF UserFacts, Created
<1>3. RolesWhole(Created(S))
  <2> SUFFICES ASSUME NEW t \in RoleNames, Table(t) \in Created(S)
               PROVE  Columns(t, RoleColumns[t]) \subseteq Created(S)
    BY DEF RolesWhole
  <2>1. CASE Table(t) \in S
    BY <1>1, <2>1 DEF Good, RolesWhole
  <2>2. CASE Table(t) \notin S
    <3>1. PICK o \in Missing(S) : Table(t) \in o.made
      BY <2>2 DEF Created, KeyIsUuid, Table
    <3>2. o \in ModelTables
      BY <3>1 DEF Missing
    <3>3. \A u : Table(u) \in o.made => u = t
      <4>1. \A u : IsTable(Table(u))
        BY DEF IsTable, Table
      <4>2. \A u : Table(u) \in o.made => Table(u) = Table(t)
        BY <3>1, <3>2, <4>1, ModelsAreCreated, TableMade DEF IsCreation
      <4> QED
        BY <4>2 DEF Table
    <3>4. /\ Table("user") \in UserTable.made /\ Table("payment") \in PaymentTable.made
          /\ Table("system_settings") \in SettingsTable.made /\ Table("due") \in DueTable.made
          /\ Table("notification") \in NotificationTable.made
          /\ \A p \in AnnouncementTables \cup EventTables :
               \E u \in {"announcement", "announcement_view", "event", "event_registration"} :
                  Table(u) \in p.made
      BY TableMade DEF UserTable, PaymentTable, SettingsTable, DueTable, NotificationTable,
                       AnnouncementTables, EventTables
    <3>5. o \in RoleTables
      BY <3>2, <3>3, <3>4 DEF ModelTables, RoleNames
    <3>6. ASSUME NEW u, NEW cols, NEW refs, NEW idx, o = CreateTable(u, cols, refs, idx),
                 RoleColumns[u] \subseteq cols \cup idx \cup {r[2] : r \in refs}
          PROVE  Columns(t, RoleColumns[t]) \subseteq o.made
      <4>1. u = t
        BY <3>3, <3>6, TableMade
      <4>2. Columns(u, cols \cup idx \cup {r[2] : r \in refs}) \subseteq o.made
        BY <3>6 DEF CreateTable, Nothing
      <4> QED
        BY <3>6, <4>1, <4>2 DEF Columns
    <3>7. Columns(t, RoleColumns[t]) \subseteq o.made
      <4> DEFINE member == {By("user_id", "user"), By("role_id", "role")}
                 grant  == {By("role_id", "role"), By("permission_id", "permission")}
      <4>1. /\ RoleColumns["role"]
                 \subseteq {"id", "description"} \cup {"name"} \cup {r[2] : r \in {}}
            /\ RoleColumns["permission"]
                 \subseteq {"id", "description"} \cup {"name"} \cup {r[2] : r \in {}}
            /\ RoleColumns["userrole"] \subseteq {"id"} \cup {} \cup {r[2] : r \in member}
            /\ RoleColumns["rolepermission"]
                 \subseteq {"id", "allowed"} \cup {} \cup {r[2] : r \in grant}
        BY DEF RoleColumns, By
      <4>2. \/ o = CreateTable("role", {"id", "description"}, {}, {"name"})
            \/ o = CreateTable("permission", {"id", "description"}, {}, {"name"})
            \/ o = CreateTable("userrole", {"id"}, member, {})
            \/ o = CreateTable("rolepermission", {"id", "allowed"}, grant, {})
        BY <3>5 DEF RoleTables
      <4> HIDE DEF member, grant
      <4> QED
        BY <3>6, <4>1, <4>2
    <3> QED
      BY <3>1, <3>7 DEF Created
  <2> QED
    BY <2>1, <2>2
<1> QED
  BY <1>1, <1>2, <1>3 DEF Good

-----------------------------------------------------------------------------
(* A revision applied to a good database leaves a good one,                *)
LEMMA GoodUpgraded ==
    ASSUME NEW S, NEW rs, Good(S, rs), NEW r \in Revisions, Parents[r] \subseteq Applied(rs),
           NEW A \in Run(UpgradeOf(r, S), S)
    PROVE  Good(A, Recording(rs, r))
<1>1. MadeBy(r) \subseteq A /\ Facts \cap S \subseteq A /\ (RolesWhole(S) => RolesWhole(A))
  BY UpgradesMake, UpgradesKeep
<1>2. Applied(Recording(rs, r)) = Applied(rs) \cup {r}
  BY AppliedGrows
<1>3. ASSUME NEW q \in Applied(rs) PROVE MadeBy(q) \subseteq A
  BY <1>1, <1>3, MadeIsOfUser DEF Good, Facts
<1>4. Recording(rs, r) # {}
  BY DEF Recording
<1> QED
  BY <1>1, <1>2, <1>3, <1>4 DEF Good

(* as do several, one after the other,                                     *)
LEMMA GoodReplayed ==
    ASSUME NEW S, NEW rs, Good(S, rs), NEW r \in Revisions,
           NEW A \in Replayed(S, Lineage[r] \ Applied(rs), <<>>)
    PROVE  Good(A, {r})
<1>1. /\ Facts \cap S \subseteq A
      /\ RolesWhole(S) => RolesWhole(A)
      /\ \A q \in (Lineage[r] \ Applied(rs)) \cap Revisions : MadeBy(q) \subseteq A
  BY RowsAreKept, ReplayMakes
<1>2. ASSUME NEW q \in Applied({r}) PROVE MadeBy(q) \subseteq A
  <2>1. q \in Lineage[r] /\ q \in Revisions
    BY AppliedIs DEF Applied
  <2>2. CASE q \in Applied(rs)
    BY <1>1, <2>2, MadeIsOfUser DEF Good, Facts
  <2>3. CASE q \notin Applied(rs)
    BY <1>1, <2>1, <2>3
  <2> QED
    BY <2>2, <2>3
<1> QED
  BY <1>1, <1>2 DEF Good

(* Only the first revision follows none.                                   *)
LEMMA OnlyFirstHasNoParent == \A r \in Revisions : Parents[r] = {} => r = "e241"
<1> SUFFICES ASSUME NEW i \in 1..54, Parents[History[i]] = {} PROVE History[i] = "e241"
  BY Places
<1>1. CASE i = 1
  BY <1>1, BranchPlaces
<1>2. CASE i \in 2..54
  <2>1. Before(History[i]) # {}
    BY <1>2, BeforeIs
  <2> QED
    BY <1>2, <2>1, ParentsAre, Places DEF Branching
<1> QED
  BY <1>1, <1>2

(* and a revision taken back.                                              *)
LEMMA GoodDowngraded ==
    ASSUME NEW S, NEW r \in Revisions, Good(S, {r}), NEW A \in Run(DowngradeOf(r, S), S)
    PROVE  Good(A, Parents[r])
<1>1. /\ r # "e241" => (Facts \ MadeBy(r)) \cap S \subseteq A
      /\ r = "e241" => Table("user") \notin A
      /\ RolesWhole(A)
  BY DowngradesKeep DEF Good
<1>2. CASE r = "e241"
  <2>1. Parents[r] = {}
    BY <1>2, ParentsAre
  <2> QED
    BY <1>1, <1>2, <2>1 DEF Good, Applied
<1>3. CASE r # "e241"
  <2>1. ASSUME NEW q \in Applied(Parents[r]) PROVE MadeBy(q) \subseteq A
    <3>1. PICK p \in Parents[r] \cap Revisions : q \in Lineage[p]
      BY AppliedIs
    <3>2. q # r /\ q \in Lineage[r]
      BY <3>1, LineageOrders, LineageOfParents
    <3>3. q \in Applied({r})
      BY <3>2 DEF Applied
    <3>4. MadeBy(q) \subseteq S /\ MadeBy(q) \cap MadeBy(r) = {} /\ MadeBy(q) \subseteq Facts
      BY <3>2, <3>3, MadeOnce, MadeIsOfUser DEF Good, Facts
    <3> QED
      BY <1>1, <1>3, <3>4
  <2>2. Parents[r] # {}
    BY <1>3, OnlyFirstHasNoParent
  <2> QED
    BY <1>1, <2>1, <2>2 DEF Good
<1> QED
  BY <1>2, <1>3

(* Every step that leaves alembic_version to alembic leaves a good         *)
(* database.                                                               *)
LEMMA SoundStep == Sound /\ [Next]_vars => Sound'
<1> SUFFICES ASSUME Sound, [Next]_vars, ~ byHand'
             PROVE  /\ Good(schema', recorded')
                    /\ phase' = "upgrading" => Good(tx'[1].schema, tx'[1].recorded)
  BY DEF Sound
<1> DEFINE Goal == /\ Good(schema', recorded')
                   /\ phase' = "upgrading" => Good(tx'[1].schema, tx'[1].recorded)
<1>1. ASSUME UNCHANGED <<schema, recorded, byHand>>, phase' # "upgrading" \/ UNCHANGED <<phase, tx>>
      PROVE  Goal
  BY <1>1 DEF Sound
<1>2. CASE Deploy \/ DbNeverAnswers \/ Stop
  BY <1>1, <1>2 DEF Deploy, DbNeverAnswers, Stop, db, past
<1>3. CASE DbAnswers
  BY <1>3 DEF DbAnswers, Sound, past
<1>4. CASE NotLocated \/ UpgradeLost
  BY <1>1, <1>4 DEF NotLocated, UpgradeLost, Upgraded, past
<1>5. CASE UpgradeCommit
  BY <1>5 DEF UpgradeCommit, Upgraded, Sound, past
<1>6. CASE UpgradeStep
  <2>1. phase = "upgrading" /\ UNCHANGED <<schema, recorded, byHand>>
    BY <1>6, UpgradeStepIs DEF past
  <2>2. CASE Upgraded
    BY <1>1, <2>1, <2>2 DEF Upgraded
  <2>3. CASE \E r \in Due : \E S \in Run(UpgradeOf(r, tx[1].schema), tx[1].schema) :
                tx' = << [schema |-> S, recorded |-> Recording(tx[1].recorded, r)] >>
    <3>0. PICK r \in Due : \E S \in Run(UpgradeOf(r, tx[1].schema), tx[1].schema) :
               tx' = << [schema |-> S, recorded |-> Recording(tx[1].recorded, r)] >>
      BY <2>3
    <3>1. PICK S \in Run(UpgradeOf(r, tx[1].schema), tx[1].schema) :
               tx' = << [schema |-> S, recorded |-> Recording(tx[1].recorded, r)] >>
      BY <3>0
    <3>2. r \in Revisions /\ Parents[r] \subseteq Applied(tx[1].recorded)
      BY DEF Due
    <3>3. Good(tx[1].schema, tx[1].recorded) /\ Good(schema, recorded)
      BY <2>1 DEF Sound
    <3>4. Good(S, Recording(tx[1].recorded, r))
      BY <3>2, <3>3, GoodUpgraded
    <3>5. tx'[1].schema = S /\ tx'[1].recorded = Recording(tx[1].recorded, r)
      BY <3>1
    <3> QED
      BY <2>1, <3>3, <3>4, <3>5
  <2> QED
    BY <1>6, <2>2, <2>3, UpgradeStepIs
<1>7. ASSUME NEW X, schema' = schema \cup X, \A t : Table(t) \notin X,
             UNCHANGED <<recorded, byHand>>, phase' # "upgrading"
      PROVE  Goal
  BY <1>7, GoodGrows DEF Sound
<1>8. CASE AlterPayment
  <2>1. \A t : Table(t) \notin {f \in RepairedColumns : Table("payment") \in schema}
    BY DEF RepairedColumns, Columns, Column, Table
  <2> QED
    BY <1>7, <1>8, <2>1 DEF AlterPayment, Then
<1>9. CASE CreateAll
  <2>1. Good(Created(schema), recorded) /\ Good(schema, recorded)
    BY <1>9, GoodCreated DEF Sound, CreateAll, Then
  <2> QED
    BY <1>9, <2>1 DEF CreateAll, Then
<1>10. CASE EnsureSettings
  <2>1. \A t : Table(t) \notin BankColumns
    BY DEF BankColumns, Columns, Column, Table
  <2> QED
    BY <1>7, <1>10, <2>1 DEF EnsureSettings, Then
<1>11. CASE Seed \/ StartUpFails
  BY <1>1, <1>11 DEF Seed, StartUpFails, Then
<1>12. CASE PaymentTaken
  <2>1. \A t : Table(t) \notin {Rows("payment")}
    BY DEF Rows, Table
  <2> QED
    BY <1>7, <1>12, <2>1 DEF PaymentTaken, past
<1>13. CASE UpgradeOne
  <2> DEFINE next == IF recorded = {} THEN {r \in Revisions : Parents[r] = {}}
                     ELSE UNION {Children(c) : c \in recorded}
  <2>1. /\ Cardinality(next) = 1 /\ recorded' = next /\ byHand' = byHand
        /\ \E r \in next : schema' \in Replayed(schema, Lineage[r] \ Applied(recorded), <<>>)
        /\ phase' # "upgrading"
    BY <1>13 DEF UpgradeOne, ByHand
  <2>2. next \subseteq Revisions
    BY DEF Children
  <2> HIDE DEF next
  <2>3. PICK r \in next : schema' \in Replayed(schema, Lineage[r] \ Applied(recorded), <<>>)
    BY <2>1
  <2>4. recorded' = {r} /\ r \in Revisions
    <3>1. PICK q \in Revisions : next = {q}
      BY <2>1, <2>2, OneRevision
    <3> QED
      BY <2>1, <3>1
  <2>5. Good(schema', {r})
    BY <2>1, <2>3, <2>4, GoodReplayed DEF Sound
  <2> QED
    BY <2>1, <2>4, <2>5
<1>14. CASE DowngradeOne
  <2>1. PICK r \in {"ab55"} \cup (Revisions \ Applied(Known[origin].floor)) :
             /\ recorded = {r}
             /\ schema' \in Run(DowngradeOf(r, schema), schema)
             /\ recorded' = Parents[r]
    BY <1>14 DEF DowngradeOne
  <2>2. r \in Revisions
    BY DEF Revisions, History
  <2>3. Good(schema, {r})
    BY <1>14, <2>1 DEF DowngradeOne, Sound
  <2>4. Good(schema', Parents[r])
    BY <2>1, <2>2, <2>3, GoodDowngraded
  <2>5. phase' # "upgrading"
    BY <1>14 DEF DowngradeOne, ByHand
  <2> QED
    BY <2>1, <2>4, <2>5
<1>15. CASE Stamp
  BY <1>15 DEF Stamp
<1>16. CASE FixState
  BY <1>16 DEF FixState, Sound
<1>17. CASE UNCHANGED vars
  BY <1>1, <1>17 DEF vars
<1> QED
  BY <1>2, <1>3, <1>4, <1>5, <1>6, <1>8, <1>9, <1>10, <1>11, <1>12, <1>13, <1>14, <1>15, <1>16,
     <1>17 DEF Next, Upgrade, StartUp

-----------------------------------------------------------------------------
(* The tables others made are none of those of the roles.                  *)
LEMMA OthersHaveNoRoles ==
    ASSUME NEW o \in DOMAIN Known
    PROVE  NoRoleTables(Known[o].others)
<1>1. \A t, cols, refs, idx, u : Table(u) \in HubTable(t, cols, refs, idx) => u = t
  <2>1. \A u : IsTable(Table(u))
    BY DEF IsTable, Table
  <2>2. \A t, cols, refs, idx, u : Table(u) \in HubTable(t, cols, refs, idx) => Table(u) = Table(t)
    BY <2>1, TableMade DEF HubTable
  <2> QED
    BY <2>2 DEF Table
<1>2. \A t \in RoleNames : Table(t) \notin HubTables
  BY <1>1 DEF HubTables, RoleNames
<1>3. \A t \in RoleNames : Table(t) \notin EarlierRelease
  <2>1. \A cols, refs, idx, u : Table(u) \in CreateTable("system_settings", cols, refs, idx).made
                                  => u = "system_settings"
    BY <1>1 DEF HubTable
  <2>2. \A u : Table(u) # Column("event", "image")
    BY DEF Table, Column
  <2> QED
    BY <2>1, <2>2 DEF EarlierRelease, RoleNames
<1>4. /\ NoRoleTables(<<>>)
      /\ NoRoleTables([merge_tag_and_copilot |-> HubTables])
      /\ NoRoleTables([merge_tag_and_copilot |-> HubTables, ab55 |-> EarlierRelease])
  BY <1>2, <1>3 DEF NoRoleTables
<1>5. \/ Known[o].others = <<>>
      \/ Known[o].others = [merge_tag_and_copilot |-> HubTables]
      \/ Known[o].others = [merge_tag_and_copilot |-> HubTables, ab55 |-> EarlierRelease]
  BY DEF Known
<1> QED
  BY <1>4, <1>5

(* The databases begin good: what others made is no table of the roles.    *)
LEMMA SoundAtFirst == Init => Sound
<1> SUFFICES ASSUME Init PROVE Good(schema, recorded) /\ phase # "upgrading"
  BY DEF Sound
<1> DEFINE others == Known[origin].others
           known  == Applied(Known[origin].floor \cup Known[origin].recorded)
<1>1. origin \in Origins /\ origin \in DOMAIN Known /\ recorded = Known[origin].recorded
  BY OriginsAssumption DEF Init
<1>2. PICK rows \in SUBSET {Rows("payment")} : schema = Beginning[origin] \cup rows
  BY DEF Init
<1>3. Beginning[origin] = UNION Replayed({}, known, others)
  BY <1>1 DEF Beginning, SchemaAt
<1>4. NoRoleTables(others) /\ Replayed({}, known, others) # {}
  BY <1>1, OthersHaveNoRoles, OriginsAssumption
<1>5. RolesWhole({})
  BY DEF RolesWhole
<1> HIDE DEF others, known
<1>6. \A A \in Replayed({}, known, others) :
         RolesWhole(A) /\ \A r \in known \cap Revisions : MadeBy(r) \subseteq A
  BY <1>4, <1>5, ReplayMakes
<1>7. Good(Beginning[origin], recorded)
  <2>1. RolesWhole(Beginning[origin])
    BY <1>3, <1>6 DEF RolesWhole
  <2>2. Applied(recorded) \subseteq known \cap Revisions
    BY <1>1, AppliedIs DEF Applied, known
  <2>3. \A r \in Applied(recorded) : MadeBy(r) \subseteq Beginning[origin]
    BY <1>3, <1>4, <1>6, <2>2
  <2>4. recorded = {} => Table("user") \notin Beginning[origin]
    <3> SUFFICES ASSUME recorded = {} PROVE Table("user") \notin Beginning[origin]
      OBVIOUS
    <3>1. Known[origin].floor \cup Known[origin].recorded = {}
      BY <1>1, FirstVersions DEF Known
    <3>2. known = {}
      BY <3>1 DEF known, Applied
    <3> QED
      BY <1>3, <3>2, ReplayOfNone
  <2> QED
    BY <2>1, <2>3, <2>4 DEF Good
<1>8. \A t : Table(t) \notin rows
  BY DEF Rows, Table
<1> QED
  BY <1>2, <1>7, <1>8, GoodGrows DEF Init

-----------------------------------------------------------------------------
(* create_all succeeds where "user" is complete or missing, and leaves all *)
(* that seeding needs.                                                     *)
LEMMA CreationEnables ==
    ASSUME NEW S, NEW rs \in {{}, {Latest}}, Good(S, rs)
    PROVE  ~ CreateAllRefused(S) /\ Seedable(Created(S))
<1>1. KeyIsUuid("user") \in Created(S)
  BY UserComplete DEF Created, UserFacts
<1>2. UserFacts \subseteq Created(S)
  <2>1. Good(Created(S), rs) /\ Table("user") \in ModelFacts
    <3>1. Table("user") \in UserTable.made
      BY TableMade DEF UserTable
    <3> QED
      BY <3>1, GoodCreated DEF ModelFacts, ModelTables
  <2>2. Table("user") \in Created(S)
    <3>1. IsTable(Table("user"))
      BY DEF IsTable, Table
    <3> QED
      BY <2>1, <3>1, CreatedServes DEF Served
  <2> QED
    BY <2>1, <2>2, UserComplete
<1>3. \A t \in RoleNames : Columns(t, RoleColumns[t]) \subseteq Created(S)
  <2>1. \A t \in RoleNames : Table(t) \in ModelFacts
    <3>1. \A t \in RoleNames : \E o \in RoleTables : Table(t) \in o.made
      BY TableMade DEF RoleNames, RoleTables
    <3> QED
      BY <3>1 DEF ModelFacts, ModelTables
  <2>2. \A t : IsTable(Table(t))
    BY DEF IsTable, Table
  <2>3. \A t \in RoleNames : Table(t) \in Created(S)
    BY <2>1, <2>2, CreatedServes DEF Served
  <2>4. RolesWhole(Created(S))
    BY GoodCreated DEF Good
  <2> QED
    BY <2>3, <2>4 DEF RolesWhole
<1>4. Seedable(Created(S))
  <2>1. Columns("user", UserColumnsOfModel) \subseteq Created(S)
    BY <1>2 DEF UserFacts
  <2> QED
    BY <1>3, <2>1 DEF Seedable, RoleNames, RoleColumns
<1> QED
  BY <1>1, <1>4 DEF CreateAllRefused

(* Start-up on such a database, without a failure, has what seeding needs  *)
(* from create_all on.                                                     *)
StartsRight ==
  ~ byHand /\ ~ troubled /\ recorded \in {{}, {Latest}} =>
    /\ (phase \in {"settings", "seeding"} => Seedable(schema))
    /\ (phase = "serving" => initialized)

(* More facts do not get in the way of seeding.                            *)
LEMMA SeedableGrows == \A S, X : Seedable(S) => Seedable(S \cup X)
BY DEF Seedable

(* Every step keeps start-up right.                                        *)
LEMMA StartsStep == Sound /\ StartsRight /\ [Next]_vars => StartsRight'
<1> SUFFICES ASSUME Sound, StartsRight, [Next]_vars, ~ byHand', ~ troubled',
                    recorded' \in {{}, {Latest}}
             PROVE  /\ phase' \in {"settings", "seeding"} => Seedable(schema')
                    /\ phase' = "serving" => initialized'
  BY DEF StartsRight
<1> DEFINE Goal == /\ phase' \in {"settings", "seeding"} => Seedable(schema')
                   /\ phase' = "serving" => initialized'
<1>1. ASSUME phase' \notin {"settings", "seeding", "serving"} PROVE Goal
  BY <1>1
<1>2. CASE \/ Deploy \/ DbNeverAnswers \/ DbAnswers \/ NotLocated \/ UpgradeCommit \/ UpgradeLost
           \/ AlterPayment \/ Stop \/ UpgradeOne \/ DowngradeOne \/ Stamp \/ FixState
  <2>1. phase' \notin {"settings", "seeding", "serving"}
    BY <1>2 DEF Deploy, DbNeverAnswers, DbAnswers, NotLocated, UpgradeCommit, UpgradeLost, Upgraded,
                AlterPayment, Then, Stop, UpgradeOne, DowngradeOne, Stamp, ByHand, FixState
  <2> QED
    BY <1>1, <2>1
<1>3. CASE UpgradeStep
  <2>1. phase' \in {phase, "altering", "stopped"} /\ phase = "upgrading"
    BY <1>3 DEF UpgradeStep, Upgraded
  <2> QED
    BY <1>1, <2>1
<1>4. CASE CreateAll
  <2>1. recorded \in {{}, {Latest}} /\ Good(schema, recorded)
    BY <1>4 DEF CreateAll, Then, Sound
  <2>2. ~ CreateAllRefused(schema) /\ Seedable(Created(schema))
    BY <2>1, CreationEnables
  <2> QED
    BY <1>4, <2>2 DEF CreateAll, Then
<1>5. CASE EnsureSettings
  <2>1. Seedable(schema)
    BY <1>5 DEF EnsureSettings, Then, StartsRight
  <2> QED
    BY <1>5, <2>1, SeedableGrows DEF EnsureSettings, Then
<1>6. CASE Seed
  BY <1>6 DEF Seed, Then, StartsRight
<1>7. CASE StartUpFails
  BY <1>7 DEF StartUpFails
<1>8. CASE PaymentTaken
  BY <1>8 DEF PaymentTaken
<1>9. CASE UNCHANGED vars
  BY <1>9 DEF vars, StartsRight
<1> QED
  BY <1>2, <1>3, <1>4, <1>5, <1>6, <1>7, <1>8, <1>9 DEF Next, Upgrade, StartUp

(* A server on a database whose version alembic alone has written, at the  *)
(* head or where only start-up has made tables, comes out of its start-up  *)
(* initialized unless the database failed a statement: create_all is not   *)
(* refused, for "user" has its UUIDs, and what seeding selects is there.   *)
THEOREM StartsInitialize == Spec => []StartInitializes
<1>1. Init => Sound /\ StartsRight
  BY SoundAtFirst DEF Init, StartsRight
<1>2. Sound /\ StartsRight /\ [Next]_vars => Sound' /\ StartsRight'
  BY SoundStep, StartsStep
<1>3. StartsRight => StartInitializes
  BY DEF StartsRight, StartInitializes
<1> QED
  BY <1>1, <1>2, <1>3, PTL DEF Spec

-----------------------------------------------------------------------------
(* The version table names no revision of this history, or one row of it,  *)
(* where the history does not branch.                                      *)
OneVersion == recorded \cap Revisions = {} \/ \E i \in Straight : recorded = {History[i]}

(* A step forward to r, which runs all that r joins.                       *)
Forward(r) ==
  /\ recorded' = {r}
  /\ schema' \in Replayed(schema, Lineage[r] \ Applied(recorded), <<>>)

ForwardOne ==
  \/ recorded = {} /\ Forward(History[1])
  \/ \E i \in Straight : /\ recorded = {History[i]} /\ i + 1 \in Straight
                         /\ Parents[History[i + 1]] = {History[i]}
                         /\ Forward(History[i + 1])
  \/ Forward(Latest)

(* A single step forward is to the next revision of History, or from 070c, *)
(* which only the head follows, to the head.                               *)
LEMMA StepForward ==
    ASSUME OneVersion, UpgradeOne
    PROVE  UNCHANGED phase /\ ForwardOne
<1>1. /\ UNCHANGED phase /\ recorded \subseteq Revisions /\ Cardinality(recorded') = 1
      /\ recorded' = IF recorded = {} THEN {r \in Revisions : Parents[r] = {}}
                     ELSE UNION {Children(c) : c \in recorded}
      /\ \E r \in recorded' : schema' \in Replayed(schema, Lineage[r] \ Applied(recorded), <<>>)
  BY DEF UpgradeOne, ByHand
<1>2. recorded' \subseteq Revisions
  BY <1>1 DEF Children
<1>3. PICK r \in Revisions : recorded' = {r}
  BY <1>1, <1>2, OneRevision
<1>4. Forward(r)
  BY <1>1, <1>3 DEF Forward
<1> SUFFICES ForwardOne
  BY <1>1
<1>5. CASE recorded = {}
  <2>1. r = "e241"
    BY <1>1, <1>3, <1>5, OnlyFirstHasNoParent
  <2> QED
    BY <1>4, <1>5, <2>1, BranchPlaces DEF ForwardOne
<1>6. CASE recorded # {}
  <2>1. PICK i \in Straight : recorded = {History[i]}
    BY <1>1, <1>6 DEF OneVersion
  <2>2. \A c \in Revisions : History[i] \in Parents[c] => c = r
    BY <1>1, <1>3, <2>1 DEF Children
  <2>3. History[i] \in Parents[r]
    BY <1>1, <1>3, <2>1 DEF Children
  <2>4. CASE i \in (1..5) \cup (17..36) \cup (42..51)
    <3>1. i + 1 \in 2..54 /\ (i + 1) - 1 = i /\ i + 1 \in Straight
      BY <2>4 DEF Straight
    <3>2. i + 1 \notin {1, 8, 9, 14, 15, 17, 39, 41, 53, 54}
      BY <2>4
    <3>3. History[i + 1] \notin Branching /\ History[i + 1] \in Revisions
      BY <3>1, <3>2, BranchPlaces, Places DEF Branching
    <3>4. Parents[History[i + 1]] = {History[i]}
      BY <3>1, <3>3, ParentsAre, BeforeIs
    <3>5. r = History[i + 1]
      BY <2>2, <3>3, <3>4
    <3> QED
      BY <1>4, <2>1, <3>1, <3>4, <3>5 DEF ForwardOne
  <2>5. CASE i \in {6, 37, 41}
    <3>1. \A k \in {7, 38, 42} : History[k] \notin Branching /\ History[k] \in Revisions
      <4>1. \A k \in {7, 38, 42} : k \in 1..54 /\ k \notin {1, 8, 9, 14, 15, 17, 39, 41, 53, 54}
        OBVIOUS
      <4> QED
        BY <4>1, BranchPlaces, Places DEF Branching
    <3>2. /\ Parents[History[7]] = {History[6]} /\ Parents[History[38]] = {History[37]}
          /\ Parents[History[42]] = {History[41]}
      BY <3>1, ParentsAre, BeforeIs
    <3>3. /\ Parents[History[8]] = {History[6]} /\ Parents[History[39]] = {History[37]}
          /\ Parents[History[53]] = {History[41]}
      BY ParentsAre, BranchPlaces
    <3>4. \A k \in {7, 38, 42, 8, 39, 53} : History[k] \in Revisions
      BY Places
    <3>5. History[7] # History[8] /\ History[38] # History[39] /\ History[42] # History[53]
      BY Places
    <3> QED
      BY <2>2, <2>5, <3>2, <3>3, <3>4, <3>5
  <2>6. CASE i = 52
    <3>1. History[52] \in Parents[Latest] /\ Latest \in Revisions
      BY ParentsAre, BranchPlaces, Places
    <3>2. r = Latest
      BY <2>2, <2>6, <3>1
    <3> QED
      BY <1>4, <3>2 DEF ForwardOne
  <2>7. CASE i = 54
    <3>1. PICK k \in 1..54 : r = History[k]
      BY Places
    <3>2. PICK j \in 1..(k - 1) : History[54] = History[j]
      BY <2>3, <2>7, <3>1, ParentsEarlier
    <3>3. j \in 1..54 /\ j # 54 /\ 54 \in 1..54
      OBVIOUS
    <3>4. \A x, y \in 1..54 : History[x] = History[y] => x = y
      BY Places
    <3> QED
      BY <3>2, <3>3, <3>4
  <2> QED
    BY <2>4, <2>5, <2>6, <2>7 DEF Straight
<1> QED
  BY <1>5, <1>6

(* A step back is to the revision before, and refused where branches meet. *)
LEMMA StepBack ==
    ASSUME OneVersion, DowngradeOne
    PROVE  OneVersion'
<1>1. PICK r \in Revisions : recorded = {r} /\ recorded' = Parents[r] /\ Cardinality(Parents[r]) < 2
  <2>1. "ab55" \in Revisions
    BY DEF Revisions, History
  <2> QED
    BY <2>1 DEF DowngradeOne
<1>2. PICK i \in Straight : r = History[i]
  <2>1. recorded \cap Revisions # {}
    BY <1>1
  <2>2. PICK i \in Straight : recorded = {History[i]}
    BY <2>1 DEF OneVersion
  <2> QED
    BY <1>1, <2>2
<1>3. CASE i = 1
  BY <1>1, <1>2, <1>3, BranchPlaces, ParentsAre DEF OneVersion
<1>4. CASE i \in {17, 41, 54}
  <2>1. \E p, q : p # q /\ p \in Parents[r] /\ q \in Parents[r]
    BY <1>2, <1>4, BranchPlaces, ParentsAre
  <2>2. Parents[r] = {} \/ \E q \in Revisions : Parents[r] = {q}
    BY <1>1, ParentsAreRevisions, FewRevisions
  <2> QED
    BY <2>1, <2>2
<1>5. CASE i \notin {1, 17, 41, 54}
  <2>1. i \in 2..54 /\ i - 1 \in Straight /\ i \notin {1, 8, 9, 14, 15, 17, 39, 41, 53, 54}
    BY <1>5 DEF Straight
  <2>2. History[i] \notin Branching
    BY <2>1, BranchPlaces, Places DEF Branching
  <2>3. Parents[r] = {History[i - 1]}
    BY <1>2, <2>1, <2>2, ParentsAre, BeforeIs
  <2> QED
    BY <1>1, <2>1, <2>3 DEF OneVersion
<1> QED
  BY <1>3, <1>4, <1>5

(* A version of one row stands for all of history up to it.                *)
LEMMA AppliedOfOne ==
    ASSUME NEW i \in Straight
    PROVE  i \in 1..54 /\ Applied({History[i]}) = {History[j] : j \in 1..i}
<1>1. i \in 1..54
  BY DEF Straight
<1>2. Applied({History[i]}) = Lineage[History[i]]
  BY <1>1, Places DEF Applied
<1> QED
  BY <1>1, <1>2, StraightIsWhole

(* Every step keeps to one version.                                        *)
LEMMA OneVersionStep == OneRowPerBranch /\ OneVersion /\ [Next]_vars => OneVersion'
<1> SUFFICES ASSUME OneRowPerBranch, OneVersion, [Next]_vars PROVE OneVersion'
  OBVIOUS
<1>1. ASSUME recorded' = recorded \/ recorded' = recorded \cap Revisions PROVE OneVersion'
  BY <1>1 DEF OneVersion
<1>2. CASE \/ Deploy \/ DbNeverAnswers \/ DbAnswers \/ NotLocated \/ UpgradeStep \/ UpgradeLost
           \/ StartUp \/ StartUpFails \/ PaymentTaken \/ Stop \/ FixState \/ UNCHANGED vars
  <2>1. recorded' = recorded \/ recorded' = recorded \cap Revisions
    BY <1>2 DEF Deploy, DbNeverAnswers, DbAnswers, NotLocated, UpgradeStep, UpgradeLost, StartUp,
                AlterPayment, CreateAll, EnsureSettings, Seed, Then, StartUpFails, PaymentTaken,
                Stop, FixState, db, vars
  <2> QED
    BY <1>1, <2>1
<1>3. CASE UpgradeCommit
  <2>1. recorded' = {Latest}
    BY <1>3, CommitIsLatest
  <2>2. 54 \in Straight
    BY DEF Straight
  <2> QED
    BY <2>1, <2>2, Places DEF OneVersion
<1>4. CASE UpgradeOne
  <2>1. ForwardOne
    BY <1>4, StepForward
  <2>2. 1 \in Straight /\ 54 \in Straight
    BY DEF Straight
  <2> QED
    BY <2>1, <2>2, Places DEF ForwardOne, Forward, OneVersion
<1>5. CASE DowngradeOne
  BY <1>5, StepBack
<1>6. CASE Stamp
  <2>1. 45 \in Straight /\ History[45] = Stamped
    BY DEF Straight, History, Stamped
  <2>2. recorded' = {Stamped}
    BY <1>6 DEF Stamp
  <2> QED
    BY <2>1, <2>2 DEF OneVersion
<1> QED
  BY <1>2, <1>3, <1>4, <1>5, <1>6 DEF Next, Upgrade

(* The databases begin with one version.                                   *)
LEMMA OneVersionAtFirst == Init => OneVersion
<1> SUFFICES ASSUME Init PROVE OneVersion
  OBVIOUS
<1>1. origin \in {"empty", "hub", "alumni", "orphan"} /\ recorded = Known[origin].recorded
  BY FirstVersions DEF Init
<1>2. /\ Known["empty"].recorded = {} /\ Known["hub"].recorded = {"merge_tag_and_copilot"}
      /\ Known["alumni"].recorded = {"2ff9"} /\ Known["orphan"].recorded = {Orphan}
  BY DEF Known
<1>3. 17 \in Straight /\ 48 \in Straight
  BY DEF Straight
<1>4. History[17] = "merge_tag_and_copilot" /\ History[48] = "2ff9" /\ Orphan \notin Revisions
  BY DEF History, Orphan, Revisions
<1> QED
  BY <1>1, <1>2, <1>3, <1>4 DEF OneVersion

(* The version table never has more than one row, and that row is a        *)
(* revision all of history before which is applied.                        *)
VersionIsOneRow ==
  \/ recorded \subseteq {Orphan}
  \/ \E i \in 1..54 : recorded = {History[i]} /\ Applied(recorded) = {History[j] : j \in 1..i}

THEOREM OneRowAlways == Spec => []VersionIsOneRow
<1>1. Init => TypeOK /\ OneRowPerBranch /\ OneVersion
  BY FirstTyped, BranchesAtFirst, OneVersionAtFirst
<1>2. TypeOK /\ OneRowPerBranch /\ OneVersion /\ [Next]_vars
        => TypeOK' /\ OneRowPerBranch' /\ OneVersion'
  BY TypesAreRight, BranchesStep, OneVersionStep
<1>3. TypeOK /\ OneVersion => VersionIsOneRow
  <2> SUFFICES ASSUME TypeOK, OneVersion PROVE VersionIsOneRow
    OBVIOUS
  <2>1. CASE recorded \cap Revisions = {}
    BY <2>1 DEF TypeOK, VersionIsOneRow
  <2>2. ASSUME NEW i \in Straight, recorded = {History[i]} PROVE VersionIsOneRow
    BY <2>2, AppliedOfOne DEF VersionIsOneRow
  <2> QED
    BY <2>1, <2>2 DEF OneVersion
<1> QED
  BY <1>1, <1>2, <1>3, PTL DEF Spec

-----------------------------------------------------------------------------
(* Only a start, a payment, a step back and stamp_db.py can cost a database*)
(* the upgrade to the head: no deployment does, wherever it is refused, cut*)
(* off or loses its connection, nor a single step forward, nor the repair  *)
(* fix_alembic_state.py.                                                   *)
ChanceIsKept ==
  [][~ (StartUp \/ PaymentTaken \/ DowngradeOne \/ Stamp) =>
       (CanUpgrade(schema, recorded) => CanUpgrade(schema', recorded'))]_vars

(* A database at the head has it.                                          *)
LEMMA HeadHasChance == \A S : CanUpgrade(S, {Latest})
<1> TAKE S
<1>1. Applied({Latest}) = Revisions
  <2>1. {Latest} \cap Revisions = {Latest}
    BY Places
  <2> QED
    BY <2>1, LatestFollowsAll DEF Applied
<1>2. Revisions \ Applied({Latest}) = {}
  BY <1>1
<1>3. Replayed(S, {}, <<>>) = {S}
  BY ReplayOfNone
<1> QED
  BY <1>2, <1>3 DEF CanUpgrade

(* A single step forward keeps it: what is left to replay is the rest of   *)
(* what was.                                                               *)
LEMMA ForwardKeepsChance ==
    ASSUME CanUpgrade(schema, recorded), ForwardOne
    PROVE  CanUpgrade(schema', recorded')
<1>1. ASSUME NEW n \in 1..54, Forward(History[n]), History[n] \notin Applied(recorded),
             \A j \in 1..(n - 1) : History[j] \in Applied(recorded),
             Lineage[History[n]] = {History[n]} \cup Applied(recorded)
      PROVE  CanUpgrade(schema', recorded')
  <2>1. Lineage[History[n]] \ Applied(recorded) = {History[n]}
    BY <1>1
  <2>2. PICK S, r, none, A, left :
             /\ S = schema /\ r = History[n] /\ none = <<>> /\ A = schema'
             /\ left = Revisions \ Applied(recorded)
    OBVIOUS
  <2>3. A \in Replayed(S, {r}, none)
    BY <1>1, <2>1, <2>2 DEF Forward
  <2>4. r \in left /\ r = History[n]
    BY <1>1, <2>2, Places
  <2>5. \A j \in 1..(n - 1) : History[j] \notin left
    BY <1>1, <2>2
  <2>6. Replayed(S, left, none) = Replayed(A, left \ {r}, none)
    BY <2>3, <2>4, <2>5, ReplaySplits
  <2>7. Applied(recorded') = Lineage[r]
    <3>1. recorded' = {r} /\ {r} \cap Revisions = {r}
      BY <1>1, <2>2, <2>4 DEF Forward
    <3> QED
      BY <3>1 DEF Applied
  <2>8. left \ {r} = Revisions \ Applied(recorded')
    <3>1. Applied(recorded') = {r} \cup Applied(recorded)
      BY <1>1, <2>2, <2>7
    <3> QED
      BY <2>2, <3>1
  <2> QED
    BY <2>2, <2>6, <2>8 DEF CanUpgrade
<1>2. CASE recorded = {} /\ Forward(History[1])
  <2>1. Applied(recorded) = {} /\ History[1] \in Revisions /\ 1 \in Straight
    BY <1>2, Places DEF Applied, Straight
  <2>2. Lineage[History[1]] = {History[1]}
    BY <2>1, StraightIsWhole
  <2> QED
    BY <1>1, <1>2, <2>1, <2>2
<1>3. ASSUME NEW i \in Straight, recorded = {History[i]}, i + 1 \in Straight,
             Parents[History[i + 1]] = {History[i]}, Forward(History[i + 1])
      PROVE  CanUpgrade(schema', recorded')
  <2>1. i \in 1..54 /\ i + 1 \in 1..54 /\ (i + 1) - 1 = i
    BY <1>3 DEF Straight
  <2>2. Applied(recorded) = Lineage[History[i]] /\ History[i + 1] \in Revisions
    BY <1>3, <2>1, Places DEF Applied
  <2>3. Applied(recorded) = {History[j] : j \in 1..i}
    BY <2>2, StraightIsWhole
  <2>4. History[i + 1] \notin Applied(recorded)
    BY <2>1, <2>3, Places
  <2>5. Lineage[History[i + 1]] = {History[i + 1]} \cup Applied(recorded)
    BY <1>3, <2>2, LineageIs
  <2> QED
    BY <1>1, <1>3, <2>1, <2>2, <2>3, <2>4, <2>5
<1>4. CASE Forward(Latest)
  BY <1>4, HeadHasChance DEF Forward
<1> QED
  BY <1>2, <1>3, <1>4 DEF ForwardOne

THEOREM ChancesAreKept == Spec => ChanceIsKept
<1> DEFINE Kept == ~ (StartUp \/ PaymentTaken \/ DowngradeOne \/ Stamp) =>
                      (CanUpgrade(schema, recorded) => CanUpgrade(schema', recorded'))
<1>1. OneRowPerBranch /\ OneVersion /\ [Next]_vars => [Kept]_vars
  <2> SUFFICES ASSUME OneRowPerBranch, OneVersion, Next, CanUpgrade(schema, recorded),
                      ~ (StartUp \/ PaymentTaken \/ DowngradeOne \/ Stamp)
               PROVE  CanUpgrade(schema', recorded')
    OBVIOUS
  <2>1. CASE \/ Deploy \/ DbNeverAnswers \/ DbAnswers \/ NotLocated \/ UpgradeStep \/ UpgradeLost
             \/ StartUpFails \/ Stop \/ FixState
    <3>1. schema' = schema /\ (recorded' = recorded \/ recorded' = recorded \cap Revisions)
      BY <2>1 DEF Deploy, DbNeverAnswers, DbAnswers, NotLocated, UpgradeStep, UpgradeLost,
                  StartUpFails, Then, Stop, FixState, db
    <3>2. Applied(recorded') = Applied(recorded)
      BY <3>1 DEF Applied
    <3> QED
      BY <3>1, <3>2 DEF CanUpgrade
  <2>2. CASE UpgradeCommit
    <3>1. recorded' = {Latest}
      BY <2>2, CommitIsLatest
    <3> QED
      BY <3>1, HeadHasChance
  <2>3. CASE UpgradeOne
    BY <2>3, StepForward, ForwardKeepsChance
  <2> QED
    BY <2>1, <2>2, <2>3 DEF Next, Upgrade
<1>2. Init => OneRowPerBranch /\ OneVersion
  BY BranchesAtFirst, OneVersionAtFirst
<1>3. OneRowPerBranch /\ OneVersion /\ [Next]_vars => OneRowPerBranch' /\ OneVersion'
  BY BranchesStep, OneVersionStep
<1> QED
  BY <1>1, <1>2, <1>3, PTL DEF Spec, ChanceIsKept

-----------------------------------------------------------------------------
(* The container is never sent back: each of its steps ends it, takes it   *)
(* to a later phase, or applies one more revision of the finitely many,    *)
(* until it serves and only payments are taken. This is what, with the     *)
(* fairness of Spec, makes a deployment end.                               *)
Course ==
  <<"waiting", "upgrading", "altering", "creating", "settings", "seeding", "serving">>

Later(p, q) == \E i, j \in DOMAIN Course : i < j /\ Course[i] = p /\ Course[j] = q

OneMoreApplied ==
  /\ phase = "upgrading" /\ phase' = "upgrading"
  /\ \E r \in Revisions \ Applied(tx[1].recorded) :
       Applied(tx'[1].recorded) = Applied(tx[1].recorded) \cup {r}

DeployMovesOn ==
  [][phase # "stopped" =>
       \/ phase' = "stopped" \/ Later(phase, phase')
       \/ OneMoreApplied
       \/ phase = "serving" /\ PaymentTaken]_vars

(* The phases that follow one another.                                     *)
LEMMA LaterPhases ==
    /\ \A p \in {"upgrading"} : Later("waiting", p)
    /\ Later("upgrading", "altering") /\ Later("altering", "creating")
    /\ \A p \in {"settings", "serving"} : Later("creating", p)
    /\ Later("settings", "seeding") /\ Later("seeding", "serving")
<1>1. DOMAIN Course = 1..7
  BY DEF Course
<1>2. /\ Course[1] = "waiting" /\ Course[2] = "upgrading" /\ Course[3] = "altering"
      /\ Course[4] = "creating" /\ Course[5] = "settings" /\ Course[6] = "seeding"
      /\ Course[7] = "serving"
  BY DEF Course
<1>3. \A i, j \in 1..7 : i < j => Later(Course[i], Course[j])
  BY <1>1 DEF Later
<1> QED
  BY <1>2, <1>3

(* In each run of the container, and of the repair that upgrades.          *)
THEOREM DeploymentsMoveOn == Spec => DeployMovesOn
<1> DEFINE Moves == \/ phase' = "stopped" \/ Later(phase, phase')
                    \/ OneMoreApplied
                    \/ phase = "serving" /\ PaymentTaken
<1>1. [Next]_vars => [phase # "stopped" => Moves]_vars
  <2> SUFFICES ASSUME Next, phase # "stopped" PROVE Moves
    OBVIOUS
  <2>1. CASE Deploy \/ UpgradeOne \/ DowngradeOne \/ Stamp \/ FixState
    BY <2>1 DEF Deploy, UpgradeOne, DowngradeOne, Stamp, FixState, ByHand
  <2>2. CASE DbNeverAnswers \/ Stop
    BY <2>2 DEF DbNeverAnswers, Stop
  <2>3. CASE DbAnswers
    BY <2>3, LaterPhases DEF DbAnswers
  <2>4. ASSUME phase = "upgrading", Upgraded PROVE Moves
    BY <2>4, LaterPhases DEF Upgraded
  <2>5. CASE NotLocated \/ UpgradeCommit \/ UpgradeLost
    BY <2>4, <2>5 DEF NotLocated, UpgradeCommit, UpgradeLost
  <2>6. CASE UpgradeStep
    <3>1. phase = "upgrading"
      BY <2>6 DEF UpgradeStep
    <3>2. PICK r \in Due :
            \/ /\ \E S \in Run(UpgradeOf(r, tx[1].schema), tx[1].schema) :
                    tx' = << [schema |-> S, recorded |-> Recording(tx[1].recorded, r)] >>
               /\ UNCHANGED <<phase, job>>
            \/ Upgraded
      BY <2>6 DEF UpgradeStep
    <3>3. CASE Upgraded
      BY <2>4, <3>1, <3>3
    <3>4. CASE /\ \E S \in Run(UpgradeOf(r, tx[1].schema), tx[1].schema) :
                    tx' = << [schema |-> S, recorded |-> Recording(tx[1].recorded, r)] >>
               /\ UNCHANGED <<phase, job>>
      <4>1. tx'[1].recorded = Recording(tx[1].recorded, r) /\ phase' = "upgrading"
        BY <3>1, <3>4
      <4>2. /\ r \in Revisions \ Applied(tx[1].recorded)
            /\ Parents[r] \subseteq Applied(tx[1].recorded)
        BY <3>2 DEF Due
      <4>3. PICK rs : rs = tx[1].recorded
        OBVIOUS
      <4>4. Applied(Recording(rs, r)) = Applied(rs) \cup {r}
        BY <4>2, <4>3, AppliedGrows
      <4> QED
        BY <3>1, <4>1, <4>2, <4>3, <4>4 DEF OneMoreApplied
    <3> QED
      BY <3>2, <3>3, <3>4
  <2>7. CASE StartUp
    BY <2>7, LaterPhases DEF StartUp, AlterPayment, CreateAll, EnsureSettings, Seed, Then
  <2>8. CASE StartUpFails
    BY <2>8, LaterPhases DEF StartUpFails, Then
  <2>9. CASE PaymentTaken
    BY <2>9 DEF PaymentTaken
  <2> QED
    BY <2>1, <2>2, <2>3, <2>5, <2>6, <2>7, <2>8, <2>9 DEF Next, Upgrade
<1> QED
  BY <1>1, PTL DEF Spec, DeployMovesOn
=============================================================================
