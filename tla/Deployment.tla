------------------------------ MODULE Deployment ------------------------------
(***************************************************************************)
(* What happens to the database when the server is deployed, started,      *)
(* stopped and repaired.                                                   *)
(*                                                                         *)
(* The container runs scripts/migrate.sh and then the server. The script   *)
(* waits for the database and runs `alembic upgrade head`, all revisions   *)
(* in one transaction (app/alembic/env.py); whatever the upgrade does, its *)
(* exit status is lost in `|| true` and the server starts. Its start-up    *)
(* handler adds columns to `payment`, creates the tables the models miss,  *)
(* adds columns to `system_settings` and seeds roles and the first user;   *)
(* it swallows every exception. Operators run single alembic steps, or the *)
(* scripts stamp_db.py and fix_alembic_state.py, while the server is down. *)
(*                                                                         *)
(* A definition placed directly above another of the same parameters is a  *)
(* faulty variant of it that no action uses.                               *)
(***************************************************************************)
EXTENDS Migrations, FiniteSets

CONSTANT Origins        \* what the database can be when this history begins

VARIABLES
  origin,               \* the member of Origins it was
  schema,               \* what is committed
  recorded,             \* the rows of alembic_version
  tx,                   \* the transaction of a running upgrade: << >> or << [schema, recorded] >>
  phase,                \* what the container, or the repair script, is doing
  job,                  \* whether that is a deployment or a repair
  initialized,          \* start-up got to "Main database initialization complete."
  troubled,             \* the database failed a statement since the container started
  startedUp,            \* start-up has changed the schema at least once
  byHand                \* a script has rewritten alembic_version

db   == <<schema, recorded, tx>>
past == <<origin, startedUp, byHand>>
vars == <<origin, schema, recorded, tx, phase, job, initialized, troubled, startedUp, byHand>>

Orphan == "e904d0db398c"        \* a revision fix_migration.py names and no file has any more
Stamped == "36eb"

(***************************************************************************)
(* What is known of each: the version it has when this history begins; the *)
(* lowest version whose schema is known, `floor`; the tables others made,  *)
(* by the revision they were there from. The earlier release of the        *)
(* association's server ran on ab55.                                       *)
(***************************************************************************)
Known ==
  [empty  |-> [recorded |-> {}, floor |-> {}, others |-> <<>>],
   hub    |-> [recorded |-> {"merge_tag_and_copilot"}, floor |-> {"merge_tag_and_copilot"},
               others |-> [merge_tag_and_copilot |-> HubTables]],
   alumni |-> [recorded |-> {"2ff9"}, floor |-> {"ab55"},
               others |-> [merge_tag_and_copilot |-> HubTables, ab55 |-> EarlierRelease]],
   orphan |-> [recorded |-> {Orphan}, floor |-> {"36eb"},
               others |-> [merge_tag_and_copilot |-> HubTables]]]

\* The schema the version rs of database o stands for; none if the upgrade to it is refused.
SchemaAt(o, rs) == UNION Replayed({}, Applied(rs), Known[o].others)

\* Each of them exists, with a version that can be reached.
ASSUME OriginsAssumption ==
  \A o \in Origins :
    /\ o \in DOMAIN Known
    /\ Replayed({}, Applied(Known[o].floor \cup Known[o].recorded), Known[o].others) # {}

Beginning == [o \in Origins |-> SchemaAt(o, Known[o].floor \cup Known[o].recorded)]

\* A database that has the table may hold payments already.
Init ==
  /\ origin \in Origins
  /\ schema \in {Beginning[origin] \cup rows
                  : rows \in SUBSET {f \in {Rows("payment")} : Table(f[2]) \in Beginning[origin]}}
  /\ recorded = Known[origin].recorded
  /\ tx = <<>>
  /\ phase = "stopped" /\ job = "none"
  /\ initialized = FALSE /\ troubled = FALSE /\ startedUp = FALSE /\ byHand = FALSE

-----------------------------------------------------------------------------
(***************************************************************************)
(* The script: wait for the database, then upgrade.                        *)
(***************************************************************************)
Deploy ==
  /\ phase = "stopped"
  /\ phase' = "waiting" /\ job' = "deploy"
  /\ initialized' = FALSE /\ troubled' = FALSE
  /\ UNCHANGED <<db, past>>

\* After 300 tries the script gives up, and the server is not started.
DbNeverAnswers ==
  /\ phase = "waiting"
  /\ phase' = "stopped" /\ job' = "none"
  /\ UNCHANGED <<db, past, initialized, troubled>>

DbAnswers ==
  /\ phase = "waiting"
  /\ phase' = "upgrading"
  /\ tx' = << [schema |-> schema, recorded |-> recorded] >>
  /\ UNCHANGED <<schema, recorded, past, job, initialized, troubled>>

UpgradedOpen ==
  /\ UNCHANGED tx
  /\ phase' = IF job = "deploy" THEN "altering" ELSE "stopped"
  /\ job' = IF job = "deploy" THEN job ELSE "none"

\* A deployment goes on to start the server however its upgrade ended; a repair is over.
Upgraded ==
  /\ tx' = <<>>
  /\ phase' = IF job = "deploy" THEN "altering" ELSE "stopped"
  /\ job' = IF job = "deploy" THEN job ELSE "none"

\* The revisions that can come next: alembic may take branches in either order.
Due == LET done == Applied(tx[1].recorded) IN {r \in Revisions \ done : Parents[r] \subseteq done}

Located == tx[1].recorded \subseteq Revisions

UpgradeStepRetried ==
  /\ phase = "upgrading" /\ Located
  /\ \E r \in Due : \E S \in Run(UpgradeOf(r, tx[1].schema), tx[1].schema) :
        tx' = << [schema |-> S, recorded |-> Recording(tx[1].recorded, r)] >>
  /\ UNCHANGED <<schema, recorded, past, initialized, troubled, phase, job>>

UpgradeStepKept ==
  /\ phase = "upgrading" /\ Located
  /\ \E r \in Due :
       LET results == Run(UpgradeOf(r, tx[1].schema), tx[1].schema)
       IN  \/ /\ \E S \in results :
                    tx' = << [schema |-> S, recorded |-> Recording(tx[1].recorded, r)] >>
              /\ UNCHANGED <<schema, phase, job>>
           \/ results = {} /\ schema' = tx[1].schema /\ Upgraded
  /\ UNCHANGED <<recorded, past, initialized, troubled>>

\* The next revision succeeds, or is refused and ends the upgrade.
UpgradeStep ==
  /\ phase = "upgrading" /\ Located
  /\ \E r \in Due :
       LET results == Run(UpgradeOf(r, tx[1].schema), tx[1].schema)
       IN  \/ /\ \E S \in results :
                    tx' = << [schema |-> S, recorded |-> Recording(tx[1].recorded, r)] >>
              /\ UNCHANGED <<phase, job>>
           \/ results = {} /\ Upgraded
  /\ UNCHANGED <<schema, recorded, past, initialized, troubled>>

\* "Can't locate revision identified by ..."
NotLocated ==
  /\ phase = "upgrading" /\ ~ Located
  /\ Upgraded
  /\ UNCHANGED <<schema, recorded, past, initialized, troubled>>

UpgradeCommit ==
  /\ phase = "upgrading" /\ Located /\ Due = {}
  /\ schema' = tx[1].schema /\ recorded' = tx[1].recorded
  /\ Upgraded
  /\ UNCHANGED <<past, initialized, troubled>>

UpgradeLostInPart ==
  /\ phase = "upgrading"
  /\ troubled' = TRUE
  /\ schema' = tx[1].schema /\ recorded' = tx[1].recorded
  /\ Upgraded
  /\ UNCHANGED <<past, initialized>>

UpgradeLostUnrecorded ==
  /\ phase = "upgrading"
  /\ troubled' = TRUE
  /\ schema' = tx[1].schema
  /\ Upgraded
  /\ UNCHANGED <<recorded, past, initialized>>

\* The connection breaks: PostgreSQL rolls the transaction back.
UpgradeLost ==
  /\ phase = "upgrading"
  /\ troubled' = TRUE
  /\ Upgraded
  /\ UNCHANGED <<schema, recorded, past, initialized>>

-----------------------------------------------------------------------------
(***************************************************************************)
(* The start-up handler of the server.                                     *)
(***************************************************************************)
UserColumnsOfModel ==
  {"id", "email", "is_active", "is_superuser", "full_name", "first_name", "last_name", "phone",
   "state", "avatar", "username", "phone_number", "dial_code", "auth_provider", "address",
   "postcode", "city", "country", "timezone", "graduation_year", "profession", "membership_id",
   "nickname", "alternative_email", "gender", "fgce_set", "fgce_house", "hashed_password",
   "credits", "status", "last_login", "accepted_terms_at", "created_at", "updated_at",
   "is_verified"}

RepairedColumns  == Columns("payment", {"receipt_url", "rejection_reason"})
BankColumns      == Columns("system_settings", {"bank_name", "account_number", "account_name"})

UserTable ==
  CreateTable("user", UserColumnsOfModel, {}, {"email", "username", "membership_id", "created_at"})

RoleTables ==
  { CreateTable("role", {"id", "description"}, {}, {"name"}),
    CreateTable("permission", {"id", "description"}, {}, {"name"}),
    CreateTable("userrole", {"id"}, {By("user_id", "user"), By("role_id", "role")}, {}),
    CreateTable("rolepermission", {"id", "allowed"},
      {By("role_id", "role"), By("permission_id", "permission")}, {}) }

PaymentTable ==
  CreateTable("payment",
    {"id", "status", "amount", "currency", "payment_method", "description", "receipt_url",
     "rejection_reason", "updated_at"}, {By("user_id", "user")},
    {"user_id", "transaction_reference", "paystack_id", "created_at"})

AnnouncementTables ==
  { CreateTable("announcement",
      {"id", "title", "content", "category", "status", "priority", "views", "engagement", "image",
       "is_important", "is_pinned", "scheduled_at", "is_active"},
      {By("created_by_id", "user")}, {"created_at"}),
    CreateTable("announcement_view", {"viewed_at"},
      {By("announcement_id", "announcement"), By("user_id", "user")}, {}) }

EventTables ==
  { CreateTable("event",
      {"id", "title", "description", "date", "time", "location", "status", "image",
       "total_registered", "capacity", "category", "is_online", "meeting_link", "created_at"},
      {By("created_by_id", "user")}, {}),
    CreateTable("event_registration",
      {"id", "registration_date", "notes", "attendees_count", "status"},
      {By("event_id", "event"), By("user_id", "user")}, {"event_id", "user_id"}) }

SettingsTable ==
  CreateTable("system_settings",
    {"id", "association_name", "association_logo", "contact_email", "contact_phone", "address",
     "currency", "payment_enabled", "paystack_public_key", "paystack_secret_key", "tax_percentage",
     "invoice_footer_note", "default_member_status", "allow_self_registration",
     "enable_email_notifications", "timezone", "date_format", "bank_name", "account_number",
     "account_name", "updated_at"}, {}, {})

DueTable ==
  CreateTable("due",
    {"id", "title", "amount", "due_date", "description", "is_active", "created_at", "updated_at"},
    {}, {})

NotificationTable ==
  CreateTable("notification", {"id", "title", "description", "type", "metadata_json"},
    {By("user_id", "user")}, {"user_id", "is_read", "created_at"})

ModelTables ==
  {UserTable, PaymentTable, SettingsTable, DueTable, NotificationTable}
    \cup RoleTables \cup AnnouncementTables \cup EventTables

ModelFacts == {KeyIsUuid("user")} \cup UNION {o.made : o \in ModelTables}
IsTable(f) == f[1] = "table"
Served     == {f \in ModelFacts : IsTable(f)}

\* create_all makes the tables that are missing, in one transaction. Their references to "user" are
\* UUIDs, refused while its id is an integer.
Missing(S) == {o \in ModelTables : \A f \in o.made : IsTable(f) => f \notin S}

Created(S) ==
  S \cup (UNION {o.made : o \in Missing(S)})
    \cup {f \in {KeyIsUuid("user")} : Table("user") \notin S}

CreateAllRefused(S) ==
  /\ KeyIsUuid("user") \notin Created(S)
  /\ \E f \in Created(S) \ S : IsFk(f) /\ f[5] = "user"

\* The columns that seed_rbac and the search for the first user select.
Seedable(S) ==
  /\ Columns("user", UserColumnsOfModel) \subseteq S
  /\ Columns("role", {"id", "name", "description"}) \subseteq S
  /\ Columns("permission", {"id", "name", "description"}) \subseteq S
  /\ Columns("userrole", {"id", "user_id", "role_id"}) \subseteq S
  /\ Columns("rolepermission", {"id", "role_id", "permission_id", "allowed"}) \subseteq S

Then(next) == phase' = next /\ UNCHANGED <<recorded, tx, origin, job, byHand>>

Changed == startedUp' = (startedUp \/ schema' # schema)

\* ADD COLUMN IF NOT EXISTS on payment, if there is such a table.
AlterPayment ==
  /\ phase = "altering"
  /\ schema' = schema \cup {f \in RepairedColumns : Table("payment") \in schema}
  /\ Changed
  /\ Then("creating")
  /\ UNCHANGED <<initialized, troubled>>

CreateAll ==
  /\ phase = "creating"
  /\ \/ /\ ~ CreateAllRefused(schema)
        /\ schema' = Created(schema)
        /\ Then("settings")
     \/ /\ CreateAllRefused(schema)
        /\ UNCHANGED schema
        /\ Then("serving")
  /\ Changed
  /\ UNCHANGED <<initialized, troubled>>

EnsureSettings ==
  /\ phase = "settings"
  /\ schema' = schema \cup BankColumns
  /\ Changed
  /\ Then("seeding")
  /\ UNCHANGED <<initialized, troubled>>

Seed ==
  /\ phase = "seeding"
  /\ initialized' = Seedable(schema)
  /\ Then("serving")
  /\ UNCHANGED <<schema, startedUp, troubled>>

StartUpGoesOn ==
  /\ \/ phase = "altering" /\ Then("creating")
     \/ phase = "creating" /\ Then("settings")
     \/ phase = "settings" /\ Then("seeding")
     \/ phase = "seeding" /\ Then("serving")
  /\ troubled' = TRUE
  /\ UNCHANGED <<schema, initialized, startedUp>>

\* The database fails a statement. The two ALTER blocks have a handler of their own; what fails in
\* the others goes to the handler around the whole start-up.
StartUpFails ==
  /\ \/ phase = "altering" /\ Then("creating")
     \/ phase = "settings" /\ Then("seeding")
     \/ phase \in {"creating", "seeding"} /\ Then("serving")
  /\ troubled' = TRUE
  /\ UNCHANGED <<schema, initialized, startedUp>>

\* A member pays.
PaymentTaken ==
  /\ phase = "serving" /\ initialized
  /\ {f \in ModelFacts : f[1] = "column" /\ f[2] = "payment"} \subseteq schema
  /\ schema' = schema \cup {Rows("payment")}
  /\ UNCHANGED <<recorded, tx, phase, job, past, initialized, troubled>>

\* The container is stopped, replaced or killed.
Stop ==
  /\ phase # "stopped"
  /\ phase' = "stopped" /\ job' = "none" /\ tx' = <<>>
  /\ initialized' = FALSE /\ troubled' = FALSE
  /\ UNCHANGED <<schema, recorded, past>>

-----------------------------------------------------------------------------
(***************************************************************************)
(* By hand, while the server is down.                                      *)
(***************************************************************************)
ByHand == phase = "stopped" /\ UNCHANGED <<tx, origin, initialized, troubled, startedUp>>

\* alembic upgrade +1, refused where the history branches ("Ambiguous walk")
UpgradeOne ==
  /\ ByHand
  /\ recorded \subseteq Revisions
  /\ LET next == IF recorded = {} THEN {r \in Revisions : Parents[r] = {}}
                 ELSE UNION {Children(c) : c \in recorded}
     IN  /\ Cardinality(next) = 1
         /\ \E r \in next : schema' \in Replayed(schema, Lineage[r] \ Applied(recorded), <<>>)
         /\ recorded' = next
  /\ UNCHANGED <<phase, job, byHand>>

\* alembic downgrade -1, refused where branches meet. Not below where the history began: what
\* was there before is not known; the downgrade of ab55 is tried nevertheless.
DowngradeOne ==
  /\ ByHand
  /\ \E r \in {"ab55"} \cup (Revisions \ Applied(Known[origin].floor)) :
       /\ recorded = {r} /\ Cardinality(Parents[r]) < 2
       /\ schema' \in Run(DowngradeOf(r, schema), schema)
       /\ recorded' = Parents[r]
  /\ UNCHANGED <<phase, job, byHand>>

\* stamp_db.py: an UPDATE, which leaves an empty table empty
Stamp ==
  /\ ByHand
  /\ recorded # {}
  /\ recorded' = {Stamped} /\ byHand' = TRUE
  /\ UNCHANGED <<schema, phase, job>>

\* fix_alembic_state.py: forget the rows no file explains, then upgrade
FixState ==
  /\ phase = "stopped"
  /\ recorded' = recorded \cap Revisions
  /\ byHand' = (byHand \/ recorded' # recorded)
  /\ tx' = << [schema |-> schema, recorded |-> recorded'] >>
  /\ phase' = "upgrading" /\ job' = "repair"
  /\ UNCHANGED <<schema, origin, initialized, troubled, startedUp>>

-----------------------------------------------------------------------------
Upgrade == NotLocated \/ UpgradeCommit \/ UpgradeStep
StartUp == AlterPayment \/ CreateAll \/ EnsureSettings \/ Seed

Next ==
  \/ Deploy \/ DbNeverAnswers \/ DbAnswers
  \/ Upgrade \/ UpgradeLost
  \/ StartUp \/ StartUpFails
  \/ PaymentTaken \/ Stop
  \/ UpgradeOne \/ DowngradeOne \/ Stamp \/ FixState

\* The container runs: the script goes on until it gives up, the upgrade and the start-up until
\* they end. No failure has to happen, and nobody has to deploy, pay or repair anything.
Fairness ==
  /\ WF_vars(DbNeverAnswers \/ DbAnswers)
  /\ WF_vars(Upgrade)
  /\ WF_vars(StartUp)

Spec == Init /\ [][Next]_vars /\ Fairness

-----------------------------------------------------------------------------
TypeOK ==
  /\ origin \in Origins
  /\ recorded \subseteq Revisions \cup {Orphan}
  /\ phase \in {"stopped", "waiting", "upgrading", "altering", "creating", "settings", "seeding",
                "serving"}
  /\ job \in {"none", "deploy", "repair"}
  /\ (tx # <<>>) = (phase = "upgrading")
  /\ (job = "none") = (phase = "stopped")
  /\ {initialized, troubled, startedUp, byHand} \subseteq BOOLEAN

\* A schema up to what start-up makes, rows, and the names of its references: the downgrade of
\* fix_credit_transfer_cascade does not give them their first names back.
Shape(S) == {IF IsFk(f) THEN <<"fk", f[2], f[4], f[5]>> ELSE f
               : f \in {g \in S : g[1] # "rows"} \ ModelFacts}

\* What the downgrade of 6e60 leaves.
Leftover(f) == f[2] \in {"platform_settings", "security_event"}

Told == [o \in Origins |-> [r \in Revisions |-> Shape(SchemaAt(o, {r}))]]

(***************************************************************************)
(* The version table tells the schema: unless a script has rewritten it,   *)
(* the tables, columns, indexes and references of the database are those   *)
(* its version stands for, whatever deployments were cut off, upgrades     *)
(* refused, steps taken back and servers started on the way there.         *)
(***************************************************************************)
VersionTellsSchema ==
  phase = "stopped" /\ ~ byHand /\ recorded \subseteq Revisions =>
    LET told == IF recorded = {} THEN {} ELSE Told[origin][CHOOSE r \in recorded : TRUE]
    IN  /\ told \subseteq Shape(schema)
        /\ \A f \in Shape(schema) \ told : Leftover(f)

(***************************************************************************)
(* An upgrade to the head, however many revisions it runs and wherever it  *)
(* fails, either reaches the head or leaves schema and version as they     *)
(* were.                                                                   *)
(***************************************************************************)
UpgradeIsAtomic ==
  [][phase = "upgrading" => \/ recorded' = {Latest}
                            \/ schema' = schema /\ recorded' = recorded]_vars

(***************************************************************************)
(* A database that could be upgraded to the head when this history began   *)
(* still can, after any deployments that were cut off or lost their        *)
(* connection and any steps by hand, as long as start-up has not touched   *)
(* it (its ALTER TABLE payment makes a1b2 fail from then on) and payments  *)
(* were not taken back beyond 1eff (which adds columns they have no value  *)
(* for, and is refused).                                                   *)
(***************************************************************************)
CanUpgrade(S, rs) == Replayed(S, Revisions \ Applied(rs), <<>>) # {}

Upgradable == {o \in Origins : CanUpgrade(Beginning[o], Known[o].recorded)}

RetryKeepsItsChance ==
  /\ phase = "stopped" /\ ~ startedUp /\ ~ byHand
  /\ Rows("payment") \in schema => "1eff" \in Applied(recorded)
  => (CanUpgrade(schema, recorded) <=> origin \in Upgradable)

(***************************************************************************)
(* No deployment, restart, downgrade or repair loses the payments.         *)
(***************************************************************************)
PaymentsSurvive == [][Rows("payment") \in schema => Rows("payment") \in schema']_vars

(***************************************************************************)
(* A server that says it is initialized has every table of its models.     *)
(* One on a database at the head, or on one no migration was ever applied  *)
(* to, gets there at every start during which the database answers, also   *)
(* when the upgrade before it was refused.                                 *)
(***************************************************************************)
InitializedHasTables == phase = "serving" /\ initialized => Served \subseteq schema

StartInitializes ==
  phase = "serving" /\ ~ troubled /\ ~ byHand /\ recorded \in {{}, {Latest}} => initialized

\* A deployment ends: the server serves, or the container has stopped.
DeployEnds == phase = "waiting" ~> phase \in {"serving", "stopped"}
=============================================================================
