# Verification of the FGCEOSA backend

TLA+ modules that model the association backend in `src/app`, the TLC
configurations that check them, and theorems checked by TLAPS. `PROJECT.json`
lists the components, the runs, the source lines each definition models, the
faulty variants that show each property can fail, the hazards, the findings and
the theorems.

```
tlc -workers 2 -config PaymentsOneLoop.cfg MCPayments    # one run
tlapm PaymentsProofs.tla                                 # the proofs of one module
```

## 1. The system

A FastAPI application over SQLModel/SQLAlchemy and PostgreSQL, served by one
uvicorn worker (`Dockerfile:46`). It keeps the members of an alumni association,
their payments, the dues they owe, events, announcements and notices.

What decides the behaviour under concurrency:

- A handler written `def` runs in a thread of a pool; one written `async def` runs
  on the event loop and gives it up only where it awaits (the calls to the payment
  provider). Threads interleave with each other and with the loop.
- Every request has a database session of its own (`api/deps.py:25`). The database
  isolates at READ COMMITTED and no row has a version column: a handler reads,
  decides in Python and commits an UPDATE **of the columns it changed, with the
  values it computed**. Nothing re-checks the condition it decided on; `x += n`
  loses updates.
- An UPDATE of a row that has been deleted fails, and so does an INSERT that
  refers to one; a failed flush leaves the session unusable until it is rolled
  back. Deletions cascade in the database.
- Side effects (in-app notices, e-mails, receipts) come after the commit, in later
  transactions or in threads, and their failures are logged and swallowed.
- State survives a restart only in the database; background tasks, receipt threads
  and handlers do not.

### Components

| component | state | operations | interacts with |
|---|---|---|---|
| payments (`payment_service.py`, `routes/payments.py`) | `payment` rows: status, rejection reason, unique reference | initialize, verify, submit-proof, approve, reject, webhook | provider (HTTP), accounts (owner), notices, receipts |
| payment provider (`payments/`) | charges, outside the system | open a charge, ask for its state, deliver webhooks | payments |
| financial records (`routes/financials.py`) | the same rows | record-payment; analytics, outstanding, export read | payments, dues |
| accounts (`routes/users.py`, `user_repository.py`) | `user` row: status, is_active, is_verified; role; membership id | register, invite, import, social sign-up, take-over, approve, reject, edit, delete | login, notices, e-mail |
| login (`routes/login.py`) | the same columns | password reset and e-mail verification activate an invitation | accounts |
| events (`routes/events.py`) | event row with a counter, registrations | create, register, update, delete | accounts (cascade) |
| announcements (`routes/announcements.py`) | announcement with a counter, views | create, view, update, delete | accounts (cascade) |
| notices (`utils/notifications.py`) | notification rows | create_notification, notify_admins (both commit the caller's transaction) | all of the above |
| dues (`routes/dues.py`, dashboard, users, financials) | due rows; nothing links a payment to a due but the text of its description | create (starts a task that notifies everybody), update, delete; "what is owed" computed in three places | payments, accounts, e-mail |
| roles (`roles_permissions_service.py`, `rbac_seed.py`) | roles, their permissions, their holders | create, update, delete, assign; re-seeding at start-up | accounts |
| e-mail (`email_service.py`) | none | send, retried for Postmark only | provider of e-mail |
| migrations (`alembic/`, `scripts/migrate.sh`, `stamp_db.py`, `scripts/fix_alembic_state.py`) | the schema, the rows of `alembic_version` | upgrade to the head, single steps, stamping, repair | start-up, every table |
| start-up (`main.py`, `core/db.py`, `initial_data.py`) | the same schema, the seeded rows | add columns, create missing tables, seed roles and the first user; also re-enables one account | migrations, roles, accounts |
| system settings | one row, created at first use | read, update | dues, payments (webhook) |
| not wired or not executable | | rate limiter, cache, Celery, Monnify, credit allocation, force-delete | |

### What is hard, and what makes each part correct

- **Payments.** Verification awaits the provider between reading and writing;
  several may run for one reference; the row is inserted after the provider was
  called; the commit is hidden in `notify_admins`; two administrators may decide
  one proof. Correct means: completed only if paid, nothing paid without a record,
  announced once, the member told what the record says, records that follow one
  path.
- **Accounts.** Registration passes through three commits in which the account
  is active before it is put to approval; password reset, verification, import,
  approval, rejection and restart act on the same columns from stale reads, and an
  edit may set either of the two columns that say "active" alone, the one to any text.
  Correct means: a registration becomes active only because an administrator or a start
  let it in, the two columns agree but where an edit set them apart, mails are true when
  sent, administrators hear of it.
- **Events and announcements.** Counters are added to in Python; deletions of
  members, events and announcements race with registrations and views. Correct
  means: exact when requests do not overlap, bounded damage when they do, nothing
  left behind by a deletion.
- **Dues.** One session serves a long background task of notices, while members of
  its list are deleted; what is owed is found by comparing texts, by three pieces of
  code that differ. Correct means: who is not told has a cause, everybody listed is
  mailed, the three views do not contradict one another.
- **Deployment.** The script that starts the server loses the exit status of the
  upgrade, and start-up then changes the schema itself, so migrations and
  `create_all` work on one database without knowing of each other; the history has
  branches, revisions without statements and one version that no file explains any
  more. Correct means: an upgrade is all or nothing, the version tells the schema, a
  failed deployment leaves the next its chance, no step loses payments, and a server
  that says it is initialized has its tables.
- **Roles.** Operations of two commits; permissions, and the roles of a member, that
  are read and then replaced; deletion after a count; names that need not be
  unique; a start-up that restores. Correct means: a role grants and a member holds
  what was asked last, more only after an overlap; the built-in roles stay; a start
  always gives the first superuser control again.

`PROJECT.json` lists 40 hazards at their lines; those without a property carry the
reason, or the module of the plan that would state it.

## 2. Modules

| module | models | state and actions in the code |
|---|---|---|
| `PaymentLedger` | the promise: each entry moves along one path, a paid entry has a record | no handler, session or network |
| `Payments` | payments, provider, record-payment, deletion of a member | `status`, `reason` are columns; `charge`, `issued`, `hook` the provider's side; `task` the coroutines, `thread` the pool's handlers; one action per commit or await |
| `MCPayments` | one loop (as deployed), or two (two processes while one version replaces another) | `LoopOf` |
| `PaymentsProofs` | theorems about the records of `Payments` | |
| `PaymentNoticesProofs` | theorems about what is told of them | |
| `Accounts` | one row per address under registration, decisions, edits, confirmation, deletion, restart | `row` the columns, `thread` the handlers with what they had read (`seen`) and what an edit asks (`ask`); `Write` is the UPDATE of changed columns, `Patched` the dump of a PATCH body without what it leaves out |
| `Admission` | the promise: a registration moves only by a decision an administrator has in hand, by the confirmation such a decision left it to, and by starts; and what is written about a decision is so | `hand` the decisions under way; no handler, column or session |
| `MCAccounts` | the edits of the runs | `SomeEdits`, `OneEdit` |
| `AccountsProofs` | theorems about `Accounts` | |
| `Events` | one event and its registrations | `RegisterRead`/`RegisterCommit`, `UpdateRead`/`UpdateCommit`, deletions |
| `Announcements` | one announcement and its views | `ViewRead`/`ViewCommit`, deletions |
| `Engagement` | events and announcements over one set of members: one pool of threads, one deletion that cascades into both | extends `Events`, instantiates `Announcements` |
| `MCEngagement` | threads are interchangeable | symmetry |
| `EngagementProofs` | theorems about `Events`, and about its composition with announcements | |
| `Dues` | one due, the task that tells the members of it, and what each member owes | `due` the row; `task` the background task with the members left (`todo`), the state of its session and the try of the e-mail (`try`); `mailed`, `refused` what the provider did with a member's e-mail; `paid`, `review` the descriptions of a member's payments; `Owes`, `Overdue`, `Outstanding` the three computations |
| `MCDues` | titles, one of them with a bar, and what payers write | `CutAtBar`, `Purposes` |
| `DuesProofs` | theorems about `Dues` | |
| `Roles` | roles, permissions, who holds them, start-up | `name` the role rows, `grants` and `held` the rows of `RolePermission` and `UserRole`; `thread` the requests with what they read; one action per commit; `Restart` is `init_db` |
| `RoleDirectory` | the promise: creating, renaming, filling and deleting a role, giving a member roles and a start happen at once, and change nothing else | no request, row or session |
| `MCRoles` | one built-in role, lists of at most one permission | `OneBuiltIn`, `SeededOnce`, `AtMostOne` |
| `RolesProofs` | theorems about `Roles` | |
| `Schema` | a PostgreSQL schema as the set of facts that hold of it; the operations of alembic's `op` | an operation is what it needs, what refuses it, what it removes and makes; `Run` is a sequence of them in one transaction |
| `ProductMigrations` | `upgrade()` and `downgrade()` of the revisions of the product this backend grew out of | `Up_r`, `Down_r` per revision file, statement by statement |
| `AlumniMigrations` | the same for the revisions since | |
| `Migrations` | the history the revisions form: parents, branches, merges, the schemas it leads to | `Parents` (each file's `down_revision`), `Lineage` (a revision and all it follows), `UpgradeOf`, `DowngradeOf`, `Replayed`; the tables no migration makes |
| `MigrationsProofs` | lemmas about statements, revisions and their order | |
| `Deployment` | the container's life and the database's: script, upgrade, start-up, serving, stop, steps and repairs by hand | `schema` and `recorded` what is committed, `tx` the transaction of a running upgrade, `phase` where script or server is |
| `MCDeployment` | four databases a deployment may meet | `AllOrigins` |
| `DeploymentProofs` | theorems about `Deployment` | |

**Grain.** An action is what happens between two points where another request can
intervene: a commit, or an await. A `...Read` action stands for everything from
the start of the handler to its first commit or await that only reads; its checks
are the guards. A handler that refuses a request (404, 400) changes nothing and is
a disabled guard, except where it fails at its commit.

**Failures.** `faults` counts failed commits, failed handlers and restarts,
bounded by `MaxFaults`. `TaskFails`/`ThreadFails` end one handler anywhere with
its uncommitted work lost; `Crash`/`Restart` end all of them. Failures the code
swallows are alternatives of the action. In `Events` and `Announcements` failing
is free.

**History variables** (`pended`, `granted`, `early`, `released`, `uneven` of `Accounts`; `booked`, `overlapped`,
`edited`; `everViewed`, `viewsOverlapped`; `listed`, `told` and `mailed` of `Dues` once
the task is over; `asked`, `given`, `overlapped`, `mixed`, `disturbed` of `Roles`; `startedUp`, `byHand` and `troubled`
of `Deployment`) record what happened and are read by properties only. `origin` of
`Deployment` is what the database was when the history began; single steps down stop there.

**Faulty variants.** A definition directly above another of the same parameters is
a faulty variant of it that no action uses (`NoReason` above `GiveReason`).
With it in place of the original the property named in `PROJECT.json` fails, which
shows that the run can see the fault.

### Assumptions and abstractions

- *Payments.* Amounts, currencies and texts are left out. At least one
  administrator exists (start-up seeds one), so `notify_admins` always commits.
  An unknown reference and an HTTP error are answers that decline. The e-mail after a
  rejection is not tracked. A receipt thread uses the session of a finished request, so
  that it succeeds or not is a free choice.
- *Accounts.* `UserCreate` has no `is_verified`, so what registration passes for it
  is dropped. A PATCH (`users.py:633`) sets `status`, which is free text, or `is_active`,
  or both to anything: `Edit` is that set, where "deactivated" stands for every text no
  handler asks for, and the theorems hold for all of it. Its other columns are not
  modelled; it may not change the address.
  An address is not used again after its deletion.
  Social login of an existing account changes no modelled column. Three history
  variables name what edits may do to the properties. An edit made
  while an account is still being created is recorded in `early`, and the
  properties that compare columns or mails leave such accounts out: the
  registration then overwrites the edit's columns one by one. An edit of a registration
  to "pending" lets the next confirmation or password reset make it active
  (`login.py:255`), without a decision after it and in the column `status` alone: such an
  account is `released`, and the edit itself counts as letting it in (`granted`). An edit
  that sets the two columns apart makes the account `uneven` until the next approval,
  rejection, rescue or edit of both columns; only `StatusAgreesWithActive` leaves it out.
- *Events.* One event suffices: events do not influence each other. The event and
  an earlier registration are read in one step; a registration committed between
  the two queries only makes the request fail. An organiser changes one column in a
  request and the counter only to zero. Attendee counts are any integers (the
  code does not validate them).
- *Announcements.* An update writes no modelled column.
- *Dues.* One due suffices: each has a task of its own, and other titles stand for
  other dues. A title may hold a bar, at which the dashboard cuts a description and the
  member list does not: `CutAtBar` gives what is left of a title, which may be the title of
  another due. Titles contain no comma, do not begin with `dues:` and do not end
  in `| Date: ...` (nothing in the code forbids it; the parsing of descriptions relies
  on it). A description is a record: a list or a single title, the titles, and whether a
  date follows. Amounts are not compared with what was paid, as in the code; of a due's own
  it matters only whether it is above zero (`free`), because the member list adds up what
  is unpaid. A payment is the
  set of descriptions that are completed or under review; its own life is the
  subject of `Payments`.
  The order in which the task serves its list is free. An e-mail refused with
  Postmark's own error is tried again, up to three times; any other error ends the
  member's turn. Both may have been raised after the provider had accepted the e-mail.
  The waits between tries are left out.
- *Roles.* Accounts are neither made nor deleted, and permissions exist from the
  start. The keys of rows are random in the code; here a batch number tells the rows
  of one request from those of others, which is all a deletion by key needs. Whether
  the database makes names unique is a constant: the migrations do
  (`add_rbac_tables_and_user_roles.py:27`), `create_all` does not (`models.py:274`). The
  read of the permissions an update will replace follows its first commit at once;
  what another request commits in between might as well have come before that commit.
  An account's edit reads the member, the roles and the rows in one step. A request
  in flight has passed its check of permissions and keeps the right. Start-up
  asks for the role of a name twice and is taken to get the same row.
- *Deployment.* Types, defaults, lengths and nullability of columns are left out,
  except that a required column without a default is refused on a table with rows and
  that the id of `user` changes from an integer to a UUID. Rows matter only where a
  statement or a property asks for them (`Rows`). PostgreSQL's default names
  of constraints and indexes are told by their columns. A revision's inspector reads the
  schema at its start. Alembic's choice between two branches is left open. All
  revisions of an `upgrade head` are one transaction (`alembic/env.py:75`). Nobody
  deploys while a server is running: two containers at once on one database, as in a
  rolling deployment, are not modelled. What made the copilot hub's tables and what
  the earlier release of the server made is outside the repository; only the
  columns that later revisions alter are known of them.

## 3. Runs

| run | instance | states | shows |
|---|---|---|---|
| `payments_one_loop` | 1 member, 1 online reference and 1 manual payment, 2 tasks on one loop, 2 threads, 1 deciding administrator, 1 fault, fair | 65,542 | `ConfirmedOnce`, `MemberToldTheTruth`, `ReasonMatchesStatus`, refinement of `PaymentLedger`, `AnsweredSettles` |
| `payments_two_loops` | 1 member, 2 references, 2 tasks on 2 loops, 1 fault | 1,213,100 | `CompletedWasPaid`, `PaidHasRecord`, `AdminsToldWithSettlement`, `Books` |
| `payments_race` | 2 deciding administrators | violation | `OnlyPendingRejected` |
| `payments_webhook` | the member pays and does not return | violation | `WebhookRecords` |
| `accounts` | 1 address (also the one start-up re-enables), 2 requests, one of them an administrator's, 3 edits (status alone to "pending" or another text, `is_active` alone), 1 fault, fair | 805,828 | `ActiveWasApproved`, `StatusAgreesWithActive`, refinement of `Admission`, `RegistrationIsAnnounced` |
| `accounts_take_over` | as above with 1 edit (both columns), no fault | violation | `InactiveCanRegister` |
| `engagement` | 2 members (one the host), 2 requests, seats and capacities 1..2, no bound on failures | 1,566,406 | `SequentialIsExact`, `CounterNeverAhead`, `ViewsCountMembersOnce`, `NoOrphans` |
| `engagement_double` | the same, 1 seat, capacity 2 | violation | `OneRegistrationEach` |
| `dues` | 2 members, 1 of them paying, the e-mail of the other refused at will, 3 titles (one with a bar), due free or not, the purpose a list of 2, 1 fault, fair | 332,084 | `UntoldHasCause`, `ListedAreMailed`, `RepeatedByRetryOnly`, `ViewsErrOneWay`, `ReviewEndsWithDecision` |
| `roles` | 1 built-in and 1 further role, 2 names, 2 permissions, 2 members, 2 requests at a time and 4 in all, names not unique, no bound on failures and restarts | 280,255 | `GrantsFollowRequests`, `HoldingsFollowAssignments`, `SystemRolesStay`, `RestartRestoresRoot`, refinement of `RoleDirectory` |
| `dues_silenced` | 2 members, no payments, no fault | violation | `AllMembersTold` |
| `deployment` | the whole history of 54 revisions; a database that is empty, one of the product at the revision of the copilot hub, one of the earlier release, one with an unexplained version; no bound on failures, fair | 12,012 | `UpgradeIsAtomic`, `VersionTellsSchema`, `RetryKeepsItsChance`, `PaymentsSurvive`, `InitializedHasTables`, `StartInitializes`, `DeployEnds` |

**Why the bounds are enough.** Payments of different members and references share
nothing but the loop and the pool, so one reference with several requests shows
every interleaving about it; two tasks are two verifications, or one and an
initialisation, or an offline payment that holds the loop. One second in which two
requests begin repeats a reference; `MaxSecond = 1` in `payments_two_loops` gives a second
one beside it. What three tasks could do together is covered by the theorems. Accounts touch one another only
through the unique address, which one address under two registrations covers. The three edits
are those that set the columns apart or leave an account to a confirmation; the theorems
hold for all edits.
One fault at every possible place covers every single failure; two failures in one
handler are not covered by TLC, while the theorems hold for any number. Two
overlapping requests are the least that shows a lost addition; two members
distinguish the host, whose deletion removes the event, from the others. In `Dues`
two members are the one deleted and the one silenced by it, and payments of
different members do not meet, so one payer suffices; the list of two
titles has one all views read, then one with a bar, which only the member list reads, and
not with a date after it; the dashboard reads the third title in its place. A single title
is read like the last of a list, and `ViewsAreOrdered` covers all titles and descriptions. The refusals of two members' e-mails do
not meet, so one member refused (up to three times) suffices. In `Roles` two requests overlap and the four in all suffice to create a
role, give it away, and change it twice; more of either adds nothing the theorems do
not cover; uniqueness of names only takes behaviours away. `Deployment` has no bound: its
schemas are those the history can lead to. The four databases are those the
code itself speaks of: the one CI starts from, the two whose tables its revisions alter
without making them, and the one its repair script names. Each faulty variant is found within these bounds.

**Deadlock** is checked in the payment runs (time, deletions and failures leave
something possible until they reach their bounds, and requests can always start).
A server can always restart in `roles`, and a stopped one can always be deployed in
`deployment`; `accounts`, `engagement` and `dues` stop when everything has been deleted,
and say so.

**Fairness.** `Payments`: weak fairness of each running coroutine: every provider
call has a timeout of 30 seconds (`paystack/provider.py`), so an await ends; strong
fairness of resuming one whose answer has arrived, because the loop keeps a queue
of ready coroutines and serves it in turn, although others hold the loop in
between. Strong fairness of the webhook in `payments_webhook`: the provider
repeats deliveries. `Accounts`: weak fairness of what a registration does once
its row is there: the operating system schedules threads. `Dues`: weak fairness of the background task,
which the framework runs in the thread pool once the response is sent. `Deployment`:
weak fairness of the script's wait (it gives up after 300 tries), of the upgrade and
of start-up, which are sequential programs; no failure has to happen, and nobody has
to deploy, pay or repair. Nothing
obliges a member, an administrator or
the clock to act, and nothing is assumed to be fair in the other runs.

### Findings

Disagreements between the code and what it says of itself, each shown by a run:

1. `payments_race`: two administrators with one proof: a rejection is committed over
   an approval although "Only payments pending verification can be rejected"
   (`payments.py:331`).
2. `payments_webhook`: the webhook "to verify and record payments asynchronously"
   (`payments.py:400`) uses a name it never imports (line 414); each signed
   delivery fails and a member who does not return keeps a pending row.
3. `accounts_take_over`: an inactive account can not be taken over by registering
   (`users.py:443` says it can): line 447 reads a field the request does not have.
4. `engagement_double`: "You are already registered for this event"
   (`events.py:232`) is checked without a key: two overlapping requests of
   one member both register.
5. `dues_silenced`: creating a due tells "all members" (`dues.py:16`), and line 32
   logs a notice that fails and goes on to the next; but the failed INSERT leaves the
   session unusable, so one member deleted while the task runs silences all who
   follow.

Not shown by a run: a due whose title holds a bar can not be settled on the dashboard by
naming it, while the member list shows it as paid (`dashboard.py:141`, `users.py:165`), the
one direction in which the two views contradict each other for a member who paid;
`ViewsErrOneWay` excepts it by name. A start is to "Re-enable admin@fgceosa.org"
(`main.py:119`) and may leave that account locked out: line 124 asks for `is_active` alone,
and an edit of `status` alone leaves that column true, while sign-in reads `status`
(reachable in `Accounts`). `delete_user` with `force=true` (`users.py:722`) names models
that no longer exist, so it always fails. Reachable in `Roles`, and the reason why its
properties except requests that overlapped: two overlapping identity-role updates leave
a member two roles ("Strictly one role", `user_repository.py:184`); two overlapping
updates leave a role the union of their permissions; a role is taken from a member
who was given it while `delete_role` was under way ("Roles assigned to users
cannot be deleted", `routes/roles_permissions.py:83`). Without any overlap, a
permission taken from a built-in role comes back at the next start, and where
names are not unique an update may give a role the name `super_admin`, which
creation refuses ("Role with this name already exists").

What the modules of the migrations show about the history, each evaluated by TLC
but not the subject of a run:

- `upgrade head` fails on an empty database at b066, which alters tables of the copilot
  hub that no revision makes (f96d, fix_credit_transfer_cascade, 2cb8, ff95 and eb29
  would fail next). A fresh database is one `create_all` made and nobody stamped; the
  step "Test upgrade to head" of `validate-migrations.yml:119` cannot pass, and
  "downgrade -1" (line 130) is refused at a merge.
- From a database of the product the upgrade is refused at 2563 and 070c, which alter
  what only an earlier release of the server made; from that release's all later
  revisions apply.
- Once a server has started, its `ALTER TABLE payment` makes a1b2 fail from then on
  (it adds the same columns); a start before ab55 makes ab55 fail for ever, because
  `create_all` has made its tables. So a lost connection during the first
  deployment, which the script hides and the server starts after, makes every later
  upgrade impossible: `RetryKeepsItsChance` speaks only of databases no start-up has
  changed.
- `migrate.sh` prints "Migration completed successfully!" (line 24) also after a refused
  upgrade: `|| true` (line 20) loses the status, and its healing branches are
  unreachable. `stamp_db.py` does nothing to an empty version table.
- Downgrades are refused at 1a31, b066, 15ac, f96d, add_org_id_to_role, 2cb8, 3f33,
  a2d1, 36eb and ab55; that of fix_credit_transfer_cascade leaves renamed references,
  that of 6e60 two tables (`platform_settings`, `security_event`), which
  `VersionTellsSchema` excepts. ab55's, which would drop payments, is refused by a
  reference it has just made: `PaymentsSurvive` hangs on it.
- 1eff is refused when payments exist (required columns without a value).

Of what holds, some is worth knowing because it hangs by a thread: `ConfirmedOnce`
needs the single event loop (with two processes a payment can be announced twice);
`MemberToldTheTruth` and the refinement of the ledger need one deciding
administrator; the refinement of `Admission` too (two who approve and reject one account at
once both send their mail); `RestartRestoresRoot` speaks of the roles of the first
superuser after a start that succeeds: an account switched off is refused at every
request (`deps.py:53`) and a start that fails gives nothing back; `ActiveWasApproved` holds only because an UPDATE writes
changed columns and not the whole row.

## 4. Proofs

TLAPS checks these for every value of the constants, under the named
assumptions of the modules: `SecondAssumption`, `FaultAssumption` (bounds are
natural numbers), `SlipAssumption` (manual references differ from times),
`ReviewerAssumption` (reviewers are threads); `AdminsAssumption` (administrators' requests are
requests), `RescuedAssumption` (the address start-up re-enables is one), `EditsAssumption` (edits are bodies of a PATCH), `FaultsAssumption`; `SeatsAssumption` (integers),
`CapacitiesAssumption` (natural numbers), `HostAssumption`; `PayersAssumption`
(payers are members), `PurposesAssumption` (what they write is a purpose),
`CutAssumption` (what is left of a title is a text without a bar),
`BouncingAssumption` (those refused are members), `FaultsAssumption`; and of `Roles`, `NamesAssumption` (the names that matter are names),
`BuiltInAssumption` (built-in roles differ), `SeededAssumption` (the role of the first
superuser may manage roles), `ListsAssumption`, `RootAssumption`, `BatchesAssumption`,
`RequestsAssumption`; of `Deployment`, `OriginsAssumption` (each database the history
begins with is one of those described, at a version its revisions can reach), which TLC
evaluates for the four.

**Payments.** `TypeCorrect` by one step per action, with lemmas on the control
operators (`TaskMoveTyped` and its like). `CompletedWasPaid` is not inductive: that
a coroutine about to complete a row may do so depends on the answer it holds
(`AnswersAreTrue`), on rows keeping to their kind (`OnlineRows`, `ManualRows`,
`ReviewsManual`) and, for `PaidHasRecord`, on the order row, URL, payment
(`IssuedHasRecord`, `TakenWasIssued`, `DeletedHasNoRows`). Their conjunction
`Books` is inductive given the types: `BooksInit`, `BooksStep` (one case per action;
`QuietStep` for those that touch neither rows nor charges), `BooksAreRight`; the
corollaries are `CompletedOnlyIfPaid`, `PaidIsRecorded` and `OneUrl`.
`ImplementsLedger` shows that `Payments` implements `PaymentLedger` if at most
one thread decides (`OneReviewer`), by the further invariant that a decision in
flight finds its proof still undecided (`Undecided`), and step simulation.
`AnswersAreKept` is the safety half of `AnsweredSettles`: while a record is pending, no
approval, other verification, webhook or deletion of somebody else takes it from under the
coroutine that holds the provider's answer, which goes on to the settlement and nowhere else
unless its member goes or something fails.

**What is told of payments** (`PaymentNoticesProofs`). One lemma per handler step
says what it does to rows, notices and the places of handlers (`SettleDoes`,
`ConfirmationDoes` and their like), `PaymentSteps` that every other step is `Aside`:
it writes no row and tells nobody. From these, `AdminsAreTold` needs
only `Books`. `ReasonsMatch` and `ToldTheTruth` hold under `OneReviewer`: `ToldRight`
says of each handler that has decided and not yet told that the record is still as it
decided. `OnceEach` holds under `OneLoop` (all tasks on one event loop): one task at a time
is past its last await (`Solo`), so a verification that found the row pending
still finds that nothing was told of it (`Once`), however many others hold answers.
`RecordsOnlyGoForward` needs neither `OneReviewer` nor `OneLoop`: it is what remains of the
ledger without them (a record begins while its member is there, is settled or decided,
never submitted again, and goes with its member only); what may fail then is that a
rejection finds the record pending.

**Accounts.** `ActiveWasApproved` rests on `Approvals`: at most one request makes an
account (`OneMaker`), what was put to approval is not made again (`PendedAreMade`), what is
being made is active, and its maker has read that, unless somebody let it in or took its
status away (`MadeAsActive`), who has read a row read one that
was there (`ReadersSawRows`), and the status a confirmation turns into active belongs to
invitations, and to accounts an administrator left in it (`PendingWereLetIn`). It holds for
every edit a PATCH can ask for. `TypeOK` needs that a request
that makes an account has read it since the insert (`MakersHaveRead`). `StatusAgreesWithActive` and
`MailIsTrue` hold under `OneAdmin`, at most one request of an administrator at a time, by the
further invariant `Agreement`: what an administrator's handler has read is current when it
commits (`DecisionsAreCurrent`), and "pending" registrations were left so by an edit
(`PendingAreReleased`), so that a decision writes both columns together unless an edit set
them apart. `Written` says once what an UPDATE of changed columns leaves, `PatchedRow` what
an edit does.
`ImplementsAdmission`, under `OneAdmin` too: the handlers implement `Admission`, where each
decision an administrator has in hand falls on the account as it was found. A registration
stands where its status says, once it has been put to
approval; accounts of another origin and those edited while they were being made
count as never registered (`Standing`). Each step but a start moves at most one of them
(`BecomeMaps`, `StandMaps`): who begins a decision takes it in hand (`HandTaken`), a
commit finds the status that was read (`DecisionMaps`, by `Agreement`) and lets it go
(`HandLetGo`), a confirmation moves only who was left to it (`ConfirmMaps`), who else reads
or makes an account moves nobody (`ReadersLeaveStanding`, by `Approvals`), and a start lets
in some of the rescued that are out (`RestartMaps`): it goes by `is_active`, which an edit
may have set apart from the status. The abstract module
allows a decision on an active account only for those an edit left to a confirmation, which
may come between its reading and its commit. That a decision mail is true when it is sent
(`MailIsTrue`, which no run states on its own) is the step `Tell` of `Admission` in terms
of the columns. With two deciding administrators a rejection may fall on an account the
other one has just approved, a step `Admission` does not have.
`RegistrationsAreAnnounced` holds for any number of administrators: without failures, whoever
was put to approval has had the e-mail and the administrators were told, or the request is
still at it (`PendedAreAnnounced`, inductive with the types). `SignUpsGoOn` is the step by
which it gets there: a sign-up that is under way goes through its commits, the e-mail and the
notices in their order, and ends earlier only if its account was deleted or something failed.

**Events.** `Books` of `EngagementProofs` adds two facts about handlers in flight to the
properties: what a registration has read bounds what it will write
(`SeenIsBounded`), and as long as no two overlap it is still the current
counter (`SeenIsFresh`). One lemma per action. The integer seat count matters: a
registration of zero or fewer seats passes the capacity check, and exactness is
proved for it as well.

**Composition.** `EngagementImplementsEvents`: each step of `Engagement` is a step
of `Events` or leaves it alone, so the theorems about events hold beside
announcements and deletions (`BookingBesideOthers`, `CounterBesideOthers`). It also
implements `Announcements` (`AnnouncementsImplemented`). There the invariant `ViewsBooked`
says how the counter, the views and the handlers about to write it belong together; as a set of
members grows by one at a time, the library's facts about cardinality give
`ViewsAreCountedOnce`. `NothingIsOrphaned` joins both halves.

**Dues.** `UntoldHasCause` speaks of the end of the task; the invariant `Notices`
carries its reason through the task: those left are listed and not told
(`LeftAreUntold`), a usable session has told everybody whose turn has come, and a
failed one has met a deleted member (`SessionTellsWhy`). `QuietStep` disposes of
all actions outside the task; what it needs of them is that no deleted member comes
back. `ViewsAreOrdered` and `ReviewSettles` need the types at most: they compare
the parsing of descriptions in the three places for every description, of any number of
titles, with bars or without: where no bar cuts a name off, the dashboard reads what the
member list reads (`DashboardReadsMore`). `RepeatsAreRetries` rests on `Mails`: nothing was sent to those
left, and the tries so far of the e-mail being sent were all refused. `NobodyIsLeftOut` says
of a task that ended without failures that every listed member was answered for good, the
e-mail accepted or refused as often as it is tried; until the end whoever was not is still to
come or is being mailed (`Remembered`). `TasksMoveOn` gives the order in which it gets there.

**Roles.** All properties of the run are theorems. `SystemRolesAreKept`: the roles the
first start made keep their names because no request in flight is about to rename or
delete one, whatever name it read (`BuiltInsKept`). `GrantsAreAsked`: `GrantBooks`
adds that two requests about to replace the permissions of one role know of each
other (`SettersMeet`), that one that met nobody still has read all rows of the role
(`SeenIsFresh`), and that an unused key has neither rows nor requests.
`HoldingsAreGiven`: `HoldBooks` says the same of members (`GiversMeet`, `SeenCovers`),
and of deletions that whoever gives the role has met them (`DeletersMeet`) and
that nobody else holds it (`RemovedIsUnheld`), which is what the count of holders
is for. `OneMoves` and the lemmas `QuietGrants` and `QuietHolders` dispose of the
actions that concern other rows. `RootIsRestored` needs only the types.
`ImplementsDirectory`: the requests implement `RoleDirectory`, where a role has a set of
permissions and a member a set of roles, and each operation is one step. A commit that
replaces rows is the exact operation if nothing overlapped it, because of
`SeenIsFresh` and `SeenCovers`, and otherwise one that leaves some of what was there; a
deletion takes a role only from members whose roles an overlap has mixed
(`RemovedIsUnheld`), and a second one shows nothing, for which a deleted role has to
stay bare (`GoneIsBare`). Reads, failures and flags show nothing.

**Statements and revisions** (`MigrationsProofs`). What 54 files of statements do to a
schema is proved from what one statement does. `Run`, `Lineage` and `Replayed` are
recursive functions; a theorem about them names the set of natural numbers for which
it holds and shows that set to be all (`SetInduction`, from the well-foundedness of `<`),
over the stages a run goes through (`RunStages`). `RunKeeps` and `RunMakes` carry a fact
through a sequence of statements none of which removes it. Each upgrade keeps the
payments, the tables once made and what is known of `user` (`UpgradesKeep`) and makes its
own part of `user` (`UpgradesMake`); each downgrade keeps the payments
(`DowngradesKeep`), that of ab55 because it never gets to its end
(`TransitionStays`: no schema whatever lets it drop `payment`). Apart from rows that
could or could not be there a revision leads from one schema to at most one (`RunDeterministic`).
The lineages order the revisions: each is in its own, they are transitive, and no two
revisions follow each other (`LineageIs`, `LineageOrders`, from `ParentsEarlier`, one
case per file); `LatestFollowsAll` says that there is a single head, and `StraightIsWhole`
that a revision where the history does not branch is preceded by exactly those before it.
`ReplayMakes`: a history replayed has made what all its revisions make. `ReplaySplits`: to
replay revisions is to replay the first of them and then the others.

**Deployment.** No theorem looks at a reachable schema.

- `TablesAreThere`: past `create_all` all tables of the models are there (`CreatedServes`,
  from what a CREATE TABLE makes), and `initialized` is set by nothing but the last step
  of a start-up that got there (`Started`).
- `TypeIsRight`: versions are revisions of the history or the one without a file.
- `AtomicUpgrades`: that an upgrade which commits has reached the head needs that
  alembic's version table never holds a revision beside one that follows it
  (`OneRowPerBranch`). Recording a revision in place of its parents keeps that
  (`RecordingKeepsAntichain`), stamping does since it replaces all rows; and a set of
  that kind under which nothing is due is the head alone (`NoneDueAtHead`).
- `PaymentsAreKept`: `PaymentsCarried` says that the transaction of a running upgrade still
  has the payments of the committed schema. From there each statement of each
  revision, up and down, in whatever order and on whatever schema, keeps them.
- `StartsInitialize`: on a database whose version alembic alone has written, start-up is
  not refused by the schema. `create_all` is refused if a table it makes refers
  to `user` by a key `user` does not have, and seeding if it selects a column that is not
  there. `Sound` gives both: each applied revision has made its part of `user` and nothing
  took it back (`MadeBy`, which a downgrade removes from the claim along with the
  revision; `MadeOnce`), the tables of roles are whole if they are there (`RolesWhole`),
  and at the head all parts together are what the models ask (`AllIsMade`). `StartsRight`
  carries it through the phases of start-up.
- `OneRowAlways`: the version table never has more than one row, and that row is a revision
  all of `History` before which is applied. The history branches in four places, but no
  deployment stops inside one: a single step forward is refused where it branches, one back
  where branches meet, and an upgrade commits the head (`OneVersion`, by `StraightIsWhole`).
- `ChancesAreKept`: who can still upgrade to the head can after every step but a start, a
  payment, a step back and `stamp_db.py`. A deployment that fails leaves what it found, one
  that commits is at the head (`HeadHasChance`), and a single step forward takes one of the
  steps the whole upgrade would take (`ForwardKeepsChance`, from `ReplaySplits`).
- `DeploymentsMoveOn`: a step of the container ends it, takes it to a later phase
  (`Course`) or applies one more of the 54 revisions.

**Model-checked only:**

- Liveness (`AnsweredSettles`, `RegistrationIsAnnounced`, `ListedAreMailed`, `DeployEnds`),
  which is outside the prover. What the steps contribute to each is proved
  (`AnswersAreKept`; `SignUpsGoOn` and `RegistrationsAreAnnounced`; `TasksMoveOn` and
  `NobodyIsLeftOut`; `DeploymentsMoveOn`); TLC adds that under the fairness stated they
  are taken.
- `VersionTellsSchema` and `RetryKeepsItsChance` of `Deployment`. Both compare whole
  schemas: that a revision and its downgrade undo each other, fact by fact, over some fifty
  files of data, and which of the revisions commute. The provers cannot evaluate those
  files as TLC does. `OriginsAssumption` allows no database but the four described, and the
  run takes all four and bounds nothing, so its answer is not about a smaller instance. Of
  the two, `OneRowAlways` and `ChancesAreKept` are the parts that no schema enters into.

Of the invariants and action properties of all other passing runs every one is a theorem.

## 5. Plan

In order of importance. Done, each with its runs and proofs:

1. `Payments`, `PaymentLedger`, `PaymentsProofs`, `PaymentNoticesProofs`.
2. `Accounts`, `Admission`, `AccountsProofs`.
3. `Events`, `Announcements`, `Engagement`, `EngagementProofs`.
4. `Dues`, `DuesProofs`.
5. `Roles`, `RoleDirectory`, `RolesProofs`.
6. `Schema`, the migrations, `Deployment`, `MigrationsProofs`, `DeploymentProofs`.

Left:

7. `Services`: the settings row two first readers insert (`system_settings.py:18`),
   membership ids (`membership_generator.py:37`). Each is small and meets the other modules only through
   calls that may fail, which those already take into account.
8. A second container beside the first in `Deployment`.

## 6. Not modelled

The columns of a PATCH other than the two that say "active"; read-only endpoints (lists,
dashboard, analytics, exports); the formatting of receipts and mails; passwords and
tokens; the Monnify provider, rate limiter, cache and Celery, which nothing uses; the
credit allocation endpoints of `users.py`, which name classes that no longer exist;
local-only routes; the repetition of e-mails other than those of a due, the settings row
and membership ids (section 5); the maintenance scripts that address tables of the
earlier product, and `auto_merge_migrations.py`, which writes revision files.
