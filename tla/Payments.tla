------------------------------ MODULE Payments ------------------------------
(***************************************************************************)
(* The payment records of the association: online payments made through    *)
(* the payment provider (initialised, then verified when the member is     *)
(* sent back), bank-transfer proofs submitted by members and decided by    *)
(* administrators, offline payments recorded by an administrator, and the  *)
(* deletion of a member, which deletes the member's records.               *)
(*                                                                         *)
(* The grain of atomicity is a database commit, or an await.  "async def"  *)
(* handlers (initialize, verify, record-payment) are Tasks of an event     *)
(* loop: between two awaits no other task of the same loop runs.  "def"    *)
(* handlers (submit-proof, approve, reject, delete user) are Threads of    *)
(* the thread pool and interleave with everything.                         *)
(*                                                                         *)
(* A definition placed directly above another of the same parameters is a  *)
(* faulty variant of it that no action uses: with it in place of the       *)
(* original, a property named in PROJECT.json must fail.                   *)
(***************************************************************************)
EXTENDS Naturals, FiniteSets

CONSTANTS
    Users,      \* members (those an administrator may delete)
    Slips,      \* distinguishes the manual payments of one member
    MaxSecond,  \* bound: the clock stops at this second
    Tasks,      \* requests in flight on the event loops
    Threads,    \* requests in flight in the thread pool
    Reviewers,  \* the threads among them that serve approve and reject
    LoopOf,     \* LoopOf[t]: the server process whose event loop runs task t
    MaxFaults   \* bound: number of failed commits, failed handlers, crashes

ASSUME SecondAssumption == MaxSecond \in Nat
ASSUME FaultAssumption  == MaxFaults \in Nat
ASSUME SlipAssumption   == Slips \cap Nat = {}
ASSUME ReviewerAssumption == Reviewers \subseteq Threads

VARIABLES
    now,        \* the second shown by the clock, which names references
    members,    \* users that have a row in the user table
    status,     \* status column of each payment row; "absent": no row
    reason,     \* does the row carry a rejection_reason?
    charge,     \* provider: state of the charge with this reference
    issued,     \* number of payment URLs handed out for this reference
    hook,       \* provider: outcome of its last webhook delivery
    task,       \* the coroutine of each task: where it waits, and for what
    thread,     \* the same for the handlers of the thread pool
    told,       \* in-app notifications ever sent to the member
    adminTold,  \* in-app notifications ever sent to the administrators
    mail,       \* receipt threads started and not finished
    receipts,   \* receipt emails handed to the email provider
    faults      \* failures so far

vars == <<now, members, status, reason, charge, issued, hook, task, thread,
          told, adminTold, mail, receipts, faults>>
rows == <<status, reason>>
provider == <<charge, issued, hook>>
notices == <<told, adminTold, mail, receipts>>

(* A reference is the member and the second (online), or random (manual).  *)
Online  == Users \X (0..MaxSecond)
Manual  == Users \X Slips
Payment == Online \cup Manual
Owner(p) == p[1]

Status == {"absent", "pending", "pending_verification", "completed", "rejected"}
Charge == {"none", "open", "paid", "failed", "reversed"}
Notice == {"confirmed", "approved", "rejected"}

(* Where a task waits.  In the states of InLoop it runs database calls     *)
(* without awaiting, so it keeps its event loop for itself.                *)
Verifying == {"settling", "settled", "notified"}
InLoop    == Verifying \cup {"recorded"}
OnlinePc  == {"sending", "charged", "asking", "answered"} \cup Verifying
ThreadPc  == {"approving", "approved", "approval_told", "rejecting", "rejected"}

Idle == [pc |-> "idle"]
TaskState == {Idle} \cup [pc: OnlinePc, pay: Online]
                    \cup [pc: {"recorded"}, pay: Manual]
ThreadState == {Idle} \cup [pc: ThreadPc, pay: Payment]
                      \cup [pc: {"submitted"}, pay: Manual]

TypeOK ==
    /\ now \in 0..MaxSecond
    /\ members \in SUBSET Users
    /\ status \in [Payment -> Status]
    /\ reason \in [Payment -> BOOLEAN]
    /\ charge \in [Online -> Charge]
    /\ issued \in [Online -> Nat]
    /\ hook \in [Online -> {"none", "error"}]
    /\ task \in [Tasks -> TaskState]
    /\ thread \in [Threads -> ThreadState]
    /\ told \in [Payment -> [Notice -> Nat]]
    /\ adminTold \in [Payment -> Nat]
    /\ mail \in [Payment -> Nat]
    /\ receipts \in [Payment -> Nat]
    /\ faults \in 0..MaxFaults

Init ==
    /\ now = 0
    /\ members = Users
    /\ status = [p \in Payment |-> "absent"]
    /\ reason = [p \in Payment |-> FALSE]
    /\ charge = [p \in Online |-> "none"]
    /\ issued = [p \in Online |-> 0]
    /\ hook = [p \in Online |-> "none"]
    /\ task = [t \in Tasks |-> Idle]
    /\ thread = [h \in Threads |-> Idle]
    /\ told = [p \in Payment |-> [n \in Notice |-> 0]]
    /\ adminTold = [p \in Payment |-> 0]
    /\ mail = [p \in Payment |-> 0]
    /\ receipts = [p \in Payment |-> 0]
    /\ faults = 0

-----------------------------------------------------------------------------
(* Control of the handlers.                                                *)

LoopFreeOfThreads(t) == TRUE
LoopFree(t) ==
    \A o \in Tasks \ {t} : LoopOf[o] = LoopOf[t] => task[o].pc \notin InLoop

TaskBegin(t, pc, p) ==
    /\ task[t] = Idle
    /\ LoopFree(t)
    /\ task' = [task EXCEPT ![t] = [pc |-> pc, pay |-> p]]
    /\ UNCHANGED thread

TaskMove(t, from, to) ==
    /\ task[t].pc = from
    /\ task' = [task EXCEPT ![t] = [pc |-> to, pay |-> task[t].pay]]
    /\ UNCHANGED thread

TaskEnd(t, from) ==
    /\ task[t].pc = from
    /\ task' = [task EXCEPT ![t] = Idle]
    /\ UNCHANGED thread

ThreadBegin(h, pc, p) ==
    /\ thread[h] = Idle
    /\ thread' = [thread EXCEPT ![h] = [pc |-> pc, pay |-> p]]
    /\ UNCHANGED task

ThreadMove(h, from, to) ==
    /\ thread[h].pc = from
    /\ thread' = [thread EXCEPT ![h] = [pc |-> to, pay |-> thread[h].pay]]
    /\ UNCHANGED task

ThreadEnd(h, from) ==
    /\ thread[h].pc = from
    /\ thread' = [thread EXCEPT ![h] = Idle]
    /\ UNCHANGED task

Fault == faults < MaxFaults /\ faults' = faults + 1

(* notify_admins: a row for every administrator (there is always one, the  *)
(* seeded superuser), in the caller's transaction, which it commits.       *)
AnnounceOrGiveUp(p) == adminTold' \in {adminTold, [adminTold EXCEPT ![p] = @ + 1]}
Announce(p) == adminTold' = [adminTold EXCEPT ![p] = @ + 1]

-----------------------------------------------------------------------------
(* The environment: the clock, the provider and the member who pays.       *)

Tick ==
    /\ now < MaxSecond
    /\ now' = now + 1
    /\ UNCHANGED <<members, rows, provider, task, thread, notices, faults>>

(* A member pays through a URL the service handed out; a failed or         *)
(* abandoned attempt can be repeated on the provider's page.               *)
MemberPays(p) ==
    /\ issued[p] > 0
    /\ charge[p] \in {"open", "failed"}
    /\ charge' = [charge EXCEPT ![p] = "paid"]
    /\ UNCHANGED <<now, members, rows, issued, hook, task, thread, notices, faults>>

ChargeFails(p) ==
    /\ charge[p] = "open"
    /\ charge' = [charge EXCEPT ![p] = "failed"]
    /\ UNCHANGED <<now, members, rows, issued, hook, task, thread, notices, faults>>

ChargeReversed(p) ==
    /\ charge[p] = "paid"
    /\ charge' = [charge EXCEPT ![p] = "reversed"]
    /\ UNCHANGED <<now, members, rows, issued, hook, task, thread, notices, faults>>

(* The provider reports a paid charge to the webhook.  A signed delivery   *)
(* raises NameError at the first use of SystemSettings, which the module   *)
(* does not import: the answer is an error and no row changes.             *)
Webhook(p) ==
    /\ charge[p] = "paid"
    /\ hook' = [hook EXCEPT ![p] = "error"]
    /\ UNCHANGED <<now, members, rows, charge, issued, task, thread, notices, faults>>

-----------------------------------------------------------------------------
(* initialize: the provider is called first, the row is inserted after.    *)

InitializeSend(t, u) ==
    /\ u \in members
    /\ TaskBegin(t, "sending", <<u, now>>)
    /\ UNCHANGED <<now, members, rows, provider, notices, faults>>

(* The provider opens a charge unless the reference is already in use.     *)
ProviderOpensAndWeLink(t) ==
    /\ TaskMove(t, "sending", "charged")
    /\ LET p == task[t].pay IN
        /\ charge[p] = "none"
        /\ charge' = [charge EXCEPT ![p] = "open"]
        /\ issued' = [issued EXCEPT ![p] = @ + 1]
    /\ UNCHANGED <<now, members, rows, hook, notices, faults>>
ProviderOpens(t) ==
    /\ TaskMove(t, "sending", "charged")
    /\ LET p == task[t].pay IN
        /\ charge[p] = "none"
        /\ charge' = [charge EXCEPT ![p] = "open"]
    /\ UNCHANGED <<now, members, rows, issued, hook, notices, faults>>

(* It refuses, or the answer is lost, in which case it may have opened one. *)
ProviderRefuses(t) ==
    /\ TaskEnd(t, "sending")
    /\ LET p == task[t].pay IN
        \/ UNCHANGED charge
        \/ /\ charge[p] = "none"
           /\ charge' = [charge EXCEPT ![p] = "open"]
    /\ UNCHANGED <<now, members, rows, issued, hook, notices, faults>>

(* The row is inserted; a duplicate reference or a deleted member violates *)
(* a constraint of the table.  The URL is returned after the commit.       *)
InitializeCommit(t) ==
    /\ LoopFree(t)
    /\ TaskEnd(t, "charged")
    /\ LET p == task[t].pay IN
        /\ Owner(p) \in members
        /\ status[p] = "absent"
        /\ status' = [status EXCEPT ![p] = "pending"]
        /\ issued' = [issued EXCEPT ![p] = @ + 1]
    /\ UNCHANGED <<now, members, reason, charge, hook, notices, faults>>

InitializeRefused(t) ==
    /\ LoopFree(t)
    /\ TaskEnd(t, "charged")
    /\ \/ Owner(task[t].pay) \notin members
       \/ status[task[t].pay] # "absent"
    /\ UNCHANGED <<now, members, rows, provider, notices, faults>>

-----------------------------------------------------------------------------
(* verify: ask the provider, then settle the row without awaiting.         *)

VerifySend(t, p) ==
    /\ TaskBegin(t, "asking", p)
    /\ UNCHANGED <<now, members, rows, provider, notices, faults>>

AnythingIsPaid(p) == charge[p] # "none"
ProviderSaysPaid(p) == charge[p] = "paid"

VerifyAnswer(t) ==
    /\ TaskMove(t, "asking", "answered")
    /\ ProviderSaysPaid(task[t].pay)
    /\ UNCHANGED <<now, members, rows, provider, notices, faults>>

(* Any other status of the charge, an unknown reference, an HTTP error.    *)
VerifyMarksFailed(t) ==
    /\ TaskEnd(t, "asking")
    /\ status' = [status EXCEPT ![task[t].pay] = "failed"]
    /\ UNCHANGED <<now, members, reason, provider, notices, faults>>
VerifyDeclined(t) ==
    /\ TaskEnd(t, "asking")
    /\ UNCHANGED <<now, members, rows, provider, notices, faults>>

OnlyProofsSettle(p) == status[p] # "pending_verification"
NothingToSettle(p) == status[p] \in {"absent", "completed"}

VerifyRead(t) ==
    /\ LoopFree(t)
    /\ TaskMove(t, "answered", "settling")
    /\ ~NothingToSettle(task[t].pay)
    /\ UNCHANGED <<now, members, rows, provider, notices, faults>>

VerifyNothingToDo(t) ==
    /\ LoopFree(t)
    /\ TaskEnd(t, "answered")
    /\ NothingToSettle(task[t].pay)
    /\ UNCHANGED <<now, members, rows, provider, notices, faults>>

(* The commit inside notify_admins writes the row together with the        *)
(* administrators' notifications; the UPDATE of a deleted row fails.       *)
VerifySettle(t) ==
    /\ LET p == task[t].pay IN
        \/ /\ TaskMove(t, "settling", "settled")
           /\ status[p] # "absent"
           /\ status' = [status EXCEPT ![p] = "completed"]
           /\ Announce(p)
        \/ /\ TaskEnd(t, "settling")
           /\ status[p] = "absent"
           /\ UNCHANGED <<status, adminTold>>
    /\ UNCHANGED <<now, members, reason, provider, told, mail, receipts, faults>>

(* The member's notification; its failure is swallowed.  After it the      *)
(* session is either usable again, or not (then the step is TaskFails).    *)
VerifyNotify(t) ==
    /\ LET p == task[t].pay IN
        \/ /\ TaskMove(t, "settled", "notified")
           /\ Owner(p) \in members
           /\ told' = [told EXCEPT ![p]["confirmed"] = @ + 1]
           /\ UNCHANGED faults
        \/ /\ TaskMove(t, "settled", "notified")
           /\ Owner(p) \in members
           /\ Fault
           /\ UNCHANGED told
        \/ /\ TaskEnd(t, "settled")
           /\ Owner(p) \notin members
           /\ UNCHANGED <<told, faults>>
    /\ UNCHANGED <<now, members, rows, provider, adminTold, mail, receipts>>

(* The receipt is left to a thread of its own, if the member still exists. *)
VerifyMail(t) ==
    /\ TaskEnd(t, "notified")
    /\ LET p == task[t].pay IN
        mail' = IF Owner(p) \in members THEN [mail EXCEPT ![p] = @ + 1] ELSE mail
    /\ UNCHANGED <<now, members, rows, provider, told, adminTold, receipts, faults>>

-----------------------------------------------------------------------------
(* The receipt thread reads the expired row through the session of the     *)
(* request that started it: it sends, or finds session or row gone.        *)

ReceiptSent(p) ==
    /\ mail[p] > 0
    /\ status[p] # "absent"
    /\ mail' = [mail EXCEPT ![p] = @ - 1]
    /\ receipts' = [receipts EXCEPT ![p] = @ + 1]
    /\ UNCHANGED <<now, members, rows, provider, task, thread, told, adminTold, faults>>

ReceiptLost(p) ==
    /\ mail[p] > 0
    /\ mail' = [mail EXCEPT ![p] = @ - 1]
    /\ UNCHANGED <<now, members, rows, provider, task, thread, told, adminTold,
                   receipts, faults>>

-----------------------------------------------------------------------------
(* submit-proof and record-payment: one insert, then the administrators.   *)

SubmitProof(h, p) ==
    /\ Owner(p) \in members
    /\ status[p] = "absent"
    /\ ThreadBegin(h, "submitted", p)
    /\ status' = [status EXCEPT ![p] = "pending_verification"]
    /\ UNCHANGED <<now, members, reason, provider, notices, faults>>

SubmitNotify(h) ==
    /\ ThreadEnd(h, "submitted")
    /\ Announce(thread[h].pay)
    /\ UNCHANGED <<now, members, rows, provider, told, mail, receipts, faults>>

RecordOffline(t, p) ==
    /\ Owner(p) \in members
    /\ status[p] = "absent"
    /\ TaskBegin(t, "recorded", p)
    /\ status' = [status EXCEPT ![p] = "completed"]
    /\ UNCHANGED <<now, members, reason, provider, notices, faults>>

RecordNotify(t) ==
    /\ TaskEnd(t, "recorded")
    /\ Announce(task[t].pay)
    /\ UNCHANGED <<now, members, rows, provider, told, mail, receipts, faults>>

-----------------------------------------------------------------------------
(* approve and reject: read, check, commit; the commit is unconditional.   *)

AnyRow(p) == status[p] # "absent"
Decidable(p) == status[p] = "pending_verification"

ApproveReadTells(h, p) ==
    /\ Decidable(p)
    /\ ThreadBegin(h, "approving", p)
    /\ told' = [told EXCEPT ![p]["approved"] = @ + 1]
    /\ UNCHANGED <<now, members, rows, provider, adminTold, mail, receipts, faults>>
ApproveRead(h, p) ==
    /\ Decidable(p)
    /\ ThreadBegin(h, "approving", p)
    /\ UNCHANGED <<now, members, rows, provider, notices, faults>>

(* rejection_reason was read as NULL, so setting it to None writes nothing. *)
ApproveCommit(h) ==
    /\ LET p == thread[h].pay IN
        \/ /\ ThreadMove(h, "approving", "approved")
           /\ status[p] # "absent"
           /\ status' = [status EXCEPT ![p] = "completed"]
        \/ /\ ThreadEnd(h, "approving")
           /\ status[p] = "absent"
           /\ UNCHANGED status
    /\ UNCHANGED <<now, members, reason, provider, notices, faults>>

ApproveNotify(h) ==
    /\ LET p == thread[h].pay IN
        \/ /\ ThreadMove(h, "approved", "approval_told")
           /\ Owner(p) \in members
           /\ told' = [told EXCEPT ![p]["approved"] = @ + 1]
           /\ UNCHANGED faults
        \/ /\ ThreadMove(h, "approved", "approval_told")
           /\ Owner(p) \in members
           /\ Fault
           /\ UNCHANGED told
        \/ /\ ThreadEnd(h, "approved")
           /\ Owner(p) \notin members
           /\ UNCHANGED <<told, faults>>
    /\ UNCHANGED <<now, members, rows, provider, adminTold, mail, receipts>>

ApproveMail(h) ==
    /\ ThreadEnd(h, "approval_told")
    /\ LET p == thread[h].pay IN
        mail' = IF Owner(p) \in members THEN [mail EXCEPT ![p] = @ + 1] ELSE mail
    /\ UNCHANGED <<now, members, rows, provider, told, adminTold, receipts, faults>>

RejectRead(h, p) ==
    /\ Decidable(p)
    /\ ThreadBegin(h, "rejecting", p)
    /\ UNCHANGED <<now, members, rows, provider, notices, faults>>

NoReason(p) == UNCHANGED reason
GiveReason(p) == reason' = [reason EXCEPT ![p] = TRUE]

RejectCommit(h) ==
    /\ LET p == thread[h].pay IN
        \/ /\ ThreadMove(h, "rejecting", "rejected")
           /\ status[p] # "absent"
           /\ status' = [status EXCEPT ![p] = "rejected"]
           /\ GiveReason(p)
        \/ /\ ThreadEnd(h, "rejecting")
           /\ status[p] = "absent"
           /\ UNCHANGED rows
    /\ UNCHANGED <<now, members, provider, notices, faults>>

RejectNotify(h) ==
    /\ ThreadEnd(h, "rejected")
    /\ LET p == thread[h].pay IN
        \/ /\ Owner(p) \in members
           /\ told' = [told EXCEPT ![p]["rejected"] = @ + 1]
           /\ UNCHANGED faults
        \/ /\ Owner(p) \in members
           /\ Fault
           /\ UNCHANGED told
        \/ /\ Owner(p) \notin members
           /\ UNCHANGED <<told, faults>>
    /\ UNCHANGED <<now, members, rows, provider, adminTold, mail, receipts>>

-----------------------------------------------------------------------------
(* Deleting a member deletes the member's payment rows in the same commit. *)

DeleteMemberAlone(u) ==
    /\ u \in members
    /\ members' = members \ {u}
    /\ UNCHANGED <<now, rows, provider, task, thread, notices, faults>>
DeleteMember(u) ==
    /\ u \in members
    /\ members' = members \ {u}
    /\ status' = [p \in Payment |-> IF Owner(p) = u THEN "absent" ELSE status[p]]
    /\ reason' = [p \in Payment |-> IF Owner(p) = u THEN FALSE ELSE reason[p]]
    /\ UNCHANGED <<now, provider, task, thread, notices, faults>>

(* A database error or an exception ends one handler; its session is       *)
(* closed and what it had not committed is rolled back.                    *)
TaskFails(t) ==
    /\ task[t] # Idle
    /\ Fault
    /\ task' = [task EXCEPT ![t] = Idle]
    /\ UNCHANGED <<now, members, rows, provider, thread, notices>>

ThreadFails(h) ==
    /\ thread[h] # Idle
    /\ Fault
    /\ thread' = [thread EXCEPT ![h] = Idle]
    /\ UNCHANGED <<now, members, rows, provider, task, notices>>

(* The server restarts: every handler and every receipt thread is gone.    *)
Crash ==
    /\ Fault
    /\ task' = [t \in Tasks |-> Idle]
    /\ thread' = [h \in Threads |-> Idle]
    /\ mail' = [p \in Payment |-> 0]
    /\ UNCHANGED <<now, members, rows, provider, told, adminTold, receipts>>

-----------------------------------------------------------------------------
(* Next, by who takes the step.                                            *)

Environment ==
    \/ Tick
    \/ \E p \in Online : MemberPays(p) \/ ChargeFails(p) \/ ChargeReversed(p)
    \/ \E p \in Online : Webhook(p)
    \/ \E u \in Users : DeleteMember(u)
    \/ Crash

TaskStarts(t) ==
    \/ \E u \in Users : InitializeSend(t, u)
    \/ \E p \in Online : VerifySend(t, p)
    \/ \E p \in Manual : RecordOffline(t, p)

TaskRuns(t) ==
    \/ ProviderOpens(t) \/ ProviderRefuses(t)
    \/ InitializeCommit(t) \/ InitializeRefused(t)
    \/ VerifyAnswer(t) \/ VerifyDeclined(t)
    \/ VerifyRead(t) \/ VerifyNothingToDo(t)
    \/ VerifySettle(t) \/ VerifyNotify(t) \/ VerifyMail(t)
    \/ RecordNotify(t)

ThreadStarts(h) ==
    \/ \E p \in Manual : SubmitProof(h, p)
    \/ /\ h \in Reviewers
       /\ \E p \in Payment : ApproveRead(h, p) \/ RejectRead(h, p)

ThreadRuns(h) ==
    \/ SubmitNotify(h)
    \/ ApproveCommit(h) \/ ApproveNotify(h) \/ ApproveMail(h)
    \/ RejectCommit(h) \/ RejectNotify(h)

Next ==
    \/ Environment
    \/ \E t \in Tasks : TaskStarts(t) \/ TaskRuns(t) \/ TaskFails(t)
    \/ \E h \in Threads : ThreadStarts(h) \/ ThreadRuns(h) \/ ThreadFails(h)
    \/ \E p \in Payment : ReceiptSent(p) \/ ReceiptLost(p)

Spec == Init /\ [][Next]_vars

(* A started handler goes on to its end (every await of the provider has a *)
(* timeout of 30 seconds), and the event loop resumes the coroutines that  *)
(* are ready in turn, so one that waits for the loop gets it.              *)
Fairness ==
    /\ \A t \in Tasks : WF_vars(TaskRuns(t))
    /\ \A t \in Tasks : SF_vars(VerifyRead(t) \/ VerifyNothingToDo(t))

FairSpec == Spec /\ Fairness

-----------------------------------------------------------------------------
(* Properties.                                                             *)

Taken(p) == charge[p] \in {"paid", "reversed"}

(* An online payment is marked completed (verify_transaction) only if the  *)
(* provider really took the money, whatever the order of verifications,    *)
(* retries, crashes and late or stale answers.                             *)
CompletedWasPaid ==
    \A p \in Online : status[p] = "completed" => Taken(p)

(* Money is never taken without a record: initialize calls the provider    *)
(* before it inserts the row, yet nobody can pay before the row is there,  *)
(* and nothing but the deletion of the member removes it.                  *)
PaidHasRecord ==
    \A p \in Online :
        Taken(p) /\ Owner(p) \in members => status[p] \in {"pending", "completed"}

(* Two initialize requests never both succeed with one reference, although *)
(* references repeat within a second.                                      *)
OneUrlPerReference == \A p \in Online : issued[p] <= 1

(* An online payment is announced once: at most one confirmation to the    *)
(* member, one receipt and one notice to the administrators, whatever      *)
(* verifications run at once.  It needs all tasks to be on one event loop. *)
ConfirmedOnce ==
    \A p \in Online :
        /\ told[p]["confirmed"] <= 1
        /\ adminTold[p] <= 1
        /\ mail[p] + receipts[p] <= 1

(* The administrators are told of an online payment in the transaction     *)
(* that completes it: a crash loses neither or both (verify_transaction,   *)
(* notify_admins).                                                         *)
AdminsToldWithSettlement ==
    \A p \in Online :
        Owner(p) \in members => (status[p] = "completed" <=> adminTold[p] > 0)

(* What a member was told of a proof agrees with the record: approve and   *)
(* reject notify and send the receipt after their commit.                  *)
MemberToldTheTruth ==
    \A p \in Manual : Owner(p) \in members =>
        /\ told[p]["approved"] > 0 \/ mail[p] + receipts[p] > 0
              => status[p] = "completed"
        /\ told[p]["rejected"] > 0 => status[p] = "rejected"

(* A rejection reason is stored with a rejected record and with no other   *)
(* (approve_payment sets it to None, reject_payment to the reason).        *)
ReasonMatchesStatus == \A p \in Payment : reason[p] <=> status[p] = "rejected"

(* The books: what keeps the properties above true at every step.  An      *)
(* online row is pending or completed, and a coroutine that is about to    *)
(* complete one holds an answer that was true when it was given; a charge  *)
(* is taken only after its URL was issued, which its row precedes.         *)
OnlineRows == \A p \in Online : status[p] \in {"absent", "pending", "completed"}
ManualRows == \A p \in Manual : status[p] # "pending"
ReviewsManual ==
    \A h \in Threads : thread[h].pc \in ThreadPc => thread[h].pay \in Manual
AnswersAreTrue ==
    \A t \in Tasks :
        task[t].pc \in {"answered", "settling"} => Taken(task[t].pay)
IssuedHasRecord ==
    \A p \in Online :
        issued[p] > 0 /\ Owner(p) \in members => status[p] \in {"pending", "completed"}
TakenWasIssued == \A p \in Online : Taken(p) => issued[p] > 0
DeletedHasNoRows ==
    \A p \in Payment : Owner(p) \notin members => status[p] = "absent"

(* The inductive invariant behind the theorems of PaymentsProofs.          *)
Books ==
    /\ OnlineRows
    /\ ManualRows
    /\ ReviewsManual
    /\ AnswersAreTrue
    /\ IssuedHasRecord
    /\ TakenWasIssued
    /\ DeletedHasNoRows
    /\ CompletedWasPaid
    /\ OneUrlPerReference

(* A verification that the provider answered with success completes the    *)
(* record, unless the member is deleted or a failure intervenes.           *)
AnsweredSettles ==
    \A t \in Tasks, p \in Online, k \in 0..MaxFaults :
        (/\ task[t] = [pc |-> "answered", pay |-> p]
         /\ status[p] = "pending"
         /\ faults = k)
        ~> (status[p] \in {"completed", "absent"} \/ faults > k)

(* payments.py:331 "Only payments pending verification can be rejected".   *)
OnlyPendingRejected ==
    [][\A p \in Payment :
         status'[p] = "rejected" /\ status[p] # "rejected"
            => status[p] = "pending_verification"]_vars

(* payments.py:400 the webhook exists "to verify and record payments       *)
(* asynchronously": a charge it reports is recorded in the end, with no    *)
(* help from the member.                                                   *)
HookSpec == FairSpec /\ \A p \in Online : SF_vars(Webhook(p))
WebhookRecords ==
    \A p \in Online :
        charge[p] = "paid" ~>
            (status[p] \in {"completed", "absent"} \/ charge[p] = "reversed")

-----------------------------------------------------------------------------
(* The ledger this module implements: see PaymentLedger.                   *)

Ledger == INSTANCE PaymentLedger WITH
            entry   <- status,
            present <- members,
            taken   <- {p \in Online : Taken(p)}

LedgerSpec == Ledger!Spec
=============================================================================
