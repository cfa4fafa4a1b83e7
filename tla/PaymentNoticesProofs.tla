------------------------ MODULE PaymentNoticesProofs ------------------------
(***************************************************************************)
(* What members and administrators are told about payments, for any set of *)
(* members, number of requests and failures: it agrees with the record     *)
(* while one reviewer at a time decides, and is told once while all tasks  *)
(* share one event loop.                                                   *)
(***************************************************************************)
EXTENDS PaymentsProofs

Sent(p) == mail[p] + receipts[p]
Decided == {"approved", "approval_told", "rejected"}

(* No task enters or moves within its loop; no reviewer commits or goes on *)
(* to tell.                                                                *)
TasksQuiet   == \A t \in Tasks : task'[t] = task[t] \/ task'[t].pc \notin InLoop
ThreadsQuiet == \A h \in Threads : thread'[h] = thread[h] \/ thread'[h].pc \notin Decided

(* Only row p changes, to status s.                                        *)
RowGets(p, s) ==
    /\ UNCHANGED members
    /\ status'[p] = s
    /\ \A q \in Payment \ {p} : status'[q] = status[q]

(* The member is told n about p at most once more.                         *)
TellsOf(p, n) ==
    /\ told'[p][n] <= told[p][n] + 1
    /\ \A q \in Payment, m \in Notice : q # p \/ m # n => told'[q][m] = told[q][m]

(* Mails of p grow by one at most, the others do not grow.                 *)
MailsOf(p) ==
    /\ UNCHANGED receipts
    /\ mail'[p] <= mail[p] + 1
    /\ \A q \in Payment \ {p} : mail'[q] = mail[q]

OthersTasks(t)   == \A o \in Tasks \ {t} : task'[o] = task[o]
OthersThreads(h) == \A g \in Threads \ {h} : thread'[g] = thread[g]

-----------------------------------------------------------------------------
(* What each step does to rows and notices.                                *)

LEMMA Numbers ==
    ASSUME TypeOK, NEW p \in Payment
    PROVE  /\ mail[p] \in Nat /\ receipts[p] \in Nat /\ adminTold[p] \in Nat
           /\ Sent(p) \in Nat
           /\ \A n \in Notice : told[p][n] \in Nat
  BY DEF TypeOK, Sent

LEMMA TaskMoved ==
    ASSUME TypeOK, NEW t \in Tasks, NEW from, NEW to, TaskMove(t, from, to)
    PROVE  /\ task[t].pc = from /\ task'[t].pc = to /\ task'[t].pay = task[t].pay
           /\ OthersTasks(t) /\ UNCHANGED thread
  BY DEF TypeOK, TaskMove, OthersTasks

LEMMA TaskEnded ==
    ASSUME TypeOK, NEW t \in Tasks, NEW from, TaskEnd(t, from)
    PROVE  /\ task[t].pc = from /\ TasksQuiet /\ ThreadsQuiet
  BY DEF TypeOK, TaskEnd, TasksQuiet, ThreadsQuiet, Idle, InLoop, Verifying

LEMMA TaskBegun ==
    ASSUME TypeOK, NEW t \in Tasks, NEW pc, NEW p, TaskBegin(t, pc, p)
    PROVE  /\ task'[t].pc = pc /\ task'[t].pay = p
           /\ OthersTasks(t) /\ LoopFree(t) /\ UNCHANGED thread
  BY DEF TypeOK, TaskBegin, OthersTasks

LEMMA ThreadMoved ==
    ASSUME TypeOK, NEW h \in Threads, NEW from, NEW to, ThreadMove(h, from, to)
    PROVE  /\ thread[h].pc = from /\ thread'[h].pc = to /\ thread'[h].pay = thread[h].pay
           /\ OthersThreads(h) /\ UNCHANGED task
  BY DEF TypeOK, ThreadMove, OthersThreads

LEMMA ThreadEnded ==
    ASSUME TypeOK, NEW h \in Threads, NEW from, ThreadEnd(h, from)
    PROVE  /\ thread[h].pc = from /\ TasksQuiet /\ ThreadsQuiet
  BY DEF TypeOK, ThreadEnd, TasksQuiet, ThreadsQuiet, Idle, Decided

LEMMA ThreadBegun ==
    ASSUME TypeOK, NEW h \in Threads, NEW pc, NEW p, pc \notin Decided,
           ThreadBegin(h, pc, p)
    PROVE  TasksQuiet /\ ThreadsQuiet
  BY DEF TypeOK, ThreadBegin, TasksQuiet, ThreadsQuiet

(* Most steps change neither rows nor notices.                             *)
Aside ==
    /\ UNCHANGED <<members, rows, told, adminTold>>
    /\ TasksQuiet /\ ThreadsQuiet
    /\ \A p \in Payment : Sent(p)' <= Sent(p)

LEMMA EnvironmentAside ==
    ASSUME TypeOK, \/ Tick \/ Crash \/ UNCHANGED vars
                   \/ \E p \in Online : \/ MemberPays(p) \/ ChargeFails(p)
                                       \/ ChargeReversed(p) \/ Webhook(p)
                   \/ \E p \in Payment : ReceiptSent(p) \/ ReceiptLost(p)
    PROVE  Aside
<1> USE Numbers DEF Aside, TasksQuiet, ThreadsQuiet, Sent, rows, notices
<1>1. CASE Crash
  BY <1>1 DEF TypeOK, Crash, Idle, InLoop, Verifying, Decided
<1>2. CASE \E p \in Payment : ReceiptSent(p) \/ ReceiptLost(p)
  <2>1. PICK p \in Payment : ReceiptSent(p) \/ ReceiptLost(p)
    BY <1>2
  <2>2. /\ UNCHANGED <<members, rows, told, adminTold, task, thread>>
        /\ mail' = [mail EXCEPT ![p] = @ - 1]
        /\ receipts' \in {receipts, [receipts EXCEPT ![p] = @ + 1]}
    BY <2>1 DEF ReceiptSent, ReceiptLost
  <2>3. ASSUME NEW q \in Payment PROVE Sent(q)' <= Sent(q)
    BY <2>2 DEF TypeOK
  <2> QED
    BY <2>2, <2>3
<1>3. CASE \/ Tick \/ UNCHANGED vars
           \/ \E p \in Online : \/ MemberPays(p) \/ ChargeFails(p)
                               \/ ChargeReversed(p) \/ Webhook(p)
  <2>1. UNCHANGED <<members, rows, notices, task, thread>>
    BY <1>3 DEF Tick, MemberPays, ChargeFails, ChargeReversed, Webhook, vars
  <2> QED
    BY <2>1
<1> QED
  BY <1>1, <1>2, <1>3

LEMMA HandlerAside ==
    ASSUME TypeOK, TasksQuiet, ThreadsQuiet, UNCHANGED <<members, rows, notices>>
    PROVE  Aside
  BY Numbers DEF Aside, Sent, notices

(* Coroutines that start, ask, or end without a commit.                    *)
LEMMA TaskAside ==
    ASSUME TypeOK, NEW t \in Tasks,
           \/ \E u \in Users : InitializeSend(t, u)
           \/ \E p \in Online : VerifySend(t, p)
           \/ ProviderOpens(t) \/ ProviderRefuses(t) \/ InitializeRefused(t)
           \/ VerifyAnswer(t) \/ VerifyDeclined(t) \/ VerifyNothingToDo(t) \/ TaskFails(t)
    PROVE  Aside
<1>1. UNCHANGED <<members, rows, notices>>
  BY DEF InitializeSend, VerifySend, ProviderOpens, ProviderRefuses, InitializeRefused,
         VerifyAnswer, VerifyDeclined, VerifyNothingToDo, TaskFails
<1>2. ASSUME \/ \E u \in Users : InitializeSend(t, u)
             \/ \E p \in Online : VerifySend(t, p)
      PROVE  TasksQuiet /\ ThreadsQuiet
  BY <1>2, TaskBegun DEF InitializeSend, VerifySend, TasksQuiet, ThreadsQuiet, OthersTasks,
                         InLoop, Verifying
<1>3. ASSUME ProviderOpens(t) \/ VerifyAnswer(t)
      PROVE  TasksQuiet /\ ThreadsQuiet
  BY <1>3, TaskMoved DEF ProviderOpens, VerifyAnswer, TasksQuiet, ThreadsQuiet, OthersTasks,
                         InLoop, Verifying
<1>4. ASSUME \/ ProviderRefuses(t) \/ InitializeRefused(t)
             \/ VerifyDeclined(t) \/ VerifyNothingToDo(t)
      PROVE  TasksQuiet /\ ThreadsQuiet
  BY <1>4, TaskEnded DEF ProviderRefuses, InitializeRefused, VerifyDeclined, VerifyNothingToDo
<1>5. ASSUME TaskFails(t)
      PROVE  TasksQuiet /\ ThreadsQuiet
  BY <1>5 DEF TypeOK, TaskFails, TasksQuiet, ThreadsQuiet, Idle, InLoop, Verifying
<1> QED
  BY <1>1, <1>2, <1>3, <1>4, <1>5, HandlerAside

(* Handlers of the thread pool that start to decide, or fail.              *)
LEMMA ThreadAside ==
    ASSUME TypeOK, NEW h \in Threads,
           \/ \E p \in Payment : ApproveRead(h, p) \/ RejectRead(h, p)
           \/ ThreadFails(h)
    PROVE  Aside
<1>1. UNCHANGED <<members, rows, notices>>
  BY DEF ApproveRead, RejectRead, ThreadFails
<1>2. ASSUME \E p \in Payment : ApproveRead(h, p) \/ RejectRead(h, p)
      PROVE  TasksQuiet /\ ThreadsQuiet
  BY <1>2, ThreadBegun DEF ApproveRead, RejectRead, Decided
<1>3. ASSUME ThreadFails(h)
      PROVE  TasksQuiet /\ ThreadsQuiet
  BY <1>3 DEF TypeOK, ThreadFails, TasksQuiet, ThreadsQuiet, Idle, Decided
<1> QED
  BY <1>1, <1>2, <1>3, HandlerAside

-----------------------------------------------------------------------------
(* The steps that change a row or a notice, or claim the loop.             *)

LEMMA ReadDoes ==
    ASSUME TypeOK, Books, NEW t \in Tasks, VerifyRead(t)
    PROVE  LET p == task[t].pay IN
           /\ p \in Online /\ p \in Payment
           /\ status[p] = "pending"
           /\ task'[t].pc = "settling" /\ task'[t].pay = p
           /\ OthersTasks(t) /\ LoopFree(t) /\ UNCHANGED thread
           /\ UNCHANGED <<members, rows, notices>>
<1>1. TaskMove(t, "answered", "settling") /\ ~ NothingToSettle(task[t].pay)
  BY DEF VerifyRead
<1>2. task[t].pay \in Online
  BY <1>1, TaskHolds, TaskMoved DEF OnlinePc
<1>3. status[task[t].pay] = "pending"
  BY <1>1, <1>2 DEF NothingToSettle, Books, OnlineRows
<1> QED
  BY <1>1, <1>2, <1>3, TaskMoved, References DEF VerifyRead

LEMMA DeleteDoes ==
    ASSUME TypeOK, NEW u \in Users, DeleteMember(u)
    PROVE  /\ members' = members \ {u}
           /\ \A p \in Payment :
                IF Owner(p) = u THEN status'[p] = "absent" /\ reason'[p] = FALSE
                                ELSE status'[p] = status[p] /\ reason'[p] = reason[p]
           /\ UNCHANGED <<task, thread, notices>>
  BY DEF DeleteMember

LEMMA OpenDoes ==
    ASSUME TypeOK, NEW t \in Tasks, InitializeCommit(t)
    PROVE  LET p == task[t].pay IN
           /\ p \in Online /\ p \in Payment /\ Owner(p) \in members
           /\ status[p] = "absent" /\ RowGets(p, "pending")
           /\ TasksQuiet /\ ThreadsQuiet
           /\ UNCHANGED <<reason, notices>>
<1>1. TaskEnd(t, "charged")
  BY DEF InitializeCommit
<1>2. task[t].pay \in Online
  BY <1>1, TaskHolds DEF TaskEnd, OnlinePc
<1>3. RowGets(task[t].pay, "pending")
  BY <1>2, References DEF InitializeCommit, RowGets, TypeOK
<1> QED
  BY <1>1, <1>2, <1>3, TaskEnded, References DEF InitializeCommit

LEMMA SettleDoes ==
    ASSUME TypeOK, Books, NEW t \in Tasks, VerifySettle(t)
    PROVE  LET p == task[t].pay IN
           \/ Aside
           \/ /\ p \in Online /\ p \in Payment
              /\ status[p] # "absent" /\ Owner(p) \in members /\ RowGets(p, "completed")
              /\ task[t].pc = "settling" /\ task'[t].pc = "settled" /\ task'[t].pay = p
              /\ OthersTasks(t) /\ UNCHANGED thread
              /\ adminTold'[p] = adminTold[p] + 1
              /\ \A q \in Payment \ {p} : adminTold'[q] = adminTold[q]
              /\ UNCHANGED <<reason, told, mail, receipts>>
<1> DEFINE p == task[t].pay
<1>1. CASE TaskMove(t, "settling", "settled") /\ status[p] # "absent"
  <2>1. p \in Online /\ p \in Payment
    BY <1>1, TaskHolds, References DEF TaskMove, OnlinePc, Verifying
  <2>2. /\ status' = [status EXCEPT ![p] = "completed"]
        /\ adminTold' = [adminTold EXCEPT ![p] = @ + 1]
        /\ UNCHANGED <<members, reason, told, mail, receipts>>
    BY <1>1 DEF VerifySettle, Announce
  <2>3. /\ RowGets(p, "completed") /\ adminTold'[p] = adminTold[p] + 1
        /\ \A q \in Payment \ {p} : adminTold'[q] = adminTold[q]
    BY <2>1, <2>2 DEF RowGets, TypeOK
  <2>4. Owner(p) \in members
    BY <1>1, <2>1 DEF Books, DeletedHasNoRows
  <2> QED
    BY <1>1, <2>1, <2>2, <2>3, <2>4, TaskMoved
<1>2. CASE TaskEnd(t, "settling") /\ status[p] = "absent"
  <2>1. UNCHANGED <<members, rows, notices>>
    BY <1>2 DEF VerifySettle, rows, notices
  <2> QED
    BY <1>2, <2>1, TaskEnded, HandlerAside
<1> QED
  BY <1>1, <1>2 DEF VerifySettle

LEMMA ToldOnceMore ==
    ASSUME TypeOK, NEW p \in Payment, NEW n \in Notice,
           told' \in {told, [told EXCEPT ![p][n] = @ + 1]}
    PROVE  TellsOf(p, n)
<1>1. told[p] \in [Notice -> Nat] /\ told \in [Payment -> [Notice -> Nat]]
  BY DEF TypeOK
<1>2. CASE told' = [told EXCEPT ![p][n] = @ + 1]
  <2> DEFINE f == [told[p] EXCEPT ![n] = @ + 1]
  <2>1. f[n] = told[p][n] + 1 /\ \A m \in Notice \ {n} : f[m] = told[p][m]
    BY <1>1
  <2>2. told'[p] = f /\ \A q \in Payment \ {p} : told'[q] = told[q]
    BY <1>1, <1>2
  <2> HIDE DEF f
  <2> QED
    BY <1>1, <2>1, <2>2 DEF TellsOf
<1> QED
  BY <1>1, <1>2 DEF TellsOf

LEMMA ConfirmationDoes ==
    ASSUME TypeOK, NEW t \in Tasks, VerifyNotify(t)
    PROVE  LET p == task[t].pay IN
           \/ Aside
           \/ /\ p \in Online /\ p \in Payment
              /\ task[t].pc = "settled" /\ task'[t].pc = "notified" /\ task'[t].pay = p
              /\ OthersTasks(t) /\ UNCHANGED thread
              /\ TellsOf(p, "confirmed")
              /\ UNCHANGED <<members, rows, adminTold, mail, receipts>>
<1> DEFINE p == task[t].pay
<1>0. UNCHANGED <<members, rows, adminTold, mail, receipts>>
  BY DEF VerifyNotify
<1>1. CASE TaskMove(t, "settled", "notified")
  <2>1. p \in Online /\ p \in Payment
    BY <1>1, TaskHolds, References DEF TaskMove, OnlinePc, Verifying
  <2>2. told' \in {told, [told EXCEPT ![p]["confirmed"] = @ + 1]}
    BY DEF VerifyNotify
  <2>3. TellsOf(p, "confirmed")
    BY <2>1, <2>2, ToldOnceMore DEF Notice
  <2> QED
    BY <1>0, <1>1, <2>1, <2>3, TaskMoved
<1>2. CASE TaskEnd(t, "settled") /\ UNCHANGED told
  <2>1. UNCHANGED <<members, rows, notices>>
    BY <1>0, <1>2 DEF notices
  <2> QED
    BY <1>2, <2>1, TaskEnded, HandlerAside
<1> QED
  BY <1>1, <1>2 DEF VerifyNotify

LEMMA ReceiptDoes ==
    ASSUME TypeOK, NEW t \in Tasks, VerifyMail(t)
    PROVE  LET p == task[t].pay IN
           /\ p \in Online /\ p \in Payment /\ task[t].pc = "notified"
           /\ MailsOf(p) /\ TasksQuiet /\ ThreadsQuiet
           /\ UNCHANGED <<members, rows, told, adminTold>>
<1> DEFINE p == task[t].pay
<1>1. TaskEnd(t, "notified") /\ UNCHANGED <<members, rows, told, adminTold, receipts>>
  BY DEF VerifyMail
<1>2. p \in Online /\ p \in Payment
  BY <1>1, TaskHolds, References DEF TaskEnd, OnlinePc, Verifying
<1>3. MailsOf(p)
  BY <1>1, <1>2 DEF VerifyMail, MailsOf, TypeOK
<1> QED
  BY <1>1, <1>2, <1>3, TaskEnded

LEMMA FileDoes ==
    ASSUME TypeOK, NEW h \in Threads, NEW p \in Manual, SubmitProof(h, p)
    PROVE  /\ p \in Payment /\ Owner(p) \in members
           /\ status[p] = "absent" /\ RowGets(p, "pending_verification")
           /\ TasksQuiet /\ ThreadsQuiet
           /\ UNCHANGED <<reason, notices>>
<1>1. RowGets(p, "pending_verification")
  BY References DEF SubmitProof, RowGets, TypeOK
<1>2. TasksQuiet /\ ThreadsQuiet
  BY ThreadBegun DEF SubmitProof, Decided
<1> QED
  BY <1>1, <1>2, References DEF SubmitProof

LEMMA RecordDoes ==
    ASSUME TypeOK, NEW t \in Tasks, NEW p \in Manual, RecordOffline(t, p)
    PROVE  /\ p \in Payment /\ Owner(p) \in members
           /\ status[p] = "absent" /\ RowGets(p, "completed")
           /\ task'[t].pc = "recorded" /\ task'[t].pay = p
           /\ OthersTasks(t) /\ LoopFree(t) /\ UNCHANGED thread
           /\ UNCHANGED <<reason, notices>>
<1>1. RowGets(p, "completed")
  BY References DEF RecordOffline, RowGets, TypeOK
<1> QED
  BY <1>1, TaskBegun, References DEF RecordOffline

(* The administrators are told of a manual payment.                        *)
LEMMA AnnouncementDoes ==
    ASSUME TypeOK, \/ \E h \in Threads : SubmitNotify(h)
                   \/ \E t \in Tasks : RecordNotify(t)
    PROVE  /\ \E p \in Manual : \A q \in Payment \ {p} : adminTold'[q] = adminTold[q]
           /\ TasksQuiet /\ ThreadsQuiet
           /\ UNCHANGED <<members, rows, told, mail, receipts>>
<1>1. ASSUME NEW p \in Manual, Announce(p)
      PROVE  \A q \in Payment \ {p} : adminTold'[q] = adminTold[q]
  BY <1>1 DEF Announce, TypeOK
<1>2. CASE \E h \in Threads : SubmitNotify(h)
  <2>1. PICK h \in Threads : SubmitNotify(h)
    BY <1>2
  <2>2. ThreadEnd(h, "submitted")
    BY <2>1 DEF SubmitNotify
  <2>3. thread[h].pay \in Manual
    BY <2>2, ThreadHolds DEF ThreadEnd
  <2> QED
    BY <1>1, <2>1, <2>2, <2>3, ThreadEnded DEF SubmitNotify
<1>3. CASE \E t \in Tasks : RecordNotify(t)
  <2>1. PICK t \in Tasks : RecordNotify(t)
    BY <1>3
  <2>2. TaskEnd(t, "recorded")
    BY <2>1 DEF RecordNotify
  <2>3. task[t].pay \in Manual
    BY <2>2, TaskHolds DEF TaskEnd
  <2> QED
    BY <1>1, <2>1, <2>2, <2>3, TaskEnded DEF RecordNotify
<1> QED
  BY <1>2, <1>3

LEMMA ApprovalDoes ==
    ASSUME TypeOK, Books, NEW h \in Threads, ApproveCommit(h)
    PROVE  LET p == thread[h].pay IN
           \/ Aside
           \/ /\ p \in Manual /\ p \in Payment
              /\ thread[h].pc = "approving" /\ status[p] # "absent" /\ Owner(p) \in members
              /\ RowGets(p, "completed")
              /\ thread'[h].pc = "approved" /\ thread'[h].pay = p
              /\ OthersThreads(h) /\ UNCHANGED task
              /\ UNCHANGED <<reason, notices>>
<1> DEFINE p == thread[h].pay
<1>1. CASE ThreadMove(h, "approving", "approved") /\ status[p] # "absent"
  <2>1. p \in Manual /\ p \in Payment
    BY <1>1, References DEF ThreadMove, ThreadPc, Books, ReviewsManual
  <2>2. RowGets(p, "completed")
    BY <1>1, <2>1 DEF ApproveCommit, RowGets, TypeOK
  <2>3. Owner(p) \in members
    BY <1>1, <2>1 DEF Books, DeletedHasNoRows
  <2> QED
    BY <1>1, <2>1, <2>2, <2>3, ThreadMoved DEF ApproveCommit
<1>2. CASE ThreadEnd(h, "approving") /\ status[p] = "absent"
  <2>1. UNCHANGED <<members, rows, notices>>
    BY <1>2 DEF ApproveCommit, rows
  <2> QED
    BY <1>2, <2>1, ThreadEnded, HandlerAside
<1> QED
  BY <1>1, <1>2 DEF ApproveCommit

LEMMA RejectionDoes ==
    ASSUME TypeOK, Books, NEW h \in Threads, RejectCommit(h)
    PROVE  LET p == thread[h].pay IN
           \/ Aside
           \/ /\ p \in Manual /\ p \in Payment
              /\ thread[h].pc = "rejecting" /\ status[p] # "absent" /\ Owner(p) \in members
              /\ RowGets(p, "rejected")
              /\ reason'[p] = TRUE /\ \A q \in Payment \ {p} : reason'[q] = reason[q]
              /\ thread'[h].pc = "rejected" /\ thread'[h].pay = p
              /\ OthersThreads(h) /\ UNCHANGED task
              /\ UNCHANGED notices
<1> DEFINE p == thread[h].pay
<1>1. CASE ThreadMove(h, "rejecting", "rejected") /\ status[p] # "absent"
  <2>1. p \in Manual /\ p \in Payment
    BY <1>1, References DEF ThreadMove, ThreadPc, Books, ReviewsManual
  <2>2. RowGets(p, "rejected")
    BY <1>1, <2>1 DEF RejectCommit, RowGets, TypeOK
  <2>3. Owner(p) \in members
    BY <1>1, <2>1 DEF Books, DeletedHasNoRows
  <2>4. reason'[p] = TRUE /\ \A q \in Payment \ {p} : reason'[q] = reason[q]
    BY <1>1, <2>1 DEF RejectCommit, GiveReason, TypeOK
  <2> QED
    BY <1>1, <2>1, <2>2, <2>3, <2>4, ThreadMoved DEF RejectCommit
<1>2. CASE ThreadEnd(h, "rejecting") /\ status[p] = "absent"
  <2>1. UNCHANGED <<members, rows, notices>>
    BY <1>2 DEF RejectCommit
  <2> QED
    BY <1>2, <2>1, ThreadEnded, HandlerAside
<1> QED
  BY <1>1, <1>2 DEF RejectCommit

LEMMA ApprovalTold ==
    ASSUME TypeOK, Books, NEW h \in Threads, ApproveNotify(h)
    PROVE  LET p == thread[h].pay IN
           \/ Aside
           \/ /\ p \in Manual /\ p \in Payment
              /\ thread[h].pc = "approved" /\ thread'[h].pc = "approval_told"
              /\ thread'[h].pay = p /\ OthersThreads(h) /\ UNCHANGED task
              /\ TellsOf(p, "approved")
              /\ UNCHANGED <<members, rows, adminTold, mail, receipts>>
<1> DEFINE p == thread[h].pay
<1>0. UNCHANGED <<members, rows, adminTold, mail, receipts>>
  BY DEF ApproveNotify
<1>1. CASE ThreadMove(h, "approved", "approval_told")
  <2>1. p \in Manual /\ p \in Payment
    BY <1>1, References DEF ThreadMove, ThreadPc, Books, ReviewsManual
  <2>2. told' \in {told, [told EXCEPT ![p]["approved"] = @ + 1]}
    BY DEF ApproveNotify
  <2>3. TellsOf(p, "approved")
    BY <2>1, <2>2, ToldOnceMore DEF Notice
  <2> QED
    BY <1>0, <1>1, <2>1, <2>3, ThreadMoved
<1>2. CASE ThreadEnd(h, "approved") /\ UNCHANGED told
  <2>1. UNCHANGED <<members, rows, notices>>
    BY <1>0, <1>2 DEF notices
  <2> QED
    BY <1>2, <2>1, ThreadEnded, HandlerAside
<1> QED
  BY <1>1, <1>2 DEF ApproveNotify

LEMMA RejectionTold ==
    ASSUME TypeOK, Books, NEW h \in Threads, RejectNotify(h)
    PROVE  LET p == thread[h].pay IN
           /\ p \in Manual /\ p \in Payment /\ thread[h].pc = "rejected"
           /\ TellsOf(p, "rejected") /\ TasksQuiet /\ ThreadsQuiet
           /\ UNCHANGED <<members, rows, adminTold, mail, receipts>>
<1> DEFINE p == thread[h].pay
<1>1. ThreadEnd(h, "rejected") /\ UNCHANGED <<members, rows, adminTold, mail, receipts>>
  BY DEF RejectNotify
<1>2. p \in Manual /\ p \in Payment
  BY <1>1, References DEF ThreadEnd, ThreadPc, Books, ReviewsManual
<1>3. told' \in {told, [told EXCEPT ![p]["rejected"] = @ + 1]}
  BY DEF RejectNotify
<1>4. TellsOf(p, "rejected")
  BY <1>2, <1>3, ToldOnceMore DEF Notice
<1> QED
  BY <1>1, <1>2, <1>4, ThreadEnded

LEMMA ApprovalMailed ==
    ASSUME TypeOK, Books, NEW h \in Threads, ApproveMail(h)
    PROVE  LET p == thread[h].pay IN
           /\ p \in Manual /\ p \in Payment /\ thread[h].pc = "approval_told"
           /\ MailsOf(p) /\ TasksQuiet /\ ThreadsQuiet
           /\ UNCHANGED <<members, rows, told, adminTold>>
<1> DEFINE p == thread[h].pay
<1>1. ThreadEnd(h, "approval_told") /\ UNCHANGED <<members, rows, told, adminTold, receipts>>
  BY DEF ApproveMail
<1>2. p \in Manual /\ p \in Payment
  BY <1>1, References DEF ThreadEnd, ThreadPc, Books, ReviewsManual
<1>3. MailsOf(p)
  BY <1>1, <1>2 DEF ApproveMail, MailsOf, TypeOK
<1> QED
  BY <1>1, <1>2, <1>3, ThreadEnded

(* Every step is one of these.                                             *)
LEMMA PaymentSteps ==
    ASSUME TypeOK, [Next]_vars
    PROVE  \/ Aside
           \/ \E u \in Users : DeleteMember(u)
           \/ \E t \in Tasks : \/ VerifyRead(t) \/ InitializeCommit(t) \/ VerifySettle(t)
                              \/ VerifyNotify(t) \/ VerifyMail(t)
                              \/ \E p \in Manual : RecordOffline(t, p)
           \/ \E h \in Threads : SubmitNotify(h)
           \/ \E t \in Tasks : RecordNotify(t)
           \/ \E h \in Threads : \/ \E p \in Manual : SubmitProof(h, p)
                                \/ ApproveCommit(h) \/ ApproveNotify(h) \/ ApproveMail(h)
                                \/ RejectCommit(h) \/ RejectNotify(h)
<1>1. CASE Environment \/ UNCHANGED vars \/ \E p \in Payment : ReceiptSent(p) \/ ReceiptLost(p)
  BY <1>1, EnvironmentAside DEF Environment
<1>2. CASE \E t \in Tasks : TaskStarts(t) \/ TaskRuns(t) \/ TaskFails(t)
  BY <1>2, TaskAside DEF TaskStarts, TaskRuns
<1>3. CASE \E h \in Threads : ThreadStarts(h) \/ ThreadRuns(h) \/ ThreadFails(h)
  BY <1>3, ThreadAside DEF ThreadStarts, ThreadRuns
<1> QED
  BY <1>1, <1>2, <1>3 DEF Next

-----------------------------------------------------------------------------
(* Administrators are told in the transaction that completes the record.   *)

Announced(p) == Owner(p) \in members => (status[p] = "completed" <=> adminTold[p] > 0)

LEMMA AnnouncedStep ==
    ASSUME TypeOK, Books, [Next]_vars, NEW p \in Online, Announced(p)
    PROVE  Announced(p)'
<1> USE References, OnlineIsNotManual DEF Announced
<1>0. p \in Payment /\ p \notin Manual /\ adminTold[p] \in Nat
  BY Numbers
<1>1. ASSUME UNCHANGED members, status'[p] = status[p], adminTold'[p] = adminTold[p]
      PROVE  Announced(p)'
  BY <1>1
<1>2. CASE Aside
  BY <1>1, <1>2 DEF Aside, rows
<1>3. CASE \E u \in Users : DeleteMember(u)
  <2>1. PICK u \in Users : DeleteMember(u)
    BY <1>3
  <2>2. members' = members \ {u} /\ (Owner(p) # u => status'[p] = status[p]) /\ UNCHANGED adminTold
    BY <1>0, <2>1, DeleteDoes DEF notices
  <2> QED
    BY <2>2
<1>4. CASE \E t \in Tasks : VerifyRead(t)
  BY <1>1, <1>4, ReadDoes DEF rows, notices
<1>5. CASE \E t \in Tasks : InitializeCommit(t)
  <2>1. PICK t \in Tasks : InitializeCommit(t)
    BY <1>5
  <2>2. /\ status[task[t].pay] = "absent" /\ RowGets(task[t].pay, "pending")
        /\ UNCHANGED adminTold
    BY <2>1, OpenDoes DEF notices
  <2> QED
    BY <1>0, <2>2 DEF RowGets
<1>6. CASE \E t \in Tasks : VerifySettle(t)
  <2>1. PICK t \in Tasks : VerifySettle(t)
    BY <1>6
  <2>2. \/ Aside
        \/ /\ RowGets(task[t].pay, "completed")
           /\ adminTold'[task[t].pay] = adminTold[task[t].pay] + 1
           /\ \A q \in Payment \ {task[t].pay} : adminTold'[q] = adminTold[q]
    BY <2>1, SettleDoes
  <2> QED
    BY <1>0, <1>2, <2>2 DEF RowGets
<1>7. CASE \E t \in Tasks : VerifyNotify(t)
  BY <1>1, <1>2, <1>7, ConfirmationDoes DEF rows
<1>8. CASE \E t \in Tasks : VerifyMail(t)
  BY <1>1, <1>8, ReceiptDoes DEF rows
<1>9. CASE \E t \in Tasks, q \in Manual : RecordOffline(t, q)
  BY <1>0, <1>1, <1>9, RecordDoes DEF RowGets, notices
<1>10. CASE \/ \E h \in Threads : SubmitNotify(h)
            \/ \E t \in Tasks : RecordNotify(t)
  BY <1>0, <1>1, <1>10, AnnouncementDoes DEF rows
<1>11. CASE \E h \in Threads, q \in Manual : SubmitProof(h, q)
  BY <1>0, <1>1, <1>11, FileDoes DEF RowGets, notices
<1>12. CASE \E h \in Threads : ApproveCommit(h)
  BY <1>0, <1>1, <1>2, <1>12, ApprovalDoes DEF RowGets, notices
<1>13. CASE \E h \in Threads : RejectCommit(h)
  BY <1>0, <1>1, <1>2, <1>13, RejectionDoes DEF RowGets, notices
<1>14. CASE \E h \in Threads : ApproveNotify(h)
  BY <1>1, <1>2, <1>14, ApprovalTold DEF rows
<1>15. CASE \E h \in Threads : ApproveMail(h) \/ RejectNotify(h)
  BY <1>1, <1>15, ApprovalMailed, RejectionTold DEF rows
<1> QED
  BY <1>2, <1>3, <1>4, <1>5, <1>6, <1>7, <1>8, <1>9, <1>10, <1>11, <1>12, <1>13, <1>14, <1>15,
     PaymentSteps

(* The administrators are told of an online payment in the transaction     *)
(* that completes it (verify_transaction, notify_admins): whatever fails   *)
(* or interleaves, a record is completed exactly if they were told.        *)
THEOREM AdminsAreTold == Spec => []AdminsToldWithSettlement
<1>1. Init => AdminsToldWithSettlement
  BY References DEF Init, AdminsToldWithSettlement
<1>2. TypeOK /\ Books /\ AdminsToldWithSettlement /\ [Next]_vars => AdminsToldWithSettlement'
  BY AnnouncedStep DEF AdminsToldWithSettlement, Announced
<1> QED
  BY <1>1, <1>2, TypeCorrect, BooksAreRight, PTL DEF Spec

-----------------------------------------------------------------------------
(* What one reviewer at a time decides agrees with what is stored and told.*)

Told(p, n) == told[p][n] > 0

Reasoned(p) == reason[p] <=> status[p] = "rejected"

ToldRight(p) ==
    Owner(p) \in members =>
        /\ Told(p, "approved") \/ Sent(p) > 0 => status[p] = "completed"
        /\ Told(p, "rejected") => status[p] = "rejected"
        /\ \A h \in Threads : thread[h].pc \in Decided /\ thread[h].pay = p =>
             status[p] = IF thread[h].pc = "rejected" THEN "rejected" ELSE "completed"

LEMMA ReasonedStep ==
    ASSUME TypeOK, Books, Undecided, [Next]_vars, NEW p \in Payment, Reasoned(p)
    PROVE  Reasoned(p)'
<1> USE References, OnlineIsNotManual DEF Reasoned
<1>1. ASSUME status'[p] = status[p], reason'[p] = reason[p]
      PROVE  Reasoned(p)'
  BY <1>1
<1>2. CASE Aside
  BY <1>1, <1>2 DEF Aside, rows
<1>3. CASE \E u \in Users : DeleteMember(u)
  BY <1>1, <1>3, DeleteDoes
<1>4. CASE \E t \in Tasks : VerifyRead(t)
  BY <1>1, <1>4, ReadDoes DEF rows
<1>5. CASE \E t \in Tasks : InitializeCommit(t)
  BY <1>1, <1>5, OpenDoes DEF RowGets
<1>6. CASE \E t \in Tasks : VerifySettle(t)
  BY <1>1, <1>2, <1>6, SettleDoes DEF RowGets, Books, OnlineRows
<1>7. CASE \E t \in Tasks : VerifyNotify(t)
  BY <1>1, <1>2, <1>7, ConfirmationDoes DEF rows
<1>8. CASE \E t \in Tasks : VerifyMail(t)
  BY <1>1, <1>8, ReceiptDoes DEF rows
<1>9. CASE \E t \in Tasks, q \in Manual : RecordOffline(t, q)
  BY <1>1, <1>9, RecordDoes DEF RowGets
<1>10. CASE \/ \E h \in Threads : SubmitNotify(h)
            \/ \E t \in Tasks : RecordNotify(t)
  BY <1>1, <1>10, AnnouncementDoes DEF rows
<1>11. CASE \E h \in Threads, q \in Manual : SubmitProof(h, q)
  BY <1>1, <1>11, FileDoes DEF RowGets
<1>12. CASE \E h \in Threads : ApproveCommit(h)
  <2>1. PICK h \in Threads : ApproveCommit(h)
    BY <1>12
  <2>2. CASE thread[h].pay # p \/ Aside
    BY <1>1, <1>2, <2>1, <2>2, ApprovalDoes DEF RowGets
  <2>3. CASE thread[h].pay = p /\ ~ Aside
    <3>1. /\ thread[h].pc = "approving" /\ Owner(p) \in members
          /\ RowGets(p, "completed") /\ UNCHANGED reason
      BY <2>1, <2>3, ApprovalDoes
    <3>2. status[p] = "pending_verification"
      BY <2>3, <3>1 DEF Undecided
    <3> QED
      BY <3>1, <3>2 DEF RowGets
  <2> QED
    BY <2>2, <2>3
<1>13. CASE \E h \in Threads : RejectCommit(h)
  BY <1>1, <1>2, <1>13, RejectionDoes DEF RowGets
<1>14. CASE \E h \in Threads : ApproveNotify(h)
  BY <1>1, <1>2, <1>14, ApprovalTold DEF rows
<1>15. CASE \E h \in Threads : ApproveMail(h) \/ RejectNotify(h)
  BY <1>1, <1>15, ApprovalMailed, RejectionTold DEF rows
<1> QED
  BY <1>2, <1>3, <1>4, <1>5, <1>6, <1>7, <1>8, <1>9, <1>10, <1>11, <1>12, <1>13, <1>14, <1>15,
     PaymentSteps

LEMMA UndecidedHolds == OneReviewer => (Spec => [](TypeOK /\ Books /\ Undecided))
<1> SUFFICES ASSUME OneReviewer PROVE Spec => [](TypeOK /\ Books /\ Undecided)
  OBVIOUS
<1>1. Init => Undecided
  BY DEF Init, Undecided, Idle
<1>2. TypeOK /\ Books /\ Undecided /\ [Next]_vars => Undecided'
  BY UndecidedStep
<1> QED
  BY <1>1, <1>2, TypeCorrect, BooksAreRight, PTL DEF Spec

(* While one reviewer at a time decides, a rejection reason is stored with *)
(* a rejected record and with no other: approve_payment leaves the column  *)
(* alone, and that is right because it decides only what nobody rejected.  *)
THEOREM ReasonsMatch == OneReviewer => (Spec => []ReasonMatchesStatus)
<1> SUFFICES ASSUME OneReviewer PROVE Spec => []ReasonMatchesStatus
  OBVIOUS
<1>1. Init => ReasonMatchesStatus
  BY DEF Init, ReasonMatchesStatus
<1>2. /\ TypeOK /\ Books /\ Undecided
      /\ ReasonMatchesStatus /\ [Next]_vars
      => ReasonMatchesStatus'
  BY ReasonedStep DEF ReasonMatchesStatus, Reasoned
<1> QED
  BY <1>1, <1>2, UndecidedHolds, PTL DEF Spec

(* A step that neither writes row p nor tells about it, and moves no       *)
(* handler that has decided it.                                            *)
Elsewhere(p) ==
    /\ UNCHANGED members
    /\ status'[p] = status[p]
    /\ \A n \in Notice : told'[p][n] = told[p][n]
    /\ Sent(p)' <= Sent(p)
    /\ \A h \in Threads : thread'[h].pc \in Decided /\ thread'[h].pay = p => thread'[h] = thread[h]

LEMMA ElsewhereKeeps ==
    ASSUME TypeOK, TypeOK', NEW p \in Payment, ToldRight(p), Elsewhere(p)
    PROVE  ToldRight(p)'
<1>1. {"approved", "rejected"} \subseteq Notice
  BY DEF Notice
<1>2. \A n \in {"approved", "rejected"} : Told(p, n)' => Told(p, n)
  BY <1>1 DEF Told, Elsewhere
<1>3. Sent(p) \in Nat /\ Sent(p)' \in Nat
  BY DEF TypeOK, Sent
<1>4. Sent(p)' > 0 => Sent(p) > 0
  BY <1>3 DEF Elsewhere
<1> QED
  BY <1>2, <1>4 DEF Elsewhere, ToldRight

LEMMA StillSent == ASSUME TypeOK, NEW p \in Payment, mail'[p] = mail[p], receipts'[p] = receipts[p]
                   PROVE  Sent(p)' <= Sent(p)
  BY Numbers DEF Sent

(* Nothing was told about a record that was open until now.                *)
LEMMA OpenWasQuiet ==
    ASSUME TypeOK, NEW p \in Payment, ToldRight(p), Owner(p) \in members,
           status[p] \notin {"completed", "rejected"}
    PROVE  /\ ~ Told(p, "approved") /\ ~ Told(p, "rejected") /\ ~ (Sent(p) > 0)
           /\ \A h \in Threads : ~ (thread[h].pc \in Decided /\ thread[h].pay = p)
  BY DEF ToldRight

(* Neither is it by the step that decides it, or files it.                 *)
LEMMA DecidedRight ==
    ASSUME TypeOK, NEW p \in Payment, ToldRight(p), Owner(p) \in members,
           status[p] \notin {"completed", "rejected"},
           NEW s \in Status, status'[p] = s, UNCHANGED notices,
           \A h \in Threads :
              \/ thread'[h] = thread[h]
              \/ thread'[h].pc \notin Decided
              \/ s = IF thread'[h].pc = "rejected" THEN "rejected" ELSE "completed"
    PROVE  ToldRight(p)'
<1>1. ~ Told(p, "approved")' /\ ~ Told(p, "rejected")' /\ ~ (Sent(p)' > 0)
  BY OpenWasQuiet DEF Told, Sent, notices
<1>2. \A h \in Threads : thread'[h].pc \in Decided /\ thread'[h].pay = p =>
          s = IF thread'[h].pc = "rejected" THEN "rejected" ELSE "completed"
  BY OpenWasQuiet
<1> QED
  BY <1>1, <1>2 DEF ToldRight

LEMMA ToldRightStep ==
    ASSUME TypeOK, TypeOK', Books, Undecided, [Next]_vars, NEW p \in Manual, ToldRight(p)
    PROVE  ToldRight(p)'
<1> USE References, OnlineIsNotManual
<1>0. p \in Payment /\ p \notin Online
  OBVIOUS
<1>1. Elsewhere(p) => ToldRight(p)'
  BY <1>0, ElsewhereKeeps
<1>2. CASE Aside
  <2>1. Elsewhere(p)
    BY <1>0, <1>2 DEF Aside, Elsewhere, rows, ThreadsQuiet
  <2> QED
    BY <1>1, <2>1
<1>3. CASE \E u \in Users : DeleteMember(u)
  <2>1. PICK u \in Users : DeleteMember(u)
    BY <1>3
  <2>2. /\ members' = members \ {u} /\ (Owner(p) # u => status'[p] = status[p])
        /\ UNCHANGED <<thread, notices>>
    BY <1>0, <2>1, DeleteDoes
  <2> QED
    BY <2>2 DEF ToldRight, Told, Sent, notices
<1>4. ASSUME UNCHANGED members, UNCHANGED thread \/ ThreadsQuiet, UNCHANGED notices,
             status'[p] = status[p]
      PROVE  ToldRight(p)'
  <2>1. Elsewhere(p)
    BY <1>0, <1>4, StillSent DEF Elsewhere, notices, ThreadsQuiet
  <2> QED
    BY <1>1, <2>1
<1>5. CASE \E t \in Tasks : VerifyRead(t) \/ InitializeCommit(t)
  BY <1>0, <1>4, <1>5, ReadDoes, OpenDoes DEF rows, RowGets
<1>6. CASE \E t \in Tasks : VerifySettle(t)
  <2>1. PICK t \in Tasks : VerifySettle(t)
    BY <1>6
  <2>2. CASE ~ Aside
    <3>1. /\ task[t].pay \in Online /\ RowGets(task[t].pay, "completed")
          /\ UNCHANGED <<thread, told, mail, receipts>>
      BY <2>1, <2>2, SettleDoes
    <3>2. Elsewhere(p)
      BY <1>0, <3>1, StillSent DEF Elsewhere, RowGets
    <3> QED
      BY <1>1, <3>2
  <2> QED
    BY <1>2, <2>2
<1>7. CASE \E t \in Tasks : VerifyNotify(t)
  <2>1. PICK t \in Tasks : VerifyNotify(t)
    BY <1>7
  <2>2. CASE ~ Aside
    <3>1. /\ task[t].pay \in Online /\ TellsOf(task[t].pay, "confirmed")
          /\ UNCHANGED <<members, rows, thread, mail, receipts>>
      BY <2>1, <2>2, ConfirmationDoes
    <3>2. Elsewhere(p)
      BY <1>0, <3>1, StillSent DEF Elsewhere, TellsOf, rows
    <3> QED
      BY <1>1, <3>2
  <2> QED
    BY <1>2, <2>2
<1>8. CASE \E t \in Tasks : VerifyMail(t)
  <2>1. PICK t \in Tasks : VerifyMail(t)
    BY <1>8
  <2>2. /\ task[t].pay \in Online /\ MailsOf(task[t].pay) /\ ThreadsQuiet
        /\ UNCHANGED <<members, rows, told>>
    BY <2>1, ReceiptDoes
  <2>3. Elsewhere(p)
    BY <1>0, <2>2, StillSent DEF Elsewhere, MailsOf, rows, ThreadsQuiet
  <2> QED
    BY <1>1, <2>3
<1>9. CASE \E t \in Tasks, q \in Manual : RecordOffline(t, q)
  <2>1. PICK t \in Tasks, q \in Manual : RecordOffline(t, q)
    BY <1>9
  <2>2. /\ Owner(q) \in members /\ status[q] = "absent" /\ RowGets(q, "completed")
        /\ UNCHANGED <<thread, notices>>
    BY <2>1, RecordDoes
  <2>3. CASE q = p
    BY <1>0, <2>2, <2>3, DecidedRight DEF RowGets, Status
  <2>4. CASE q # p
    BY <1>0, <1>4, <2>2, <2>4 DEF RowGets
  <2> QED
    BY <2>3, <2>4
<1>10. CASE \E h \in Threads, q \in Manual : SubmitProof(h, q)
  <2>1. PICK h \in Threads, q \in Manual : SubmitProof(h, q)
    BY <1>10
  <2>2. /\ Owner(q) \in members /\ status[q] = "absent" /\ RowGets(q, "pending_verification")
        /\ ThreadsQuiet /\ UNCHANGED notices
    BY <2>1, FileDoes
  <2>3. CASE q = p
    BY <1>0, <2>2, <2>3, DecidedRight DEF RowGets, Status, ThreadsQuiet
  <2>4. CASE q # p
    BY <1>0, <1>4, <2>2, <2>4 DEF RowGets
  <2> QED
    BY <2>3, <2>4
<1>11. CASE \/ \E h \in Threads : SubmitNotify(h)
            \/ \E t \in Tasks : RecordNotify(t)
  <2>1. ThreadsQuiet /\ UNCHANGED <<members, rows, told, mail, receipts>>
    BY <1>11, AnnouncementDoes
  <2>2. Elsewhere(p)
    BY <1>0, <2>1, StillSent DEF Elsewhere, ThreadsQuiet, rows
  <2> QED
    BY <1>1, <2>2
<1>12. CASE \E h \in Threads : ApproveCommit(h) \/ RejectCommit(h)
  <2>1. PICK h \in Threads : ApproveCommit(h) \/ RejectCommit(h)
    BY <1>12
  <2> DEFINE q == thread[h].pay
  <2>2. CASE ~ Aside
    <3>1. PICK s \in {"completed", "rejected"} :
            /\ q \in Manual /\ q \in Payment /\ Owner(q) \in members
            /\ thread[h].pc \in {"approving", "rejecting"} /\ status[q] # "absent"
            /\ RowGets(q, s)
            /\ s = IF thread'[h].pc = "rejected" THEN "rejected" ELSE "completed"
            /\ OthersThreads(h) /\ UNCHANGED notices /\ thread'[h].pay = q
      BY <2>1, <2>2, ApprovalDoes, RejectionDoes
    <3>2. CASE q = p
      <4>1. status[p] = "pending_verification"
        BY <3>1, <3>2 DEF Undecided
      <4>2. \A g \in Threads : \/ thread'[g] = thread[g]
                              \/ s = IF thread'[g].pc = "rejected" THEN "rejected" ELSE "completed"
        BY <3>1 DEF OthersThreads
      <4>3. status'[p] = s /\ s \in Status
        BY <3>1, <3>2 DEF RowGets, Status
      <4> HIDE DEF q
      <4> QED
        BY <1>0, <3>1, <3>2, <4>1, <4>2, <4>3, DecidedRight
    <3>3. CASE q # p
      <4>1. /\ status'[p] = status[p]
            /\ \A g \in Threads : thread'[g].pc \in Decided /\ thread'[g].pay = p =>
                 thread'[g] = thread[g]
        BY <1>0, <3>1, <3>3 DEF RowGets, OthersThreads
      <4>2. Elsewhere(p)
        BY <1>0, <3>1, <4>1, StillSent DEF Elsewhere, notices, RowGets
      <4> QED
        BY <1>1, <4>2
    <3> QED
      BY <3>2, <3>3
  <2> QED
    BY <1>2, <2>2
<1>13. CASE \E h \in Threads : ApproveNotify(h)
  <2>1. PICK h \in Threads : ApproveNotify(h)
    BY <1>13
  <2> DEFINE q == thread[h].pay
  <2>2. CASE ~ Aside
    <3>1. /\ q \in Payment /\ thread[h].pc = "approved" /\ thread'[h].pc = "approval_told"
          /\ thread'[h].pay = q /\ OthersThreads(h) /\ TellsOf(q, "approved")
          /\ UNCHANGED <<members, rows, mail, receipts>>
      BY <2>1, <2>2, ApprovalTold
    <3>2. CASE q = p /\ Owner(p) \in members
      <4>1. status[p] = "completed" /\ ~ Told(p, "rejected")
        BY <3>1, <3>2 DEF ToldRight, Decided
      <4>2. ~ Told(p, "rejected")'
        BY <1>0, <3>1, <3>2, <4>1 DEF Told, TellsOf, Notice
      <4>3. status'[p] = "completed"
        BY <3>1, <4>1 DEF rows
      <4>4. \A g \in Threads : thread'[g].pc \in Decided /\ thread'[g].pay = p =>
               thread'[g].pc # "rejected"
        BY <3>1, <3>2, <4>1 DEF ToldRight, OthersThreads
      <4> QED
        BY <4>2, <4>3, <4>4 DEF ToldRight
    <3>3. CASE q # p
      <4>1. Elsewhere(p)
        BY <1>0, <3>1, <3>3, StillSent DEF Elsewhere, TellsOf, OthersThreads, rows
      <4> QED
        BY <1>1, <4>1
    <3>4. CASE Owner(p) \notin members
      BY <3>1, <3>4 DEF ToldRight
    <3> QED
      BY <3>2, <3>3, <3>4
  <2> QED
    BY <1>2, <2>2
<1>14. CASE \E h \in Threads : ApproveMail(h)
  <2>1. PICK h \in Threads : ApproveMail(h)
    BY <1>14
  <2> DEFINE q == thread[h].pay
  <2>2. /\ q \in Payment /\ thread[h].pc = "approval_told" /\ MailsOf(q) /\ ThreadsQuiet
        /\ UNCHANGED <<members, rows, told>>
    BY <2>1, ApprovalMailed
  <2>3. CASE q = p /\ Owner(p) \in members
    <3>1. status[p] = "completed" /\ ~ Told(p, "rejected")
      BY <2>2, <2>3 DEF ToldRight, Decided
    <3>2. status'[p] = "completed" /\ ~ Told(p, "rejected")'
      BY <2>2, <3>1 DEF rows, Told
    <3>3. \A g \in Threads : thread'[g].pc \in Decided /\ thread'[g].pay = p =>
             thread'[g].pc # "rejected"
      BY <2>2, <2>3, <3>1 DEF ToldRight, ThreadsQuiet
    <3> QED
      BY <3>2, <3>3 DEF ToldRight
  <2>4. CASE q # p
    <3>1. Elsewhere(p)
      BY <1>0, <2>2, <2>4, StillSent DEF Elsewhere, MailsOf, ThreadsQuiet, rows
    <3> QED
      BY <1>1, <3>1
  <2>5. CASE Owner(p) \notin members
    BY <2>2, <2>5 DEF ToldRight
  <2> QED
    BY <2>3, <2>4, <2>5
<1>15. CASE \E h \in Threads : RejectNotify(h)
  <2>1. PICK h \in Threads : RejectNotify(h)
    BY <1>15
  <2> DEFINE q == thread[h].pay
  <2>2. /\ q \in Payment /\ thread[h].pc = "rejected" /\ TellsOf(q, "rejected") /\ ThreadsQuiet
        /\ UNCHANGED <<members, rows, mail, receipts>>
    BY <2>1, RejectionTold
  <2>3. CASE q = p /\ Owner(p) \in members
    <3>1. status[p] = "rejected" /\ ~ Told(p, "approved") /\ ~ (Sent(p) > 0)
      BY <2>2, <2>3 DEF ToldRight, Decided
    <3>2. status'[p] = "rejected" /\ ~ Told(p, "approved")' /\ ~ (Sent(p)' > 0)
      BY <1>0, <2>2, <2>3, <3>1 DEF rows, Told, TellsOf, Notice, Sent
    <3>3. \A g \in Threads : thread'[g].pc \in Decided /\ thread'[g].pay = p =>
             thread'[g].pc = "rejected"
      BY <2>2, <2>3, <3>1 DEF ToldRight, ThreadsQuiet
    <3> QED
      BY <3>2, <3>3 DEF ToldRight
  <2>4. CASE q # p
    <3>1. Elsewhere(p)
      BY <1>0, <2>2, <2>4, StillSent DEF Elsewhere, TellsOf, ThreadsQuiet, rows
    <3> QED
      BY <1>1, <3>1
  <2>5. CASE Owner(p) \notin members
    BY <2>2, <2>5 DEF ToldRight
  <2> QED
    BY <2>3, <2>4, <2>5
<1> QED
  BY <1>2, <1>3, <1>5, <1>6, <1>7, <1>8, <1>9, <1>10, <1>11, <1>12, <1>13, <1>14, <1>15,
     PaymentSteps

(* While one reviewer at a time decides, what the member was told of a     *)
(* bank-transfer proof agrees with the record (approve_payment,            *)
(* reject_payment), although it is told after the commit.                  *)
THEOREM ToldTheTruth == OneReviewer => (Spec => []MemberToldTheTruth)
<1> SUFFICES ASSUME OneReviewer PROVE Spec => []MemberToldTheTruth
  OBVIOUS
<1> DEFINE Inv == \A p \in Manual : ToldRight(p)
<1>1. Init => Inv
  BY References DEF Init, ToldRight, Told, Sent, Decided, Idle, Notice
<1>2. TypeOK /\ TypeOK' /\ Books /\ Undecided /\ Inv /\ [Next]_vars => Inv'
  BY ToldRightStep
<1>3. TypeOK /\ Inv => MemberToldTheTruth
  BY References DEF ToldRight, Told, Sent, MemberToldTheTruth
<1> HIDE DEF Inv
<1> QED
  BY <1>1, <1>2, <1>3, UndecidedHolds, PTL DEF Spec

-----------------------------------------------------------------------------
(* With all tasks on one event loop, one at a time works on the database   *)
(* without awaiting.                                                       *)

OneLoop == \A t, o \in Tasks : LoopOf[t] = LoopOf[o]
Solo    == \A t, o \in Tasks : task[t].pc \in InLoop /\ task[o].pc \in InLoop => t = o

Untold(p) == adminTold[p] = 0 /\ told[p]["confirmed"] = 0 /\ Sent(p) = 0

(* What is still to be told of p by the verification that is at it.        *)
Once(p) ==
    /\ Owner(p) \in members /\ status[p] # "completed" => Untold(p)
    /\ \A t \in Tasks : task[t].pc \in Verifying /\ task[t].pay = p =>
         /\ task[t].pc = "settling" => Untold(p)
         /\ task[t].pc = "settled" => told[p]["confirmed"] = 0
         /\ Sent(p) = 0
         /\ task[t].pc # "settling" /\ Owner(p) \in members => status[p] = "completed"
    /\ told[p]["confirmed"] <= 1 /\ adminTold[p] <= 1 /\ Sent(p) <= 1

LEMMA LoopEntered ==
    ASSUME OneLoop, Solo, NEW t \in Tasks, LoopFree(t), OthersTasks(t)
    PROVE  Solo'
<1>1. \A o \in Tasks \ {t} : task[o].pc \notin InLoop
  BY DEF OneLoop, LoopFree
<1> QED
  BY <1>1 DEF Solo, OthersTasks

LEMMA LoopKept ==
    ASSUME Solo, NEW t \in Tasks, task[t].pc \in InLoop, OthersTasks(t)
    PROVE  Solo'
  BY DEF Solo, OthersTasks

LEMMA SoloStep ==
    ASSUME OneLoop, TypeOK, Books, Solo, [Next]_vars
    PROVE  Solo'
<1>1. TasksQuiet => Solo'
  BY DEF TasksQuiet, Solo
<1>2. CASE Aside
  BY <1>1, <1>2 DEF Aside
<1>3. ASSUME UNCHANGED task PROVE Solo'
  BY <1>3 DEF Solo
<1>4. CASE \E u \in Users : DeleteMember(u)
  BY <1>3, <1>4, DeleteDoes
<1>5. CASE \E t \in Tasks : VerifyRead(t)
  BY <1>5, ReadDoes, LoopEntered
<1>6. CASE \E t \in Tasks : InitializeCommit(t) \/ VerifyMail(t) \/ RecordNotify(t)
  BY <1>1, <1>6, OpenDoes, ReceiptDoes, AnnouncementDoes
<1>7. CASE \E t \in Tasks : VerifySettle(t) \/ VerifyNotify(t)
  <2>1. PICK t \in Tasks : VerifySettle(t) \/ VerifyNotify(t)
    BY <1>7
  <2>2. Aside \/ (task[t].pc \in InLoop /\ OthersTasks(t))
    BY <2>1, SettleDoes, ConfirmationDoes DEF InLoop, Verifying
  <2> QED
    BY <1>2, <2>2, LoopKept
<1>8. CASE \E t \in Tasks, p \in Manual : RecordOffline(t, p)
  BY <1>8, RecordDoes, LoopEntered
<1>9. CASE \E h \in Threads : \/ \E p \in Manual : SubmitProof(h, p)
                             \/ SubmitNotify(h) \/ ApproveMail(h) \/ RejectNotify(h)
  BY <1>1, <1>9, FileDoes, AnnouncementDoes, ApprovalMailed, RejectionTold
<1>10. CASE \E h \in Threads : ApproveCommit(h) \/ ApproveNotify(h) \/ RejectCommit(h)
  BY <1>2, <1>3, <1>10, ApprovalDoes, ApprovalTold, RejectionDoes
<1> QED
  BY <1>2, <1>4, <1>5, <1>6, <1>7, <1>8, <1>9, <1>10, PaymentSteps

(* A step that neither writes row p nor tells about it, and brings no      *)
(* verification of it further.                                             *)
NotAt(p) ==
    /\ UNCHANGED members
    /\ status'[p] = status[p] /\ adminTold'[p] = adminTold[p]
    /\ told'[p]["confirmed"] = told[p]["confirmed"]
    /\ Sent(p)' <= Sent(p)
    /\ \A t \in Tasks : task'[t].pc \in Verifying /\ task'[t].pay = p => task'[t] = task[t]

LEMMA NotAtKeeps ==
    ASSUME TypeOK, TypeOK', NEW p \in Payment, Once(p), NotAt(p)
    PROVE  Once(p)'
<1>1. /\ Sent(p) \in Nat /\ Sent(p)' \in Nat
      /\ told[p]["confirmed"] \in Nat /\ adminTold[p] \in Nat
  BY DEF TypeOK, Sent, Notice
<1>2. Untold(p) => Untold(p)'
  BY <1>1 DEF Untold, NotAt
<1>3. Sent(p) = 0 => Sent(p)' = 0
  BY <1>1 DEF NotAt
<1>4. Sent(p) <= 1 => Sent(p)' <= 1
  BY <1>1 DEF NotAt
<1> QED
  BY <1>1, <1>2, <1>3, <1>4 DEF NotAt, Once

(* The steps of a verification, each with the loop to itself.              *)
LEMMA ReadOnce ==
    ASSUME TypeOK, TypeOK', Books, NEW p \in Online, Once(p), NEW t \in Tasks, VerifyRead(t)
    PROVE  Once(p)'
<1> DEFINE q == task[t].pay
<1>0. p \in Payment /\ q \in Payment
  BY References, ReadDoes
<1>1. /\ status[q] = "pending" /\ task'[t].pc = "settling" /\ task'[t].pay = q
      /\ OthersTasks(t) /\ UNCHANGED <<members, rows, notices>>
  BY ReadDoes
<1>2. CASE q # p
  <2>1. NotAt(p)
    BY <1>0, <1>1, <1>2, StillSent DEF NotAt, OthersTasks, rows, notices
  <2> QED
    BY <1>0, <2>1, NotAtKeeps
<1>3. CASE q = p
  <2>1. Owner(p) \in members
    BY <1>0, <1>1, <1>3 DEF Books, DeletedHasNoRows
  <2>2. Untold(p)
    BY <1>1, <1>3, <2>1 DEF Once
  <2>3. Untold(p)'
    BY <1>1, <2>2 DEF Untold, Sent, notices
  <2>4. \A o \in Tasks \ {t} : task'[o] = task[o]
    BY <1>1 DEF OthersTasks
  <2>5. status' = status /\ members' = members
    BY <1>1 DEF rows
  <2>6. told[p]["confirmed"]' <= 1 /\ adminTold[p]' <= 1 /\ Sent(p)' <= 1 /\ Sent(p)' = 0
        /\ told[p]["confirmed"]' = 0
    BY <2>3 DEF Untold
  <2> HIDE DEF q
  <2> QED
    BY <1>1, <2>3, <2>4, <2>5, <2>6 DEF Once
<1> QED
  BY <1>2, <1>3

LEMMA SettleOnce ==
    ASSUME TypeOK, TypeOK', Books, Solo, NEW p \in Online, Once(p),
           NEW t \in Tasks, VerifySettle(t), ~ Aside
    PROVE  Once(p)'
<1> DEFINE q == task[t].pay
<1>0. p \in Payment /\ q \in Payment
  BY References, SettleDoes
<1>1. /\ RowGets(q, "completed") /\ task[t].pc = "settling"
      /\ task'[t].pc = "settled" /\ task'[t].pay = q /\ OthersTasks(t)
      /\ adminTold'[q] = adminTold[q] + 1
      /\ \A r \in Payment \ {q} : adminTold'[r] = adminTold[r]
      /\ UNCHANGED <<told, mail, receipts>>
  BY SettleDoes
<1>2. CASE q # p
  <2>1. NotAt(p)
    BY <1>0, <1>1, <1>2, StillSent DEF NotAt, OthersTasks, RowGets
  <2> QED
    BY <1>0, <2>1, NotAtKeeps
<1>3. CASE q = p
  <2>1. Untold(p)
    BY <1>1, <1>3 DEF Once, Verifying
  <2>2. adminTold[p]' = 1 /\ told[p]["confirmed"]' = 0 /\ Sent(p)' = 0 /\ status[p]' = "completed"
    BY <1>1, <1>3, <2>1 DEF Untold, Sent, RowGets
  <2>3. \A o \in Tasks \ {t} : task'[o].pc \notin Verifying
    BY <1>1 DEF Solo, OthersTasks, InLoop, Verifying
  <2> HIDE DEF q
  <2> QED
    BY <1>1, <2>2, <2>3 DEF Once
<1> QED
  BY <1>2, <1>3

LEMMA ConfirmOnce ==
    ASSUME TypeOK, TypeOK', Solo, NEW p \in Online, Once(p),
           NEW t \in Tasks, VerifyNotify(t), ~ Aside
    PROVE  Once(p)'
<1> DEFINE q == task[t].pay
<1>0. p \in Payment /\ q \in Payment
  BY References, ConfirmationDoes
<1>1. /\ task[t].pc = "settled" /\ task'[t].pc = "notified" /\ task'[t].pay = q
      /\ OthersTasks(t) /\ TellsOf(q, "confirmed")
      /\ UNCHANGED <<members, rows, adminTold, mail, receipts>>
  BY ConfirmationDoes
<1>2. CASE q # p
  <2>1. told'[p]["confirmed"] = told[p]["confirmed"]
    BY <1>0, <1>1, <1>2 DEF TellsOf, Notice
  <2>2. NotAt(p)
    BY <1>0, <1>1, <1>2, <2>1, StillSent DEF NotAt, OthersTasks, rows
  <2> QED
    BY <1>0, <2>2, NotAtKeeps
<1>3. CASE q = p
  <2>1. /\ told[p]["confirmed"] = 0 /\ Sent(p) = 0 /\ adminTold[p] <= 1
        /\ Owner(p) \in members => status[p] = "completed"
    BY <1>1, <1>3 DEF Once, Verifying
  <2>2. /\ told[p]["confirmed"]' <= 1 /\ Sent(p)' = 0 /\ adminTold[p]' <= 1
        /\ Owner(p) \in members' => status[p]' = "completed"
    BY <1>0, <1>1, <1>3, <2>1 DEF TellsOf, Sent, rows
  <2>3. \A o \in Tasks \ {t} : task'[o].pc \notin Verifying
    BY <1>1 DEF Solo, OthersTasks, InLoop, Verifying
  <2> HIDE DEF q
  <2> QED
    BY <1>1, <2>2, <2>3 DEF Once
<1> QED
  BY <1>2, <1>3

LEMMA ReceiptOnce ==
    ASSUME TypeOK, TypeOK', Solo, NEW p \in Online, Once(p), NEW t \in Tasks, VerifyMail(t)
    PROVE  Once(p)'
<1> DEFINE q == task[t].pay
<1>0. p \in Payment /\ q \in Payment
  BY References, ReceiptDoes
<1>1. /\ task[t].pc = "notified" /\ MailsOf(q) /\ TasksQuiet
      /\ UNCHANGED <<members, rows, told, adminTold>>
  BY ReceiptDoes
<1>2. CASE q # p
  <2>1. NotAt(p)
    BY <1>0, <1>1, <1>2, StillSent DEF NotAt, MailsOf, TasksQuiet, InLoop, rows
  <2> QED
    BY <1>0, <2>1, NotAtKeeps
<1>3. CASE q = p
  <2>1. /\ Sent(p) = 0 /\ told[p]["confirmed"] <= 1 /\ adminTold[p] <= 1
        /\ Owner(p) \in members => status[p] = "completed"
    BY <1>1, <1>3 DEF Once, Verifying
  <2>2. Sent(p)' <= 1
    BY <1>0, <1>1, <1>3, <2>1 DEF MailsOf, Sent, TypeOK
  <2>3. /\ told[p]["confirmed"]' <= 1 /\ adminTold[p]' <= 1
        /\ Owner(p) \in members' => status[p]' = "completed"
    BY <1>1, <2>1 DEF rows
  <2>4. task'[t] # task[t]
    BY TaskEnded DEF VerifyMail, TaskEnd, Idle, TypeOK
  <2>5. \A o \in Tasks : task'[o].pc \notin Verifying
    BY <1>1, <2>4 DEF Solo, TasksQuiet, InLoop, Verifying
  <2> QED
    BY <2>2, <2>3, <2>5 DEF Once
<1> QED
  BY <1>2, <1>3

LEMMA OnceStep ==
    ASSUME TypeOK, TypeOK', Books, Solo, [Next]_vars, NEW p \in Online, Once(p)
    PROVE  Once(p)'
<1> USE References, OnlineIsNotManual
<1>0. p \in Payment /\ p \notin Manual
  OBVIOUS
<1>1. NotAt(p) => Once(p)'
  BY <1>0, NotAtKeeps
<1>2. CASE Aside
  <2>1. NotAt(p)
    BY <1>0, <1>2 DEF Aside, NotAt, rows, TasksQuiet, InLoop
  <2> QED
    BY <1>1, <2>1
<1>3. CASE \E u \in Users : DeleteMember(u)
  <2>1. PICK u \in Users : DeleteMember(u)
    BY <1>3
  <2>2. /\ members' = members \ {u} /\ (Owner(p) # u => status'[p] = status[p])
        /\ UNCHANGED <<task, notices>>
    BY <1>0, <2>1, DeleteDoes
  <2>3. (Untold(p) <=> Untold(p)') /\ Sent(p)' = Sent(p)
    BY <2>2 DEF Untold, Sent, notices
  <2>4. Owner(p) \in members' => Owner(p) \in members /\ status'[p] = status[p]
    BY <2>2
  <2> QED
    BY <2>2, <2>3, <2>4 DEF Once, notices
<1>4. ASSUME UNCHANGED members, TasksQuiet \/ UNCHANGED task, UNCHANGED notices,
             status'[p] = status[p]
      PROVE  Once(p)'
  <2>1. NotAt(p)
    BY <1>0, <1>4, StillSent DEF NotAt, notices, TasksQuiet, InLoop
  <2> QED
    BY <1>1, <2>1
<1>5. CASE \E t \in Tasks : VerifyRead(t) \/ VerifyMail(t)
  BY <1>5, ReadOnce, ReceiptOnce
<1>6. CASE \E t \in Tasks : VerifySettle(t) \/ VerifyNotify(t)
  BY <1>2, <1>6, SettleOnce, ConfirmOnce
<1>7. CASE \E t \in Tasks : InitializeCommit(t)
  <2>1. PICK t \in Tasks : InitializeCommit(t)
    BY <1>7
  <2> DEFINE q == task[t].pay
  <2>2. /\ Owner(q) \in members /\ status[q] = "absent" /\ RowGets(q, "pending")
        /\ TasksQuiet /\ UNCHANGED notices
    BY <2>1, OpenDoes
  <2>3. CASE q = p
    <3>1. Untold(p)
      BY <2>2, <2>3 DEF Once
    <3>2. /\ Untold(p)' /\ told[p]["confirmed"]' <= 1 /\ adminTold[p]' <= 1
          /\ Sent(p)' <= 1 /\ Sent(p)' = 0
      BY <2>2, <3>1 DEF Untold, Sent, notices
    <3>3. \A o \in Tasks : task'[o].pc \in Verifying /\ task'[o].pay = p =>
             task'[o].pc = "settling" \/ Owner(p) \notin members
      BY <2>2, <2>3 DEF Once, TasksQuiet, InLoop, Verifying
    <3>4. told[p]["confirmed"]' = 0 /\ UNCHANGED members
      BY <2>2, <3>2 DEF Untold, RowGets
    <3> HIDE DEF q
    <3> QED
      BY <3>2, <3>3, <3>4 DEF Once
  <2>4. CASE q # p
    BY <1>0, <1>4, <2>2, <2>4 DEF RowGets
  <2> QED
    BY <2>3, <2>4
<1>8. CASE \E t \in Tasks, q \in Manual : RecordOffline(t, q)
  <2>1. PICK t \in Tasks, q \in Manual : RecordOffline(t, q)
    BY <1>8
  <2>2. /\ q # p /\ RowGets(q, "completed") /\ task'[t].pc = "recorded"
        /\ OthersTasks(t) /\ UNCHANGED notices
    BY <1>0, <2>1, RecordDoes
  <2>3. NotAt(p)
    BY <1>0, <2>2, StillSent DEF NotAt, RowGets, OthersTasks, notices, Verifying
  <2> QED
    BY <1>1, <2>3
<1>9. CASE \E h \in Threads, q \in Manual : SubmitProof(h, q)
  BY <1>0, <1>4, <1>9, FileDoes DEF RowGets
<1>10. CASE \/ \E h \in Threads : SubmitNotify(h)
            \/ \E t \in Tasks : RecordNotify(t)
  <2>1. /\ adminTold'[p] = adminTold[p] /\ TasksQuiet
        /\ UNCHANGED <<members, rows, told, mail, receipts>>
    BY <1>0, <1>10, AnnouncementDoes
  <2>2. NotAt(p)
    BY <1>0, <2>1, StillSent DEF NotAt, TasksQuiet, InLoop, rows
  <2> QED
    BY <1>1, <2>2
<1>11. CASE \E h \in Threads : ApproveCommit(h) \/ RejectCommit(h)
  BY <1>0, <1>2, <1>4, <1>11, ApprovalDoes, RejectionDoes DEF RowGets
<1>12. CASE \E h \in Threads : ApproveNotify(h) \/ RejectNotify(h)
  <2>1. PICK h \in Threads : ApproveNotify(h) \/ RejectNotify(h)
    BY <1>12
  <2>2. CASE ~ Aside
    <3>1. PICK q \in Manual, n \in {"approved", "rejected"} :
            /\ TellsOf(q, n) /\ (TasksQuiet \/ UNCHANGED task)
            /\ UNCHANGED <<members, rows, adminTold, mail, receipts>>
      BY <2>1, <2>2, ApprovalTold, RejectionTold
    <3>2. told'[p]["confirmed"] = told[p]["confirmed"]
      BY <1>0, <3>1 DEF TellsOf, Notice
    <3>3. NotAt(p)
      BY <1>0, <3>1, <3>2, StillSent DEF NotAt, TasksQuiet, InLoop, rows
    <3> QED
      BY <1>1, <3>3
  <2> QED
    BY <1>2, <2>2
<1>13. CASE \E h \in Threads : ApproveMail(h)
  <2>1. PICK q \in Manual : /\ MailsOf(q) /\ TasksQuiet
                            /\ UNCHANGED <<members, rows, told, adminTold>>
    BY <1>13, ApprovalMailed
  <2>2. mail'[p] = mail[p] /\ receipts' = receipts
    BY <1>0, <2>1 DEF MailsOf
  <2>3. NotAt(p)
    BY <1>0, <2>1, <2>2, StillSent DEF NotAt, TasksQuiet, InLoop, rows
  <2> QED
    BY <1>1, <2>3
<1> QED
  BY <1>2, <1>3, <1>5, <1>6, <1>7, <1>8, <1>9, <1>10, <1>11, <1>12, <1>13, PaymentSteps

(* While all tasks share one event loop, an online payment is announced at *)
(* most once to the member and to the administrators, and at most one      *)
(* receipt is sent, whatever verifications of it run at once: between the  *)
(* read of the row and the receipt verify_transaction awaits nothing.      *)
THEOREM OnceEach == OneLoop => (Spec => []ConfirmedOnce)
<1> SUFFICES ASSUME OneLoop PROVE Spec => []ConfirmedOnce
  OBVIOUS
<1> DEFINE Inv == \A p \in Online : Once(p)
<1>1. Init => Solo /\ Inv
  BY References DEF Init, Solo, Once, Untold, Sent, Idle, InLoop, Verifying, Notice
<1>2. TypeOK /\ Books /\ Solo /\ [Next]_vars => Solo'
  BY SoloStep
<1>3. TypeOK /\ TypeOK' /\ Books /\ Solo /\ Inv /\ [Next]_vars => Inv'
  BY OnceStep
<1>4. Inv => ConfirmedOnce
  BY DEF Once, Sent, ConfirmedOnce
<1> HIDE DEF Inv
<1> QED
  BY <1>1, <1>2, <1>3, <1>4, TypeCorrect, BooksAreRight, PTL DEF Spec

-----------------------------------------------------------------------------
(* What is left of the ledger when several administrators decide at once,  *)
(* on any number of event loops: a record begins while its member is       *)
(* there, an online one as pending and a manual one as submitted or        *)
(* completed; an online one then only goes from pending to completed; a    *)
(* decision completes or rejects a manual one that was submitted or        *)
(* recorded, none is submitted a second time; and no record goes without   *)
(* its member. (OnlyPendingRejected is what does not hold any more.)       *)
RowGoesForward(p) ==
    \/ status'[p] = status[p]
    \/ /\ Owner(p) \in members /\ status[p] = "absent"
       /\ \/ p \in Online /\ status'[p] = "pending"
          \/ p \in Manual /\ status'[p] \in {"pending_verification", "completed"}
    \/ p \in Online /\ status[p] = "pending" /\ status'[p] = "completed"
    \/ p \in Manual /\ status[p] # "absent" /\ status'[p] \in {"completed", "rejected"}
    \/ Owner(p) \notin members' /\ status'[p] = "absent"

RecordsGoForward == [][\A p \in Payment : RowGoesForward(p)]_vars

LEMMA ForwardStep ==
    ASSUME TypeOK, Books, [Next]_vars, NEW p \in Payment
    PROVE  RowGoesForward(p)
<1> USE References, OnlineIsNotManual
<1>1. status'[p] = status[p] => RowGoesForward(p)
  BY DEF RowGoesForward
<1>2. CASE Aside
  BY <1>1, <1>2 DEF Aside, rows
<1>3. CASE \E u \in Users : DeleteMember(u)
  <2>1. PICK u \in Users : DeleteMember(u)
    BY <1>3
  <2>2. /\ members' = members \ {u}
        /\ IF Owner(p) = u THEN status'[p] = "absent" ELSE status'[p] = status[p]
    BY <2>1, DeleteDoes
  <2> QED
    BY <2>2 DEF RowGoesForward
<1>4. CASE \/ \E t \in Tasks : VerifyRead(t) \/ VerifyNotify(t) \/ VerifyMail(t) \/ RecordNotify(t)
           \/ \E h \in Threads : \/ SubmitNotify(h) \/ ApproveNotify(h)
                                 \/ ApproveMail(h) \/ RejectNotify(h)
  <2>1. UNCHANGED rows \/ Aside
    BY <1>4, ReadDoes, ConfirmationDoes, ReceiptDoes, AnnouncementDoes, ApprovalTold,
       ApprovalMailed, RejectionTold
  <2> QED
    BY <1>1, <1>2, <2>1 DEF rows
<1>5. CASE \E t \in Tasks : InitializeCommit(t)
  <2>1. PICK t \in Tasks : InitializeCommit(t)
    BY <1>5
  <2>2. PICK q : q = task[t].pay
    OBVIOUS
  <2>3. /\ q \in Online /\ Owner(q) \in members
        /\ status[q] = "absent" /\ RowGets(q, "pending")
    BY <2>1, <2>2, OpenDoes
  <2> QED
    BY <2>3 DEF RowGets, RowGoesForward
<1>6. CASE \E t \in Tasks : VerifySettle(t)
  <2>1. PICK t \in Tasks : VerifySettle(t)
    BY <1>6
  <2>2. PICK q : q = task[t].pay
    OBVIOUS
  <2>3. Aside \/ (q \in Online /\ status[q] # "absent" /\ RowGets(q, "completed"))
    BY <2>1, <2>2, SettleDoes
  <2>4. q \in Online /\ status[q] # "absent" => status[q] \in {"pending", "completed"}
    BY DEF Books, OnlineRows
  <2> QED
    BY <1>2, <2>3, <2>4 DEF RowGets, RowGoesForward
<1>7. CASE \E q \in Manual : \/ \E t \in Tasks : RecordOffline(t, q)
                             \/ \E h \in Threads : SubmitProof(h, q)
  <2>1. PICK q \in Manual : \/ \E t \in Tasks : RecordOffline(t, q)
                            \/ \E h \in Threads : SubmitProof(h, q)
    BY <1>7
  <2>2. /\ Owner(q) \in members /\ status[q] = "absent"
        /\ RowGets(q, "completed") \/ RowGets(q, "pending_verification")
    BY <2>1, RecordDoes, FileDoes
  <2> QED
    BY <2>2 DEF RowGets, RowGoesForward
<1>8. CASE \E h \in Threads : ApproveCommit(h) \/ RejectCommit(h)
  <2>1. PICK h \in Threads : ApproveCommit(h) \/ RejectCommit(h)
    BY <1>8
  <2>2. PICK q : q = thread[h].pay
    OBVIOUS
  <2>3. \/ Aside
        \/ /\ q \in Manual /\ status[q] # "absent"
           /\ RowGets(q, "completed") \/ RowGets(q, "rejected")
    BY <2>1, <2>2, ApprovalDoes, RejectionDoes
  <2> QED
    BY <1>2, <2>3 DEF RowGets, RowGoesForward
<1> QED
  BY <1>2, <1>3, <1>4, <1>5, <1>6, <1>7, <1>8, PaymentSteps

THEOREM RecordsOnlyGoForward == Spec => RecordsGoForward
<1>1. TypeOK /\ Books /\ [Next]_vars => [\A p \in Payment : RowGoesForward(p)]_vars
  BY ForwardStep
<1> QED
  BY <1>1, TypeCorrect, BooksAreRight, PTL DEF Spec, RecordsGoForward

==============================================================================
