--------------------------- MODULE PaymentsProofs ---------------------------
(***************************************************************************)
(* Proofs about Payments: for any set of members, number of requests,      *)
(* event loops and failures.                                               *)
(***************************************************************************)
EXTENDS Payments, TLAPS

-----------------------------------------------------------------------------
(* Where a handler may be, and which payment it holds there.               *)

LEMMA References == Online \subseteq Payment /\ Manual \subseteq Payment
BY DEF Payment

LEMMA OnlineIsNotManual == Online \cap Manual = {}
BY SlipAssumption, SecondAssumption DEF Online, Manual

LEMMA TaskHolds ==
    ASSUME TypeOK, NEW t \in Tasks
    PROVE  /\ task[t].pc \in OnlinePc => task[t].pay \in Online
           /\ task[t].pc = "recorded" => task[t].pay \in Manual
           /\ task[t].pc \in OnlinePc \cup {"recorded"} => task[t].pay \in Payment
BY DEF TypeOK, TaskState, Idle, OnlinePc, Verifying, Payment

LEMMA ThreadHolds ==
    ASSUME TypeOK, NEW h \in Threads
    PROVE  /\ thread[h].pc \in ThreadPc => thread[h].pay \in Payment
           /\ thread[h].pc = "submitted" => thread[h].pay \in Manual
           /\ thread[h].pc \in ThreadPc \cup {"submitted"} => thread[h].pay \in Payment
BY DEF TypeOK, ThreadState, Idle, ThreadPc, Payment

(* The control operators keep handlers in the states of TaskState and      *)
(* ThreadState.                                                            *)
Controlled == task \in [Tasks -> TaskState] /\ thread \in [Threads -> ThreadState]

LEMMA TaskBeginTyped ==
    ASSUME Controlled, NEW t, NEW pc, NEW p, TaskBegin(t, pc, p),
           \/ pc \in OnlinePc /\ p \in Online
           \/ pc = "recorded" /\ p \in Manual
    PROVE  Controlled'
BY DEF Controlled, TaskBegin, TaskState

LEMMA TaskMoveTyped ==
    ASSUME Controlled, NEW t \in Tasks, NEW from \in OnlinePc, NEW to \in OnlinePc,
           TaskMove(t, from, to)
    PROVE  Controlled' /\ task[t].pay \in Online
BY DEF Controlled, TaskMove, TaskState, Idle, OnlinePc, Verifying

LEMMA TaskEndTyped ==
    ASSUME Controlled, NEW t \in Tasks, NEW from, TaskEnd(t, from)
    PROVE  /\ Controlled'
           /\ from \in OnlinePc => task[t].pay \in Online
           /\ from = "recorded" => task[t].pay \in Manual
BY DEF Controlled, TaskEnd, TaskState, Idle, OnlinePc, Verifying

LEMMA ThreadBeginTyped ==
    ASSUME Controlled, NEW h, NEW pc, NEW p, ThreadBegin(h, pc, p),
           \/ pc \in ThreadPc /\ p \in Payment
           \/ pc = "submitted" /\ p \in Manual
    PROVE  Controlled'
BY DEF Controlled, ThreadBegin, ThreadState

LEMMA ThreadMoveTyped ==
    ASSUME Controlled, NEW h \in Threads, NEW from \in ThreadPc, NEW to \in ThreadPc,
           ThreadMove(h, from, to)
    PROVE  Controlled' /\ thread[h].pay \in Payment
BY DEF Controlled, ThreadMove, ThreadState, Idle, ThreadPc

LEMMA ThreadEndTyped ==
    ASSUME Controlled, NEW h \in Threads, NEW from, ThreadEnd(h, from)
    PROVE  /\ Controlled'
           /\ from \in ThreadPc \cup {"submitted"} => thread[h].pay \in Payment
BY DEF Controlled, ThreadEnd, ThreadState, Idle, ThreadPc, Payment

(* The counters: one more is still a natural number.                       *)
LEMMA Counted ==
    ASSUME NEW S, NEW f \in [S -> Nat], NEW x \in S
    PROVE  [f EXCEPT ![x] = @ + 1] \in [S -> Nat]
OBVIOUS

LEMMA NoticeCounted ==
    ASSUME TypeOK, NEW p \in Payment, NEW n \in Notice
    PROVE  [told EXCEPT ![p][n] = @ + 1] \in [Payment -> [Notice -> Nat]]
<1>1. told[p] \in [Notice -> Nat]
  BY DEF TypeOK
<1>2. [told[p] EXCEPT ![n] = @ + 1] \in [Notice -> Nat]
  BY <1>1, Counted
<1>3. QED
  BY <1>2 DEF TypeOK

-----------------------------------------------------------------------------
(* Every variable of the model keeps its type.                             *)
THEOREM TypeCorrect == Spec => []TypeOK
<1>1. Init => TypeOK
  BY FaultAssumption, SecondAssumption
  DEF Init, TypeOK, TaskState, ThreadState, Idle, Status, Charge, Notice
<1>2. TypeOK /\ [Next]_vars => TypeOK'
  <2> SUFFICES ASSUME TypeOK, [Next]_vars PROVE TypeOK'
    OBVIOUS
  <2> USE References, SecondAssumption, FaultAssumption
  <2>0. Controlled /\ (Controlled' => /\ task' \in [Tasks -> TaskState]
                                    /\ thread' \in [Threads -> ThreadState])
    BY DEF Controlled, TypeOK
  <2>1. ASSUME Tick PROVE TypeOK'
    BY <2>0, <2>1 DEF TypeOK, Tick, rows, provider, notices
  <2>2. ASSUME NEW p \in Online, MemberPays(p) PROVE TypeOK'
    BY <2>0, <2>2 DEF TypeOK, MemberPays, rows, provider, notices, Charge
  <2>3. ASSUME NEW p \in Online, ChargeFails(p) PROVE TypeOK'
    BY <2>0, <2>3 DEF TypeOK, ChargeFails, rows, provider, notices, Charge
  <2>4. ASSUME NEW p \in Online, ChargeReversed(p) PROVE TypeOK'
    BY <2>0, <2>4 DEF TypeOK, ChargeReversed, rows, provider, notices, Charge
  <2>5. ASSUME NEW p \in Online, Webhook(p) PROVE TypeOK'
    BY <2>0, <2>5 DEF TypeOK, Webhook, rows, provider, notices
  <2>6. ASSUME NEW u \in Users, DeleteMember(u) PROVE TypeOK'
    BY <2>0, <2>6 DEF TypeOK, DeleteMember, rows, provider, notices, Status
  <2>7. ASSUME Crash PROVE TypeOK'
    BY <2>0, <2>7 DEF TypeOK, Crash, rows, provider, notices, Fault, TaskState, ThreadState
  <2>8. ASSUME NEW t \in Tasks, NEW u \in Users, InitializeSend(t, u) PROVE TypeOK'
    BY <2>0, <2>8, TaskBeginTyped DEF TypeOK, InitializeSend, rows, provider, notices, OnlinePc, Online
  <2>9. ASSUME NEW t \in Tasks, NEW p \in Online, VerifySend(t, p) PROVE TypeOK'
    BY <2>0, <2>9, TaskBeginTyped DEF TypeOK, VerifySend, rows, provider, notices, OnlinePc
  <2>10. ASSUME NEW t \in Tasks, NEW p \in Manual, RecordOffline(t, p) PROVE TypeOK'
    BY <2>0, <2>10, TaskBeginTyped DEF TypeOK, RecordOffline, rows, provider, notices, Status
  <2>11. ASSUME NEW t \in Tasks, ProviderOpens(t) PROVE TypeOK'
    BY <2>0, <2>11, TaskMoveTyped DEF TypeOK, ProviderOpens, rows, provider, notices, OnlinePc, Charge
  <2>12. ASSUME NEW t \in Tasks, ProviderRefuses(t) PROVE TypeOK'
    BY <2>0, <2>12, TaskEndTyped DEF TypeOK, ProviderRefuses, rows, provider, notices, Charge
  <2>13. ASSUME NEW t \in Tasks, InitializeCommit(t) PROVE TypeOK'
    <3>1. Controlled' /\ task[t].pay \in Online
      BY <2>0, <2>13, TaskEndTyped DEF InitializeCommit, OnlinePc
    <3>2. issued' \in [Online -> Nat]
      BY <2>13, <3>1, Counted DEF TypeOK, InitializeCommit
    <3>3. QED
      BY <2>0, <2>13, <3>1, <3>2 DEF TypeOK, InitializeCommit, notices, Status
  <2>14. ASSUME NEW t \in Tasks, InitializeRefused(t) PROVE TypeOK'
    BY <2>0, <2>14, TaskEndTyped DEF TypeOK, InitializeRefused, rows, provider, notices
  <2>15. ASSUME NEW t \in Tasks, VerifyAnswer(t) PROVE TypeOK'
    BY <2>0, <2>15, TaskMoveTyped DEF TypeOK, VerifyAnswer, rows, provider, notices, OnlinePc
  <2>16. ASSUME NEW t \in Tasks, VerifyDeclined(t) PROVE TypeOK'
    BY <2>0, <2>16, TaskEndTyped DEF TypeOK, VerifyDeclined, rows, provider, notices
  <2>17. ASSUME NEW t \in Tasks, VerifyRead(t) PROVE TypeOK'
    BY <2>0, <2>17, TaskMoveTyped DEF TypeOK, VerifyRead, rows, provider, notices, OnlinePc, Verifying
  <2>18. ASSUME NEW t \in Tasks, VerifyNothingToDo(t) PROVE TypeOK'
    BY <2>0, <2>18, TaskEndTyped DEF TypeOK, VerifyNothingToDo, rows, provider, notices
  <2>19. ASSUME NEW t \in Tasks, VerifySettle(t) PROVE TypeOK'
    <3> DEFINE p == task[t].pay
    <3>1. CASE TaskMove(t, "settling", "settled") /\ status[p] # "absent"
      <4>1. Controlled' /\ p \in Payment
        BY <2>0, <3>1, TaskMoveTyped DEF OnlinePc, Verifying
      <4>2. /\ status' = [status EXCEPT ![p] = "completed"]
            /\ adminTold' = [adminTold EXCEPT ![p] = @ + 1]
        BY <2>19, <3>1 DEF Announce, VerifySettle, TaskMove, TaskEnd
      <4>3. adminTold' \in [Payment -> Nat]
        BY <4>1, <4>2, Counted DEF TypeOK
      <4>4. QED
        BY <2>0, <2>19, <4>1, <4>2, <4>3 DEF TypeOK, VerifySettle, provider, Status
    <3>2. CASE TaskEnd(t, "settling") /\ status[p] = "absent"
      <4>1. Controlled'
        BY <2>0, <3>2, TaskEndTyped
      <4>2. UNCHANGED <<status, adminTold>>
        BY <2>19, <3>2 DEF VerifySettle, TaskMove, TaskEnd
      <4>3. QED
        BY <2>0, <2>19, <4>1, <4>2 DEF TypeOK, VerifySettle, provider
    <3>3. QED
      BY <2>19, <3>1, <3>2 DEF VerifySettle
  <2>20. ASSUME NEW t \in Tasks, VerifyNotify(t) PROVE TypeOK'
    <3> DEFINE p == task[t].pay
    <3>1. Controlled' /\ p \in Payment
      BY <2>0, <2>20, TaskMoveTyped, TaskEndTyped DEF VerifyNotify, OnlinePc, Verifying
    <3>2. faults' \in 0..MaxFaults
      BY <2>20 DEF TypeOK, VerifyNotify, Fault
    <3>3. told' \in [Payment -> [Notice -> Nat]]
      <4>1. \/ told' = [told EXCEPT ![p]["confirmed"] = @ + 1]
            \/ UNCHANGED told
        BY <2>20 DEF VerifyNotify
      <4>2. [told EXCEPT ![p]["confirmed"] = @ + 1] \in [Payment -> [Notice -> Nat]]
        BY <3>1, NoticeCounted DEF Notice
      <4>3. QED
        BY <4>1, <4>2 DEF TypeOK
    <3>4. QED
      BY <2>0, <2>20, <3>1, <3>2, <3>3 DEF TypeOK, VerifyNotify, rows, provider
  <2>21. ASSUME NEW t \in Tasks, VerifyMail(t) PROVE TypeOK'
    <3>1. Controlled' /\ task[t].pay \in Payment
      BY <2>0, <2>21, TaskEndTyped DEF VerifyMail, OnlinePc, Verifying
    <3>2. mail' \in [Payment -> Nat]
      BY <2>21, <3>1, Counted DEF TypeOK, VerifyMail
    <3>3. QED
      BY <2>0, <2>21, <3>1, <3>2 DEF TypeOK, VerifyMail, rows, provider
  <2>22. ASSUME NEW t \in Tasks, RecordNotify(t) PROVE TypeOK'
    <3>1. Controlled' /\ task[t].pay \in Payment
      BY <2>0, <2>22, TaskEndTyped DEF RecordNotify
    <3>2. adminTold' \in [Payment -> Nat]
      BY <2>22, <3>1, Counted DEF Announce, TypeOK, RecordNotify
    <3>3. QED
      BY <2>0, <2>22, <3>1, <3>2 DEF TypeOK, RecordNotify, rows, provider
  <2>23. ASSUME NEW t \in Tasks, TaskFails(t) PROVE TypeOK'
    BY <2>0, <2>23 DEF TypeOK, TaskFails, rows, provider, notices, Fault, TaskState
  <2>24. ASSUME NEW h \in Threads, NEW p \in Manual, SubmitProof(h, p) PROVE TypeOK'
    BY <2>0, <2>24, ThreadBeginTyped DEF TypeOK, SubmitProof, rows, provider, notices, Status
  <2>25. ASSUME NEW h \in Threads, NEW p \in Payment, ApproveRead(h, p) PROVE TypeOK'
    BY <2>0, <2>25, ThreadBeginTyped DEF TypeOK, ApproveRead, rows, provider, notices, ThreadPc
  <2>26. ASSUME NEW h \in Threads, NEW p \in Payment, RejectRead(h, p) PROVE TypeOK'
    BY <2>0, <2>26, ThreadBeginTyped DEF TypeOK, RejectRead, rows, provider, notices, ThreadPc
  <2>27. ASSUME NEW h \in Threads, SubmitNotify(h) PROVE TypeOK'
    <3>1. Controlled' /\ thread[h].pay \in Payment
      BY <2>0, <2>27, ThreadEndTyped DEF SubmitNotify, ThreadPc
    <3>2. adminTold' \in [Payment -> Nat]
      BY <2>27, <3>1, Counted DEF Announce, TypeOK, SubmitNotify
    <3>3. QED
      BY <2>0, <2>27, <3>1, <3>2 DEF TypeOK, SubmitNotify, rows, provider
  <2>28. ASSUME NEW h \in Threads, ApproveCommit(h) PROVE TypeOK'
    BY <2>0, <2>28, ThreadMoveTyped, ThreadEndTyped DEF TypeOK, ApproveCommit, rows, provider, notices, ThreadPc, Status
  <2>29. ASSUME NEW h \in Threads, ApproveNotify(h) PROVE TypeOK'
    <3> DEFINE p == thread[h].pay
    <3>1. Controlled' /\ p \in Payment
      BY <2>0, <2>29, ThreadMoveTyped, ThreadEndTyped DEF ApproveNotify, ThreadPc
    <3>2. faults' \in 0..MaxFaults
      BY <2>29 DEF TypeOK, ApproveNotify, Fault
    <3>3. told' \in [Payment -> [Notice -> Nat]]
      <4>1. \/ told' = [told EXCEPT ![p]["approved"] = @ + 1]
            \/ UNCHANGED told
        BY <2>29 DEF ApproveNotify
      <4>2. [told EXCEPT ![p]["approved"] = @ + 1] \in [Payment -> [Notice -> Nat]]
        BY <3>1, NoticeCounted DEF Notice
      <4>3. QED
        BY <4>1, <4>2 DEF TypeOK
    <3>4. QED
      BY <2>0, <2>29, <3>1, <3>2, <3>3 DEF TypeOK, ApproveNotify, rows, provider
  <2>30. ASSUME NEW h \in Threads, ApproveMail(h) PROVE TypeOK'
    <3>1. Controlled' /\ thread[h].pay \in Payment
      BY <2>0, <2>30, ThreadEndTyped DEF ApproveMail, ThreadPc
    <3>2. mail' \in [Payment -> Nat]
      BY <2>30, <3>1, Counted DEF TypeOK, ApproveMail
    <3>3. QED
      BY <2>0, <2>30, <3>1, <3>2 DEF TypeOK, ApproveMail, rows, provider
  <2>31. ASSUME NEW h \in Threads, RejectCommit(h) PROVE TypeOK'
    BY <2>0, <2>31, ThreadMoveTyped, ThreadEndTyped DEF GiveReason, TypeOK, RejectCommit, rows, provider, notices, ThreadPc, Status
  <2>32. ASSUME NEW h \in Threads, RejectNotify(h) PROVE TypeOK'
    <3>1. Controlled' /\ thread[h].pay \in Payment
      BY <2>0, <2>32, ThreadEndTyped DEF RejectNotify, ThreadPc
    <3>2. faults' \in 0..MaxFaults
      BY <2>32 DEF TypeOK, RejectNotify, Fault
    <3>3. told' \in [Payment -> [Notice -> Nat]]
      <4>1. \/ told' = [told EXCEPT ![thread[h].pay]["rejected"] = @ + 1]
            \/ UNCHANGED told
        BY <2>32 DEF RejectNotify
      <4>2. [told EXCEPT ![thread[h].pay]["rejected"] = @ + 1]
               \in [Payment -> [Notice -> Nat]]
        BY <3>1, NoticeCounted DEF Notice
      <4>3. QED
        BY <4>1, <4>2 DEF TypeOK
    <3>4. QED
      BY <2>0, <2>32, <3>1, <3>2, <3>3 DEF TypeOK, RejectNotify, rows, provider
  <2>33. ASSUME NEW h \in Threads, ThreadFails(h) PROVE TypeOK'
    BY <2>0, <2>33 DEF TypeOK, ThreadFails, rows, provider, notices, Fault, ThreadState
  <2>34. ASSUME NEW p \in Payment, ReceiptSent(p) PROVE TypeOK'
    BY <2>0, <2>34 DEF TypeOK, ReceiptSent, rows, provider, notices
  <2>35. ASSUME NEW p \in Payment, ReceiptLost(p) PROVE TypeOK'
    BY <2>0, <2>35 DEF TypeOK, ReceiptLost, rows, provider, notices
  <2>36. CASE UNCHANGED vars
    BY <2>36 DEF TypeOK, vars
  <2>37. QED
    BY <2>1, <2>2, <2>3, <2>4, <2>5, <2>6, <2>7, <2>8, <2>9, <2>10, <2>11, <2>12, <2>13, <2>14, <2>15, <2>16, <2>17, <2>18, <2>19, <2>20, <2>21, <2>22, <2>23, <2>24, <2>25, <2>26, <2>27, <2>28, <2>29, <2>30, <2>31, <2>32, <2>33, <2>34, <2>35, <2>36, ReviewerAssumption
    DEF Next, Environment, TaskStarts, TaskRuns, ThreadStarts, ThreadRuns
<1>3. QED
  BY <1>1, <1>2, PTL DEF Spec

-----------------------------------------------------------------------------
(* The books are right at every step.  Each action disturbs a few of them: *)
(* a commit changes one row, the provider one charge, and the other        *)
(* actions only move a handler on.                                         *)

LEMMA BooksInit == Init => Books
BY References, OnlineIsNotManual
DEF Init, Idle, ThreadPc, Books, Taken, OnlineRows, ManualRows, ReviewsManual, AnswersAreTrue, IssuedHasRecord, TakenWasIssued, DeletedHasNoRows, CompletedWasPaid, OneUrlPerReference

(* A step that only moves handlers on or sends notices keeps the books,    *)
(* provided it keeps the two parts that speak of handlers.                 *)
LEMMA QuietStep ==
    ASSUME Books, UNCHANGED <<members, rows, provider>>, ReviewsManual', AnswersAreTrue'
    PROVE  Books'
BY DEF rows, provider, Books, Taken, OnlineRows, ManualRows, IssuedHasRecord,
       TakenWasIssued, DeletedHasNoRows, CompletedWasPaid, OneUrlPerReference

LEMMA BooksStep == TypeOK /\ TypeOK' /\ Books /\ [Next]_vars => Books'
<1> SUFFICES ASSUME TypeOK, TypeOK', Books, [Next]_vars PROVE Books'
  OBVIOUS
<1> USE References, OnlineIsNotManual DEF Books, Taken, OnlineRows, ManualRows, ReviewsManual, AnswersAreTrue, IssuedHasRecord, TakenWasIssued, DeletedHasNoRows, CompletedWasPaid, OneUrlPerReference
<1>1. ASSUME Tick PROVE Books'
  BY <1>1 DEF TypeOK, Tick, rows, provider, notices, Idle, OnlinePc, Verifying, ThreadPc
<1>2. ASSUME NEW p \in Online, MemberPays(p) PROVE Books'
  BY <1>2 DEF TypeOK, MemberPays, rows, provider, notices, Idle, OnlinePc, Verifying, ThreadPc
<1>3. ASSUME NEW p \in Online, ChargeFails(p) PROVE Books'
  BY <1>3 DEF TypeOK, ChargeFails, rows, provider, notices, Idle, OnlinePc, Verifying, ThreadPc
<1>4. ASSUME NEW p \in Online, ChargeReversed(p) PROVE Books'
  BY <1>4 DEF TypeOK, ChargeReversed, rows, provider, notices, Idle, OnlinePc, Verifying, ThreadPc
<1>5. ASSUME NEW p \in Online, Webhook(p) PROVE Books'
  BY <1>5 DEF TypeOK, Webhook, rows, provider, notices, Idle, OnlinePc, Verifying, ThreadPc
<1>6. ASSUME NEW u \in Users, DeleteMember(u) PROVE Books'
  BY <1>6 DEF TypeOK, DeleteMember, rows, provider, notices, Idle, OnlinePc, Verifying, ThreadPc
<1>7. ASSUME Crash PROVE Books'
  BY <1>7 DEF TypeOK, Crash, rows, provider, notices, Idle, OnlinePc, Verifying, ThreadPc
<1>8. ASSUME NEW t \in Tasks, NEW u \in Users, InitializeSend(t, u) PROVE Books'
  BY <1>8, TaskHolds DEF TypeOK, InitializeSend, rows, provider, notices, Online, TaskBegin, Idle, OnlinePc, Verifying, ThreadPc
<1>9. ASSUME NEW t \in Tasks, NEW p \in Online, VerifySend(t, p) PROVE Books'
  BY <1>9, TaskHolds DEF TypeOK, VerifySend, rows, provider, notices, TaskBegin, Idle, OnlinePc, Verifying, ThreadPc
<1>10. ASSUME NEW t \in Tasks, NEW p \in Manual, RecordOffline(t, p) PROVE Books'
  BY <1>10, TaskHolds DEF TypeOK, RecordOffline, rows, provider, notices, TaskBegin, Idle, OnlinePc, Verifying, ThreadPc
<1>11. ASSUME NEW t \in Tasks, ProviderOpens(t) PROVE Books'
  BY <1>11, TaskHolds DEF TypeOK, ProviderOpens, rows, provider, notices, TaskMove, Idle, OnlinePc, Verifying, ThreadPc
<1>12. ASSUME NEW t \in Tasks, ProviderRefuses(t) PROVE Books'
  <2> DEFINE p == task[t].pay
  <2>1. p \in Online /\ charge \in [Online -> Charge]
    BY <1>12, TaskHolds DEF TypeOK, ProviderRefuses, TaskEnd, OnlinePc
  <2>2. \A r \in Online : Taken(r)' <=> Taken(r)
    BY <1>12, <2>1 DEF ProviderRefuses
  <2>3. ReviewsManual' /\ AnswersAreTrue'
    <3>1. ReviewsManual'
      BY <1>12 DEF ProviderRefuses, TaskEnd
    <3>2. ASSUME NEW o \in Tasks, task'[o].pc \in {"answered", "settling"}
          PROVE  task'[o] = task[o] /\ task[o].pay \in Online
      BY <1>12, <3>2, TaskHolds DEF TypeOK, ProviderRefuses, TaskEnd, Idle, OnlinePc, Verifying
    <3>3. QED
      BY <2>2, <3>1, <3>2
  <2>4. QED
    BY <1>12, <2>2, <2>3 DEF ProviderRefuses, rows
<1>13. ASSUME NEW t \in Tasks, InitializeCommit(t) PROVE Books'
  BY <1>13, TaskHolds DEF TypeOK, InitializeCommit, rows, provider, notices, TaskEnd, Idle, OnlinePc, Verifying, ThreadPc
<1>14. ASSUME NEW t \in Tasks, InitializeRefused(t) PROVE Books'
  BY <1>14, TaskHolds DEF TypeOK, InitializeRefused, rows, provider, notices, TaskEnd, Idle, OnlinePc, Verifying, ThreadPc
<1>15. ASSUME NEW t \in Tasks, VerifyAnswer(t) PROVE Books'
  BY <1>15, TaskHolds DEF ProviderSaysPaid, TypeOK, VerifyAnswer, rows, provider, notices, TaskMove, Idle, OnlinePc, Verifying, ThreadPc
<1>16. ASSUME NEW t \in Tasks, VerifyDeclined(t) PROVE Books'
  BY <1>16, TaskHolds DEF TypeOK, VerifyDeclined, rows, provider, notices, TaskEnd, Idle, OnlinePc, Verifying, ThreadPc
<1>17. ASSUME NEW t \in Tasks, VerifyRead(t) PROVE Books'
  BY <1>17, TaskHolds DEF TypeOK, VerifyRead, rows, provider, notices, TaskMove, Idle, OnlinePc, Verifying, ThreadPc
<1>18. ASSUME NEW t \in Tasks, VerifyNothingToDo(t) PROVE Books'
  BY <1>18, TaskHolds DEF TypeOK, VerifyNothingToDo, rows, provider, notices, TaskEnd, Idle, OnlinePc, Verifying, ThreadPc
<1>19. ASSUME NEW t \in Tasks, VerifySettle(t) PROVE Books'
  <2> DEFINE p == task[t].pay
  <2>1. CASE TaskMove(t, "settling", "settled") /\ status[p] # "absent"
    <3>1. p \in Online /\ p \in Payment /\ Taken(p)
      BY <2>1, TaskHolds DEF TaskMove, OnlinePc, Verifying
    <3>2. status' = [status EXCEPT ![p] = "completed"]
      BY <1>19, <2>1 DEF VerifySettle, TaskMove, TaskEnd
    <3>3. /\ status' \in [Payment -> Status]
          /\ status'[p] = "completed"
          /\ \A r \in Payment \ {p} : status'[r] = status[r]
      BY <3>1, <3>2 DEF TypeOK
    <3>4. UNCHANGED <<members, charge, issued, thread>>
      BY <1>19, <2>1 DEF VerifySettle, TaskMove, provider
    <3>5. AnswersAreTrue'
      BY <2>1, <3>4 DEF TypeOK, TaskMove
    <3>6. OnlineRows' /\ ManualRows' /\ CompletedWasPaid'
      BY <3>1, <3>3, <3>4
    <3>7. Owner(p) \in members
      BY <2>1, <3>1
    <3>8. IssuedHasRecord' /\ DeletedHasNoRows'
      BY <3>1, <3>3, <3>4, <3>7
    <3>9. QED
      BY <3>4, <3>5, <3>6, <3>8
  <2>2. CASE TaskEnd(t, "settling") /\ status[p] = "absent"
    <3>1. UNCHANGED <<members, rows, provider, thread>>
      BY <1>19, <2>2 DEF VerifySettle, TaskMove, TaskEnd, rows
    <3>2. AnswersAreTrue'
      BY <2>2, <3>1 DEF TypeOK, TaskEnd, Idle, provider
    <3>3. QED
      BY <3>1, <3>2, QuietStep
  <2>3. QED
    BY <1>19, <2>1, <2>2 DEF VerifySettle
<1>20. ASSUME NEW t \in Tasks, VerifyNotify(t) PROVE Books'
  <2>1. UNCHANGED <<members, rows, provider, thread>>
    BY <1>20 DEF VerifyNotify, TaskMove, TaskEnd
  <2>2. ASSUME NEW o \in Tasks, task'[o].pc \in {"answered", "settling"}
        PROVE  task'[o] = task[o]
    BY <1>20, <2>2 DEF TypeOK, VerifyNotify, TaskMove, TaskEnd, Idle
  <2>3. QED
    BY <2>1, <2>2, QuietStep DEF provider
<1>21. ASSUME NEW t \in Tasks, VerifyMail(t) PROVE Books'
  BY <1>21, TaskHolds DEF TypeOK, VerifyMail, rows, provider, notices, TaskEnd, Idle, OnlinePc, Verifying, ThreadPc
<1>22. ASSUME NEW t \in Tasks, RecordNotify(t) PROVE Books'
  BY <1>22, TaskHolds DEF TypeOK, RecordNotify, rows, provider, notices, TaskEnd, Idle, OnlinePc, Verifying, ThreadPc
<1>23. ASSUME NEW t \in Tasks, TaskFails(t) PROVE Books'
  BY <1>23, TaskHolds DEF TypeOK, TaskFails, rows, provider, notices, Idle, OnlinePc, Verifying, ThreadPc
<1>24. ASSUME NEW h \in Threads, NEW p \in Manual, SubmitProof(h, p) PROVE Books'
  BY <1>24, ThreadHolds DEF TypeOK, SubmitProof, rows, provider, notices, ThreadBegin, Idle, OnlinePc, Verifying, ThreadPc
<1>25. ASSUME NEW h \in Threads, NEW p \in Payment, ApproveRead(h, p) PROVE Books'
  <2>1. p \in Manual
    BY <1>25 DEF Decidable, ApproveRead, Payment
  <2>2. ReviewsManual'
    BY <1>25, <2>1 DEF TypeOK, ApproveRead, ThreadBegin
  <2>3. UNCHANGED <<members, rows, provider, task>>
    BY <1>25 DEF ApproveRead, ThreadBegin
  <2>4. QED
    BY <2>2, <2>3, QuietStep DEF provider
<1>26. ASSUME NEW h \in Threads, NEW p \in Payment, RejectRead(h, p) PROVE Books'
  <2>1. p \in Manual
    BY <1>26 DEF Decidable, RejectRead, Payment
  <2>2. ReviewsManual'
    BY <1>26, <2>1 DEF TypeOK, RejectRead, ThreadBegin
  <2>3. UNCHANGED <<members, rows, provider, task>>
    BY <1>26 DEF RejectRead, ThreadBegin
  <2>4. QED
    BY <2>2, <2>3, QuietStep DEF provider
<1>27. ASSUME NEW h \in Threads, SubmitNotify(h) PROVE Books'
  BY <1>27, ThreadHolds DEF TypeOK, SubmitNotify, rows, provider, notices, ThreadEnd, Idle, OnlinePc, Verifying, ThreadPc
<1>28. ASSUME NEW h \in Threads, ApproveCommit(h) PROVE Books'
  <2> DEFINE p == thread[h].pay
  <2>1. CASE ThreadMove(h, "approving", "approved") /\ status[p] # "absent"
    <3>1. p \in Manual /\ p \in Payment /\ p \notin Online
      BY <2>1 DEF ThreadMove, ThreadPc
    <3>2. status' = [status EXCEPT ![p] = "completed"]
      BY <1>28, <2>1 DEF ApproveCommit, ThreadMove, ThreadEnd
    <3>3. /\ status' \in [Payment -> Status]
          /\ status'[p] = "completed"
          /\ \A r \in Payment \ {p} : status'[r] = status[r]
      BY <3>1, <3>2 DEF TypeOK
    <3>4. UNCHANGED <<members, charge, issued, task>>
      BY <1>28, <2>1 DEF ApproveCommit, ThreadMove, provider
    <3>5. ReviewsManual'
      BY <2>1, <3>1 DEF TypeOK, ThreadMove
    <3>6. ManualRows' /\ DeletedHasNoRows'
      BY <2>1, <3>1, <3>3, <3>4
    <3>7. OnlineRows' /\ CompletedWasPaid' /\ IssuedHasRecord'
      BY <3>1, <3>3, <3>4
    <3>8. QED
      BY <3>4, <3>5, <3>6, <3>7
  <2>2. CASE ThreadEnd(h, "approving") /\ status[p] = "absent"
    <3>1. UNCHANGED <<members, rows, provider, task>>
      BY <1>28, <2>2 DEF ApproveCommit, ThreadMove, ThreadEnd, rows
    <3>2. ReviewsManual'
      BY <2>2 DEF TypeOK, ThreadEnd, Idle, ThreadPc
    <3>3. QED
      BY <3>1, <3>2, QuietStep DEF provider
  <2>3. QED
    BY <1>28, <2>1, <2>2 DEF ApproveCommit
<1>29. ASSUME NEW h \in Threads, ApproveNotify(h) PROVE Books'
  <2>1. UNCHANGED <<members, rows, provider, task>>
    BY <1>29 DEF ApproveNotify, ThreadMove, ThreadEnd
  <2>2. ASSUME NEW g \in Threads, thread'[g].pc \in ThreadPc
        PROVE  thread'[g].pay = thread[g].pay /\ thread[g].pc \in ThreadPc
    <3>1. \/ ThreadMove(h, "approved", "approval_told")
          \/ ThreadEnd(h, "approved")
      BY <1>29 DEF ApproveNotify
    <3>2. CASE g = h
      BY <2>2, <3>1, <3>2 DEF TypeOK, ThreadMove, ThreadEnd, Idle, ThreadPc
    <3>3. CASE g # h
      BY <2>2, <3>1, <3>3 DEF TypeOK, ThreadMove, ThreadEnd
    <3>4. QED
      BY <3>2, <3>3
  <2>3. QED
    BY <2>1, <2>2, QuietStep DEF provider
<1>30. ASSUME NEW h \in Threads, ApproveMail(h) PROVE Books'
  BY <1>30, ThreadHolds DEF TypeOK, ApproveMail, rows, provider, notices, ThreadEnd, Idle, OnlinePc, Verifying, ThreadPc
<1>31. ASSUME NEW h \in Threads, RejectCommit(h) PROVE Books'
  <2> DEFINE p == thread[h].pay
  <2>1. CASE ThreadMove(h, "rejecting", "rejected") /\ status[p] # "absent"
    <3>1. p \in Manual /\ p \in Payment /\ p \notin Online
      BY <2>1 DEF ThreadMove, ThreadPc
    <3>2. status' = [status EXCEPT ![p] = "rejected"]
      BY <1>31, <2>1 DEF RejectCommit, ThreadMove, ThreadEnd
    <3>3. /\ status' \in [Payment -> Status]
          /\ status'[p] = "rejected"
          /\ \A r \in Payment \ {p} : status'[r] = status[r]
      BY <3>1, <3>2 DEF TypeOK
    <3>4. UNCHANGED <<members, charge, issued, task>>
      BY <1>31, <2>1 DEF RejectCommit, ThreadMove, provider
    <3>5. ReviewsManual'
      BY <2>1, <3>1 DEF TypeOK, ThreadMove
    <3>6. ManualRows' /\ DeletedHasNoRows'
      BY <2>1, <3>1, <3>3, <3>4
    <3>7. OnlineRows' /\ CompletedWasPaid' /\ IssuedHasRecord'
      BY <3>1, <3>3, <3>4
    <3>8. QED
      BY <3>4, <3>5, <3>6, <3>7
  <2>2. CASE ThreadEnd(h, "rejecting") /\ status[p] = "absent"
    <3>1. UNCHANGED <<members, rows, provider, task>>
      BY <1>31, <2>2 DEF RejectCommit, ThreadMove, ThreadEnd, rows
    <3>2. ReviewsManual'
      BY <2>2 DEF TypeOK, ThreadEnd, Idle, ThreadPc
    <3>3. QED
      BY <3>1, <3>2, QuietStep DEF provider
  <2>3. QED
    BY <1>31, <2>1, <2>2 DEF RejectCommit
<1>32. ASSUME NEW h \in Threads, RejectNotify(h) PROVE Books'
  BY <1>32, ThreadHolds DEF TypeOK, RejectNotify, rows, provider, notices, ThreadEnd, Idle, OnlinePc, Verifying, ThreadPc
<1>33. ASSUME NEW h \in Threads, ThreadFails(h) PROVE Books'
  BY <1>33, ThreadHolds DEF TypeOK, ThreadFails, rows, provider, notices, Idle, OnlinePc, Verifying, ThreadPc
<1>34. ASSUME NEW p \in Payment, ReceiptSent(p) PROVE Books'
  BY <1>34 DEF TypeOK, ReceiptSent, rows, provider, notices, Idle, OnlinePc, Verifying, ThreadPc
<1>35. ASSUME NEW p \in Payment, ReceiptLost(p) PROVE Books'
  BY <1>35 DEF TypeOK, ReceiptLost, rows, provider, notices, Idle, OnlinePc, Verifying, ThreadPc
<1>36. CASE UNCHANGED vars
  BY <1>36 DEF vars
<1>37. QED
  BY <1>1, <1>2, <1>3, <1>4, <1>5, <1>6, <1>7, <1>8, <1>9, <1>10, <1>11, <1>12, <1>13, <1>14, <1>15, <1>16, <1>17, <1>18, <1>19, <1>20, <1>21, <1>22, <1>23, <1>24, <1>25, <1>26, <1>27, <1>28, <1>29, <1>30, <1>31, <1>32, <1>33, <1>34, <1>35, <1>36, ReviewerAssumption
  DEF Next, Environment, TaskStarts, TaskRuns, ThreadStarts, ThreadRuns

-----------------------------------------------------------------------------
(* The books hold in every reachable state, whatever requests interleave   *)
(* and whatever fails.                                                     *)
THEOREM BooksAreRight == Spec => []Books
BY TypeCorrect, BooksInit, BooksStep, PTL DEF Spec

(* verify_transaction completes an online payment only if the provider     *)
(* took the money.                                                         *)
THEOREM CompletedOnlyIfPaid == Spec => []CompletedWasPaid
<1>1. Books => CompletedWasPaid
  BY DEF Books
<1>2. QED
  BY <1>1, BooksAreRight, PTL

(* Money is taken only against a record that stays, unless the member is   *)
(* deleted: initialize hands out the URL after its commit.                 *)
THEOREM PaidIsRecorded == Spec => []PaidHasRecord
<1>1. Books => PaidHasRecord
  BY DEF Books, TakenWasIssued, IssuedHasRecord, PaidHasRecord
<1>2. QED
  BY <1>1, BooksAreRight, PTL

(* The unique transaction_reference makes one of two initialize requests   *)
(* of the same second fail.                                                *)
THEOREM OneUrl == Spec => []OneUrlPerReference
<1>1. Books => OneUrlPerReference
  BY DEF Books
<1>2. QED
  BY <1>1, BooksAreRight, PTL

-----------------------------------------------------------------------------
(* The ledger, when decisions are taken one at a time.                     *)

OneReviewer == \A g, h \in Reviewers : g = h

(* A reviewer who is about to commit decides a record that nobody else has *)
(* decided: its member is deleted, or it is still to be verified.          *)
Undecided ==
    \A h \in Threads :
        thread[h].pc \in {"approving", "rejecting"} =>
            /\ h \in Reviewers
            /\ \/ Owner(thread[h].pay) \notin members
               \/ status[thread[h].pay] = "pending_verification"

LEMMA UndecidedStep ==
    ASSUME OneReviewer, TypeOK, Books, Undecided, [Next]_vars
    PROVE  Undecided'
<1> USE References, OnlineIsNotManual, ReviewerAssumption DEF Undecided
(* Steps that neither write a row nor move a reviewer. *)
<1>1. ASSUME UNCHANGED <<members, status, thread>> PROVE Undecided'
  BY <1>1
<1>2. ASSUME \/ Tick
             \/ \E p \in Online : \/ MemberPays(p) \/ ChargeFails(p)
                                 \/ ChargeReversed(p) \/ Webhook(p)
             \/ \E p \in Payment : ReceiptSent(p) \/ ReceiptLost(p)
      PROVE  Undecided'
  BY <1>1, <1>2 DEF Tick, MemberPays, ChargeFails, ChargeReversed, Webhook,
     ReceiptSent, ReceiptLost, rows
<1>3. ASSUME NEW t \in Tasks,
             \/ \E u \in Users : InitializeSend(t, u)
             \/ \E p \in Online : VerifySend(t, p)
             \/ ProviderOpens(t) \/ ProviderRefuses(t) \/ InitializeRefused(t)
             \/ VerifyAnswer(t) \/ VerifyDeclined(t) \/ VerifyRead(t)
             \/ VerifyNothingToDo(t) \/ VerifyNotify(t) \/ VerifyMail(t)
             \/ RecordNotify(t) \/ TaskFails(t)
      PROVE  Undecided'
  BY <1>1, <1>3 DEF InitializeSend, VerifySend, ProviderOpens, ProviderRefuses,
     InitializeRefused, VerifyAnswer, VerifyDeclined, VerifyRead, VerifyNothingToDo,
     VerifyNotify, VerifyMail, RecordNotify, TaskFails, TaskBegin, TaskMove, TaskEnd, rows
<1>4. ASSUME NEW u \in Users, DeleteMember(u) PROVE Undecided'
  BY <1>4, ThreadHolds DEF TypeOK, DeleteMember, ThreadPc
<1>5. ASSUME Crash PROVE Undecided'
  BY <1>5 DEF TypeOK, Crash, Idle
(* Steps of a coroutine that write a row: an online one, or a new one. *)
<1>6. ASSUME NEW t \in Tasks, InitializeCommit(t) PROVE Undecided'
  BY <1>6, TaskHolds DEF TypeOK, Books, ReviewsManual, InitializeCommit, TaskEnd, OnlinePc, ThreadPc
<1>7. ASSUME NEW t \in Tasks, VerifySettle(t) PROVE Undecided'
  BY <1>7, TaskHolds DEF TypeOK, Books, ReviewsManual, VerifySettle, TaskMove, TaskEnd, OnlinePc,
     Verifying, ThreadPc
<1>8. ASSUME NEW t \in Tasks, NEW p \in Manual, RecordOffline(t, p) PROVE Undecided'
  BY <1>8, ThreadHolds DEF TypeOK, RecordOffline, TaskBegin, ThreadPc
(* Steps of the thread pool. *)
<1>9. ASSUME NEW h \in Threads, NEW p \in Manual, SubmitProof(h, p) PROVE Undecided'
  BY <1>9 DEF TypeOK, SubmitProof, ThreadBegin
<1>10. ASSUME NEW h \in Reviewers, NEW p \in Payment, ApproveRead(h, p) \/ RejectRead(h, p)
       PROVE  Undecided'
  BY <1>10 DEF Decidable, TypeOK, ApproveRead, RejectRead, ThreadBegin, rows
<1>11. ASSUME NEW h \in Threads, ApproveCommit(h) \/ RejectCommit(h) PROVE Undecided'
  BY <1>11 DEF GiveReason, TypeOK, OneReviewer, ApproveCommit, RejectCommit, ThreadMove, ThreadEnd, rows, Idle
<1>12. ASSUME NEW h \in Threads,
              \/ SubmitNotify(h) \/ ApproveNotify(h) \/ ApproveMail(h)
              \/ RejectNotify(h) \/ ThreadFails(h)
       PROVE  Undecided'
  <2>1. UNCHANGED <<members, status>>
    BY <1>12 DEF SubmitNotify, ApproveNotify, ApproveMail, RejectNotify, ThreadFails, rows
  <2>2. \A g \in Threads \ {h} : thread'[g] = thread[g]
    BY <1>12 DEF TypeOK, SubmitNotify, ApproveNotify, ApproveMail, RejectNotify, ThreadFails,
       ThreadMove, ThreadEnd
  <2>3. thread'[h].pc \notin {"approving", "rejecting"}
    BY <1>12 DEF TypeOK, SubmitNotify, ApproveNotify, ApproveMail, RejectNotify, ThreadFails,
       ThreadMove, ThreadEnd, Idle
  <2>4. QED
    BY <2>1, <2>2, <2>3
<1>13. CASE UNCHANGED vars
  BY <1>1, <1>13 DEF vars
<1>14. QED
  BY <1>2, <1>3, <1>4, <1>5, <1>6, <1>7, <1>8, <1>9, <1>10, <1>11, <1>12, <1>13
  DEF Next, Environment, TaskStarts, TaskRuns, ThreadStarts, ThreadRuns

(* Each step is a step of the ledger or leaves it as it is. *)
LEMMA LedgerStep ==
    ASSUME OneReviewer, TypeOK, Books, Undecided, [Next]_vars
    PROVE  [Ledger!Next]_(Ledger!lvars)
<1> DEFINE taken == {p \in Online : Taken(p)}
<1> USE References, OnlineIsNotManual, ReviewerAssumption
    DEF Ledger!lvars, Ledger!Next, Ledger!Online, Ledger!Manual, Ledger!Payment,
        Online, Manual, Payment, Ledger!Owner, Owner, Ledger!Move, Taken
(* Steps that change nothing the ledger sees. *)
<1>1. ASSUME UNCHANGED <<members, status, charge>>
      PROVE  UNCHANGED Ledger!lvars
  BY <1>1
<1>2. ASSUME \/ Tick \/ Crash
             \/ \E p \in Online : Webhook(p)
             \/ \E p \in Payment : ReceiptSent(p) \/ ReceiptLost(p)
      PROVE  UNCHANGED Ledger!lvars
  BY <1>1, <1>2 DEF Tick, Crash, Webhook, ReceiptSent, ReceiptLost, rows, provider
<1>3. ASSUME NEW t \in Tasks,
             \/ \E u \in Users : InitializeSend(t, u)
             \/ \E p \in Online : VerifySend(t, p)
             \/ InitializeRefused(t)
             \/ VerifyAnswer(t) \/ VerifyDeclined(t) \/ VerifyRead(t)
             \/ VerifyNothingToDo(t) \/ VerifyNotify(t) \/ VerifyMail(t)
             \/ RecordNotify(t) \/ TaskFails(t)
      PROVE  UNCHANGED Ledger!lvars
  BY <1>1, <1>3 DEF InitializeSend, VerifySend, InitializeRefused, VerifyAnswer,
     VerifyDeclined, VerifyRead, VerifyNothingToDo, VerifyNotify, VerifyMail,
     RecordNotify, TaskFails, rows, provider
<1>4. ASSUME NEW h \in Threads,
             \/ \E p \in Payment : ApproveRead(h, p) \/ RejectRead(h, p)
             \/ SubmitNotify(h) \/ ApproveNotify(h) \/ ApproveMail(h)
             \/ RejectNotify(h) \/ ThreadFails(h)
      PROVE  UNCHANGED Ledger!lvars
  BY <1>1, <1>4 DEF ApproveRead, RejectRead, SubmitNotify, ApproveNotify, ApproveMail,
     RejectNotify, ThreadFails, rows, provider
(* The provider: opening, failing or reversing a charge takes no money;    *)
(* a payment takes it against a record.                                    *)
<1>5. ASSUME NEW t \in Tasks, ProviderOpens(t) \/ ProviderRefuses(t)
      PROVE  UNCHANGED Ledger!lvars
  BY <1>5 DEF ProviderOpens, ProviderRefuses, TypeOK, rows
<1>6. ASSUME NEW p \in Online, ChargeFails(p) \/ ChargeReversed(p)
      PROVE  UNCHANGED Ledger!lvars
  BY <1>6 DEF ChargeFails, ChargeReversed, TypeOK, rows
<1>7. ASSUME NEW p \in Online, MemberPays(p) PROVE Ledger!Take(p)
  BY <1>7 DEF MemberPays, TypeOK, Books, IssuedHasRecord, rows, Ledger!Take
(* The commits. *)
<1>8. ASSUME NEW t \in Tasks, InitializeCommit(t)
      PROVE  task[t].pay \in Online /\ Ledger!Open(task[t].pay)
  <2>1. task[t].pay \in Online
    BY <1>8, TaskHolds DEF InitializeCommit, TaskEnd, OnlinePc
  <2>2. QED
    BY <1>8, <2>1 DEF InitializeCommit, Ledger!Open
<1>9. ASSUME NEW t \in Tasks, VerifySettle(t)
      PROVE  \/ task[t].pay \in Online /\ Ledger!Settle(task[t].pay)
             \/ UNCHANGED Ledger!lvars
  <2> DEFINE p == task[t].pay
  <2>1. CASE TaskMove(t, "settling", "settled") /\ status[p] # "absent"
    <3>1. p \in Online /\ p \in Payment /\ Taken(p)
      BY <2>1, TaskHolds DEF Books, AnswersAreTrue, TaskMove, OnlinePc, Verifying
    <3>2. status' = [status EXCEPT ![p] = "completed"] /\ UNCHANGED <<members, charge>>
      BY <1>9, <2>1 DEF VerifySettle, TaskMove, TaskEnd, provider
    <3>3. CASE status[p] = "pending"
      BY <3>1, <3>2, <3>3 DEF Ledger!Settle
    <3>4. CASE status[p] = "completed"
      BY <3>1, <3>2, <3>4, <1>1 DEF TypeOK
    <3>5. QED
      BY <2>1, <3>1, <3>3, <3>4 DEF Books, OnlineRows
  <2>2. CASE TaskEnd(t, "settling") /\ status[p] = "absent"
    BY <1>1, <1>9, <2>2 DEF VerifySettle, TaskMove, TaskEnd, provider
  <2>3. QED
    BY <1>9, <2>1, <2>2 DEF VerifySettle
<1>10. ASSUME NEW t \in Tasks, NEW p \in Manual, RecordOffline(t, p)
       PROVE  Ledger!Record(p)
  BY <1>10 DEF RecordOffline, Ledger!Record, provider
<1>11. ASSUME NEW h \in Threads, NEW p \in Manual, SubmitProof(h, p)
       PROVE  Ledger!File(p)
  BY <1>11 DEF SubmitProof, Ledger!File, provider
<1>12. ASSUME NEW h \in Threads, ApproveCommit(h) \/ RejectCommit(h)
       PROVE  \/ thread[h].pay \in Manual /\ Ledger!Decide(thread[h].pay)
              \/ UNCHANGED Ledger!lvars
  <2> DEFINE p == thread[h].pay
  <2>1. thread[h].pc \in {"approving", "rejecting"} /\ p \in Manual
    BY <1>12 DEF ApproveCommit, RejectCommit, ThreadMove, ThreadEnd, ThreadPc,
       Books, ReviewsManual
  <2>2. CASE status[p] = "absent"
    BY <1>1, <1>12, <2>2 DEF ApproveCommit, RejectCommit, rows, provider
  <2>3. CASE status[p] # "absent"
    <3>1. status[p] = "pending_verification"
      BY <2>1, <2>3 DEF Undecided, Books, DeletedHasNoRows
    <3>2. \/ status' = [status EXCEPT ![p] = "completed"]
          \/ status' = [status EXCEPT ![p] = "rejected"]
      BY <1>12, <2>3 DEF ApproveCommit, RejectCommit
    <3>3. UNCHANGED <<members, charge>>
      BY <1>12 DEF ApproveCommit, RejectCommit, provider
    <3>4. QED
      BY <2>1, <3>1, <3>2, <3>3 DEF Ledger!Decide
  <2>4. QED
    BY <2>2, <2>3
<1>13. ASSUME NEW u \in Users, DeleteMember(u) PROVE Ledger!Forget(u)
  BY <1>13 DEF DeleteMember, Ledger!Forget, provider
<1>14. CASE UNCHANGED vars
  BY <1>1, <1>14 DEF vars
<1>15. QED
  BY <1>2, <1>3, <1>4, <1>5, <1>6, <1>7, <1>8, <1>9, <1>10, <1>11, <1>12, <1>13, <1>14
  DEF Next, Environment, TaskStarts, TaskRuns, ThreadStarts, ThreadRuns

(* With one reviewer at a time the handlers implement the ledger: no order *)
(* of requests, failures and deletions decides an entry twice, reopens it, *)
(* or completes an online entry without the money.                         *)
THEOREM ImplementsLedger == OneReviewer => (Spec => LedgerSpec)
<1> SUFFICES ASSUME OneReviewer PROVE Spec => LedgerSpec
  OBVIOUS
<1>1. Init => Undecided
  BY DEF Init, Undecided, Idle
<1>2. TypeOK /\ Books /\ Undecided /\ [Next]_vars => Undecided'
  BY UndecidedStep
<1>3. Init => Ledger!Init
  BY DEF Init, Ledger!Init, Ledger!Payment, Ledger!Online, Ledger!Manual, Payment, Online,
     Manual, Taken
<1>4. TypeOK /\ Books /\ Undecided /\ [Next]_vars => [Ledger!Next]_(Ledger!lvars)
  BY LedgerStep
<1>5. QED
  BY <1>1, <1>2, <1>3, <1>4, TypeCorrect, BooksAreRight, PTL
  DEF Spec, LedgerSpec, Ledger!Spec

-----------------------------------------------------------------------------
(* An answer of the provider is not lost.  Until the record is settled or  *)
(* its member deleted, the coroutine that holds the answer goes on from    *)
(* the answer to the settlement and nowhere else, unless a failure ends    *)
(* it: no approval, rejection, other verification or webhook takes the     *)
(* pending record from under it.  With the fairness of FairSpec, this is   *)
(* what makes AnsweredSettles true.                                        *)
Holds(t, p) == task[t].pc \in {"answered", "settling"} /\ task[t].pay = p

GoesOn(t) ==
    \/ task'[t] = task[t]
    \/ task[t].pc = "answered" /\ task'[t] = [pc |-> "settling", pay |-> task[t].pay]

AnswerIsKept ==
    [][\A t \in Tasks, p \in Online :
          Holds(t, p) /\ status[p] = "pending" =>
             \/ status'[p] = "completed"
             \/ Owner(p) \notin members'
             \/ faults' > faults
             \/ status'[p] = "pending" /\ GoesOn(t)]_vars

(* A handler moves no coroutine but its own.                               *)
LEMMA OthersStay ==
    ASSUME Controlled, NEW o \in Tasks, NEW t \in Tasks \ {o},
           \/ \E pc, p : TaskBegin(o, pc, p)
           \/ \E from, to : TaskMove(o, from, to)
           \/ \E from : TaskEnd(o, from)
    PROVE  task'[t] = task[t]
  BY DEF Controlled, TaskBegin, TaskMove, TaskEnd

LEMMA OthersGoOn ==
    ASSUME TypeOK, NEW o \in Tasks, NEW t \in Tasks \ {o}, TaskStarts(o) \/ TaskRuns(o)
    PROVE  task'[t] = task[t]
<1>0. Controlled
  BY DEF Controlled, TypeOK
<1>1. \/ \E pc, p : TaskBegin(o, pc, p)
      \/ \E from, to : TaskMove(o, from, to)
      \/ \E from : TaskEnd(o, from)
  <2>1. CASE \/ \E u \in Users : InitializeSend(o, u)
             \/ \E p \in Online : VerifySend(o, p)
             \/ \E p \in Manual : RecordOffline(o, p)
    BY <2>1 DEF InitializeSend, VerifySend, RecordOffline
  <2>2. CASE \/ ProviderOpens(o) \/ VerifyAnswer(o) \/ VerifyRead(o)
             \/ VerifySettle(o) \/ VerifyNotify(o)
    BY <2>2 DEF ProviderOpens, VerifyAnswer, VerifyRead, VerifySettle, VerifyNotify
  <2>3. CASE \/ ProviderRefuses(o) \/ InitializeCommit(o) \/ InitializeRefused(o)
             \/ VerifyDeclined(o) \/ VerifyNothingToDo(o) \/ VerifyMail(o) \/ RecordNotify(o)
    BY <2>3 DEF ProviderRefuses, InitializeCommit, InitializeRefused, VerifyDeclined,
                VerifyNothingToDo, VerifyMail, RecordNotify
  <2> QED
    BY <2>1, <2>2, <2>3 DEF TaskStarts, TaskRuns
<1> QED
  BY <1>0, <1>1, OthersStay

(* Its own next step, while its record is pending.                         *)
LEMMA HolderGoesOn ==
    ASSUME TypeOK, NEW t \in Tasks, NEW p \in Online, Holds(t, p), status[p] = "pending",
           TaskStarts(t) \/ TaskRuns(t)
    PROVE  status'[p] = "completed" \/ GoesOn(t)
<1>1. ~ TaskStarts(t)
  BY DEF Holds, TaskStarts, InitializeSend, VerifySend, RecordOffline, TaskBegin, Idle
<1>2. VerifyRead(t) \/ VerifySettle(t)
  <2>1. task[t].pc \in {"answered", "settling"} /\ ~ NothingToSettle(task[t].pay)
    BY DEF Holds, NothingToSettle
  <2>2. ~ VerifyNothingToDo(t)
    BY <2>1 DEF VerifyNothingToDo
  <2>3. ~ (ProviderOpens(t) \/ VerifyAnswer(t) \/ VerifyNotify(t))
    BY <2>1 DEF ProviderOpens, VerifyAnswer, VerifyNotify, TaskMove, TaskEnd
  <2>4. ~ (ProviderRefuses(t) \/ InitializeCommit(t) \/ InitializeRefused(t)
           \/ VerifyDeclined(t) \/ VerifyMail(t) \/ RecordNotify(t))
    BY <2>1 DEF ProviderRefuses, InitializeCommit, InitializeRefused, VerifyDeclined,
                VerifyMail, RecordNotify, TaskEnd
  <2> QED
    BY <1>1, <2>2, <2>3, <2>4 DEF TaskRuns
<1>3. CASE VerifyRead(t)
  BY <1>3 DEF VerifyRead, TaskMove, GoesOn, TypeOK
<1>4. CASE VerifySettle(t)
  BY <1>4, References DEF VerifySettle, Holds, TypeOK
<1> QED
  BY <1>2, <1>3, <1>4

LEMMA AnswerStep ==
    ASSUME TypeOK, [Next]_vars, NEW t \in Tasks, NEW p \in Online,
           Holds(t, p), status[p] = "pending"
    PROVE  status'[p] = "completed" \/ faults' > faults \/ GoesOn(t)
<1> USE DEF GoesOn
<1>1. Fault => faults' > faults
  BY FaultAssumption DEF Fault, TypeOK
<1>2. CASE \E o \in Tasks : TaskStarts(o) \/ TaskRuns(o)
  <2>1. PICK o \in Tasks : TaskStarts(o) \/ TaskRuns(o)
    BY <1>2
  <2> QED
    BY <2>1, OthersGoOn, HolderGoesOn
<1>3. CASE Crash \/ \E o \in Tasks : TaskFails(o)
  BY <1>1, <1>3 DEF Crash, TaskFails
<1>4. CASE \E h \in Threads : ThreadStarts(h) \/ ThreadRuns(h) \/ ThreadFails(h)
  BY <1>4 DEF ThreadStarts, ThreadRuns, ThreadFails, SubmitProof, ApproveRead, RejectRead,
     SubmitNotify, ApproveCommit, ApproveNotify, ApproveMail, RejectCommit, RejectNotify,
     ThreadBegin, ThreadMove, ThreadEnd
<1>5. CASE \/ Tick \/ UNCHANGED vars \/ \E u \in Users : DeleteMember(u)
           \/ \E q \in Online : MemberPays(q) \/ ChargeFails(q) \/ ChargeReversed(q) \/ Webhook(q)
           \/ \E q \in Payment : ReceiptSent(q) \/ ReceiptLost(q)
  BY <1>5 DEF Tick, vars, DeleteMember, MemberPays, ChargeFails, ChargeReversed, Webhook,
     ReceiptSent, ReceiptLost
<1> QED
  BY <1>2, <1>3, <1>4, <1>5 DEF Next, Environment

(* What becomes of the record meanwhile.                                   *)
LEMMA PendingStays ==
    ASSUME TypeOK, Books', [Next]_vars, NEW p \in Online, status[p] = "pending"
    PROVE  status'[p] \in {"pending", "completed"} \/ Owner(p) \notin members'
<1>0. p \in Payment
  BY References
<1>1. status'[p] \in {"absent", "pending", "completed"}
  BY DEF Books, OnlineRows
<1>2. ASSUME NEW q, NEW s \in Status \ {"absent"}, status' = [status EXCEPT ![q] = s]
      PROVE  status'[p] # "absent"
  BY <1>0, <1>2 DEF TypeOK
<1>3. CASE \E u \in Users : DeleteMember(u)
  <2>1. PICK u \in Users : DeleteMember(u)
    BY <1>3
  <2>2. Owner(p) = u => Owner(p) \notin members'
    BY <2>1 DEF DeleteMember
  <2>3. Owner(p) # u => status'[p] = status[p]
    BY <1>0, <2>1 DEF DeleteMember
  <2> QED
    BY <2>2, <2>3
<1>4. CASE UNCHANGED status
  BY <1>4
<1>5. CASE \E q, s : s \in Status \ {"absent"} /\ status' = [status EXCEPT ![q] = s]
  BY <1>1, <1>2, <1>5
<1>6. \/ \E u \in Users : DeleteMember(u)
      \/ UNCHANGED status
      \/ \E q, s : s \in Status \ {"absent"} /\ status' = [status EXCEPT ![q] = s]
  <2> USE DEF Status, rows
  <2>1. CASE Environment \/ UNCHANGED vars
    BY <2>1 DEF Environment, Tick, MemberPays, ChargeFails, ChargeReversed, Webhook, Crash, vars
  <2>2. CASE \E t \in Tasks : TaskStarts(t) \/ TaskFails(t)
    BY <2>2 DEF TaskStarts, InitializeSend, VerifySend, RecordOffline, TaskFails
  <2>3. CASE \E t \in Tasks : TaskRuns(t)
    BY <2>3 DEF TaskRuns, ProviderOpens, ProviderRefuses, InitializeCommit, InitializeRefused,
       VerifyAnswer, VerifyDeclined, VerifyRead, VerifyNothingToDo, VerifySettle,
       VerifyNotify, VerifyMail, RecordNotify
  <2>4. CASE \E h \in Threads : ThreadStarts(h) \/ ThreadRuns(h) \/ ThreadFails(h)
    BY <2>4 DEF ThreadStarts, ThreadRuns, ThreadFails, SubmitProof, ApproveRead, RejectRead,
       SubmitNotify, ApproveCommit, ApproveNotify, ApproveMail, RejectCommit, RejectNotify
  <2>5. CASE \E q \in Payment : ReceiptSent(q) \/ ReceiptLost(q)
    BY <2>5 DEF ReceiptSent, ReceiptLost
  <2> QED
    BY <2>1, <2>2, <2>3, <2>4, <2>5 DEF Next
<1> QED
  BY <1>3, <1>4, <1>5, <1>6

THEOREM AnswersAreKept == Spec => AnswerIsKept
<1> DEFINE Kept == \A t \in Tasks, p \in Online :
                      Holds(t, p) /\ status[p] = "pending" =>
                         \/ status'[p] = "completed"
                         \/ Owner(p) \notin members'
                         \/ faults' > faults
                         \/ status'[p] = "pending" /\ GoesOn(t)
<1>1. TypeOK /\ Books' /\ [Next]_vars => [Kept]_vars
  BY AnswerStep, PendingStays
<1> QED
  BY <1>1, TypeCorrect, BooksAreRight, PTL DEF Spec, AnswerIsKept
==============================================================================
