----------------------------- MODULE DuesProofs -----------------------------
(***************************************************************************)
(* The notices of a due and the views of what is owed, for every set of    *)
(* members, titles, purposes and number of failures.                       *)
(***************************************************************************)
EXTENDS Dues, TLAPS

Working == task.pc \in {"telling", "mailing"}

(* Before the task there is no list and no notice.                         *)
NothingYet == task.pc \in {"idle", "created"} => listed = {} /\ told = {}

(* The members left are listed and not yet told.                           *)
LeftAreUntold ==
    Working => task.todo \subseteq listed /\ task.todo \cap told = {}

(* A usable session has told everybody whose turn has come; a failed one,  *)
(* without any other failure, has met a deleted member.                    *)
SessionTellsWhy ==
    Working /\ faults = 0 =>
        /\ task.session = "usable" => listed \ told \subseteq task.todo
        /\ task.session = "failed" =>
              \E o \in listed \ told : o \notin task.todo /\ ~Exists(o)

Notices ==
    /\ NothingYet
    /\ LeftAreUntold
    /\ SessionTellsWhy
    /\ UntoldHasCause

-----------------------------------------------------------------------------
LEMMA InitTyped == Init => TypeOK
  BY FaultsAssumption DEF Init, TypeOK, TaskState

(* The task's record at work.                                              *)
LEMMA AtWork ==
    ASSUME TypeOK, Working
    PROVE  /\ task.todo \in SUBSET Members
           /\ task.session \in {"usable", "failed"}
           /\ At("mailing") => task.who \in Members /\ task.try \in 1..Attempts
  BY DEF TypeOK, TaskState, Working, At

LEMMA MailingTyped ==
    ASSUME TypeOK, Working, NEW m \in task.todo, NEW s \in {"usable", "failed"},
           Mailing(m, s)
    PROVE  /\ task' \in TaskState
           /\ m \in Members
           /\ task'.pc = "mailing"
           /\ task'.todo = task.todo \ {m}
           /\ task'.session = s
           /\ task'.who = m
           /\ task'.try = 1
  BY AtWork DEF Mailing, TaskState, Attempts

LEMMA NextMemberTyped ==
    ASSUME TypeOK, Working, NextMember
    PROVE  /\ task' \in TaskState
           /\ task'.pc = "telling"
           /\ task'.todo = task.todo
           /\ task'.session = task.session
  BY AtWork DEF NextMember, TaskState

LEMMA TryAgainTyped ==
    ASSUME TypeOK, At("mailing"), task.try < Attempts, task' = [task EXCEPT !.try = @ + 1]
    PROVE  /\ task' \in TaskState
           /\ task'.pc = "mailing"
           /\ task'.todo = task.todo
           /\ task'.session = task.session
           /\ task'.who = task.who
           /\ task'.try = task.try + 1
  BY DEF At, TypeOK, TaskState, Attempts

LEMMA DescriptionsTyped ==
    ASSUME NEW p \in Purposes
    PROVE  Undated(p) \in Description /\ Dated(p) \in Description
  BY PurposesAssumption DEF Purpose, Description, Undated, Dated

-----------------------------------------------------------------------------
(* Every action keeps the types.                                           *)
LEMMA TypeStep == TypeOK /\ [Next]_dvars => TypeOK'
<1> SUFFICES ASSUME TypeOK, [Next]_dvars PROVE TypeOK'
  OBVIOUS
<1> USE DEF payments, notices
<1>1. CASE \E d \in Due : CreateDue(d)
  BY <1>1 DEF CreateDue, TypeOK, TaskState, Due
<1>2. CASE QueueNotices
  BY <1>2 DEF QueueNotices, TypeOK, TaskState
<1>3. CASE TellStep
  <2>1. PICK m \in task.todo : Tell(m)
    BY <1>3 DEF TellStep
  <2>2. Working
    BY <1>3 DEF TellStep, Working, At
  <2>3. m \in Members /\ told' \in SUBSET Members
    BY <2>1, <2>2, AtWork DEF Tell, TypeOK
  <2>4. task' \in TaskState
    BY <2>1, <2>2, MailingTyped DEF Tell
  <2> QED
    BY <1>3, <2>3, <2>4 DEF TellStep, TypeOK
<1>4. CASE MailStep
  <2>1. Working /\ task.who \in Members
    BY <1>4, AtWork DEF MailStep, Working, At
  <2> QED
    BY <1>4, <2>1, NextMemberTyped DEF MailStep, Accepted, TypeOK
<1>5. CASE AllTold \/ QueueFails \/ Restart
  BY <1>5, FaultsAssumption DEF AllTold, QueueFails, Restart, Over, Fault, TypeOK, TaskState
<1>6. CASE TellFails
  <2>1. PICK m \in task.todo, z \in {"usable", "failed"} : Mailing(m, z)
    BY <1>6 DEF TellFails
  <2>2. Working
    BY <1>6 DEF TellFails, Working, At
  <2>3. task' \in TaskState
    BY <2>1, <2>2, MailingTyped
  <2> QED
    BY <1>6, <2>3, FaultsAssumption DEF TellFails, Fault, TypeOK
<1>7. CASE MailFails
  <2>1. Working
    BY <1>7 DEF MailFails, Working, At
  <2> QED
    BY <1>7, <2>1, NextMemberTyped, FaultsAssumption DEF MailFails, Accepted, Fault, TypeOK
<1>14. CASE MailRefused
  <2>1. Working /\ At("mailing") /\ task.who \in Members
    BY <1>14, AtWork DEF MailRefused, Working, At
  <2>2. task' \in TaskState
    BY <1>14, <2>1, NextMemberTyped, TryAgainTyped DEF MailRefused
  <2>3. mailed' \in [Members -> Nat] /\ refused' \in [Members -> Nat]
    BY <1>14, <2>1 DEF MailRefused, Accepted, TypeOK
  <2> QED
    BY <1>14, <2>2, <2>3 DEF MailRefused, TypeOK
<1>8. CASE UpdateDue
  BY <1>8 DEF UpdateDue, TypeOK, Held, NoDue, Due
<1>9. CASE DeleteDue
  BY <1>9 DEF DeleteDue, TypeOK
<1>10. CASE \E m \in Members : SwitchAccount(m) \/ DeleteMember(m)
  BY <1>10 DEF SwitchAccount, DeleteMember, TypeOK
<1>11. ASSUME NEW m \in Payers, NEW p \in Purposes, Pay(m, p) \/ SubmitProof(m, p)
       PROVE  TypeOK'
  BY <1>11, DescriptionsTyped, PayersAssumption DEF Pay, SubmitProof, TypeOK
<1>12. ASSUME NEW m \in Payers, NEW d \in review[m], Approve(m, d) \/ Reject(m, d)
       PROVE  TypeOK'
  <2>1. m \in Members /\ d \in Description
    BY PayersAssumption DEF TypeOK
  <2> QED
    BY <1>12, <2>1 DEF Approve, Reject, TypeOK
<1>13. CASE UNCHANGED dvars
  BY <1>13 DEF dvars, TypeOK
<1> QED
  BY <1>1, <1>2, <1>3, <1>4, <1>5, <1>6, <1>7, <1>8, <1>9, <1>10, <1>11, <1>12, <1>13, <1>14
  DEF Next, TaskRuns

(* Every variable of Dues keeps its type.                                  *)
THEOREM TypeCorrect == Spec => []TypeOK
<1>1. Init => TypeOK
  BY InitTyped
<1>2. TypeOK /\ [Next]_dvars => TypeOK'
  BY TypeStep
<1> QED
  BY <1>1, <1>2, PTL DEF Spec

-----------------------------------------------------------------------------
(* Why a listed member was not told.                                       *)

LEMMA InitNotices == Init => Notices
  BY DEF Init, Notices, NothingYet, LeftAreUntold, SessionTellsWhy, UntoldHasCause,
     Working, At

(* A step that leaves task and lists alone and brings no member back.      *)
LEMMA QuietStep ==
    ASSUME Notices, UNCHANGED <<notices, faults>>,
           \A m \in Members : ~Exists(m) => ~Exists(m)', TypeOK
    PROVE  Notices'
  BY DEF Notices, NothingYet, LeftAreUntold, SessionTellsWhy, UntoldHasCause, Working,
     At, notices, TypeOK

(* After a failure nothing is claimed of the notices.                      *)
LEMMA FaultCounts == TypeOK /\ Fault => faults' # 0
  BY FaultsAssumption DEF TypeOK, Fault

LEMMA NoticesStep == TypeOK /\ Notices /\ [Next]_dvars => Notices'
<1> SUFFICES ASSUME TypeOK, Notices, [Next]_dvars PROVE Notices'
  OBVIOUS
<1>1. CASE \E d \in Due : CreateDue(d)
  BY <1>1 DEF CreateDue, Notices, NothingYet, LeftAreUntold, SessionTellsWhy,
     UntoldHasCause, Working, At
<1>2. CASE QueueNotices
  <2>1. task' = [pc |-> "telling", todo |-> listed', session |-> "usable"]
    BY <1>2 DEF QueueNotices
  <2>2. told' = {}
    BY <1>2 DEF QueueNotices, Notices, NothingYet, At
  <2> QED
    BY <2>1, <2>2 DEF Notices, NothingYet, LeftAreUntold, SessionTellsWhy,
       UntoldHasCause, Working, At
<1>3. CASE TellStep
  <2>1. PICK m \in task.todo : Tell(m)
    BY <1>3 DEF TellStep
  <2>2. Working /\ UNCHANGED <<account, listed, faults>>
    BY <1>3 DEF TellStep, Working, At
  <2>3. m \in listed /\ m \notin told
    BY <2>1, <2>2 DEF Notices, LeftAreUntold
  <2>4. /\ task'.pc = "mailing"
        /\ task'.todo = task.todo \ {m}
        /\ \/ /\ Exists(m) /\ task.session = "usable" /\ told' = told \cup {m}
              /\ task'.session = "usable"
           \/ /\ ~Exists(m) \/ task.session = "failed"
              /\ told' = told /\ task'.session = "failed"
    BY <2>1, <2>2, MailingTyped DEF Tell
  <2>5. NothingYet' /\ UntoldHasCause' /\ LeftAreUntold'
    BY <2>2, <2>4 DEF NothingYet, UntoldHasCause, At, Notices, LeftAreUntold, Working
  <2>6. SessionTellsWhy'
    <3>1. CASE task'.session = "usable"
      BY <2>2, <2>3, <2>4, <3>1 DEF Notices, SessionTellsWhy, Working
    <3>2. CASE task'.session = "failed" /\ task.session = "failed"
      BY <2>2, <2>4, <3>2 DEF Notices, SessionTellsWhy, Working, Exists
    <3>3. CASE task'.session = "failed" /\ ~Exists(m)
      BY <2>2, <2>3, <2>4, <3>3 DEF Notices, SessionTellsWhy, Working, Exists
    <3> QED
      BY <2>4, <3>1, <3>2, <3>3
  <2> QED
    BY <2>5, <2>6 DEF Notices
<1>4. CASE MailStep
  <2>1. Working /\ UNCHANGED <<account, listed, told, faults>> /\ NextMember
    BY <1>4 DEF MailStep, Working, At
  <2>2. task'.pc = "telling" /\ task'.todo = task.todo /\ task'.session = task.session
    BY <2>1, NextMemberTyped
  <2> QED
    BY <2>1, <2>2 DEF Notices, NothingYet, LeftAreUntold, SessionTellsWhy, UntoldHasCause,
       Working, At, Exists
<1>5. CASE AllTold
  <2>1. /\ Working /\ task.todo = {} /\ task' = [pc |-> "over"]
        /\ UNCHANGED <<account, listed, told, faults>>
    BY <1>5 DEF AllTold, Working, At, Over
  <2>2. task.session \in {"usable", "failed"}
    BY <2>1, AtWork
  <2> QED
    BY <2>1, <2>2 DEF Notices, NothingYet, LeftAreUntold, SessionTellsWhy, UntoldHasCause,
       Working, At, Exists
<1>6. CASE QueueFails \/ Restart
  BY <1>6, FaultCounts DEF QueueFails, Restart, Over, Notices, NothingYet, LeftAreUntold,
     SessionTellsWhy, UntoldHasCause, Working, At
<1>7. CASE TellFails
  <2>1. PICK m \in task.todo, z \in {"usable", "failed"} : Mailing(m, z)
    BY <1>7 DEF TellFails
  <2>2. Working /\ faults' # 0 /\ UNCHANGED <<listed, told>>
    BY <1>7, FaultCounts DEF TellFails, Working, At
  <2>3. task'.pc = "mailing" /\ task'.todo = task.todo \ {m}
    BY <2>1, <2>2, MailingTyped
  <2> QED
    BY <2>2, <2>3 DEF Notices, NothingYet, LeftAreUntold, SessionTellsWhy, UntoldHasCause,
       Working, At
<1>8. CASE MailFails
  <2>1. Working /\ faults' # 0 /\ UNCHANGED <<listed, told>> /\ NextMember
    BY <1>8, FaultCounts DEF MailFails, Working, At
  <2>2. task'.pc = "telling" /\ task'.todo = task.todo
    BY <2>1, NextMemberTyped
  <2> QED
    BY <2>1, <2>2 DEF Notices, NothingYet, LeftAreUntold, SessionTellsWhy, UntoldHasCause,
       Working, At
<1>9. CASE UpdateDue \/ DeleteDue
  BY <1>9, QuietStep DEF UpdateDue, DeleteDue, Exists
<1>10. CASE \E m \in Members : SwitchAccount(m) \/ DeleteMember(m)
  <2>1. UNCHANGED <<notices, faults>>
    BY <1>10 DEF SwitchAccount, DeleteMember
  <2>2. \A m \in Members : ~Exists(m) => ~Exists(m)'
    BY <1>10 DEF SwitchAccount, DeleteMember, Exists, TypeOK
  <2> QED
    BY <2>1, <2>2, QuietStep
<1>11. CASE \/ \E m \in Payers, p \in Purposes : Pay(m, p) \/ SubmitProof(m, p)
            \/ \E m \in Payers : \E d \in review[m] : Approve(m, d) \/ Reject(m, d)
  BY <1>11, QuietStep DEF Pay, SubmitProof, Approve, Reject, Exists
<1>12. CASE UNCHANGED dvars
  BY <1>12, QuietStep DEF dvars, notices, Exists
<1>13. CASE MailRefused
  <2>1. Working /\ At("mailing") /\ UNCHANGED <<account, listed, told, faults>>
    BY <1>13 DEF MailRefused, Working, At
  <2>2. /\ task'.pc \in {"telling", "mailing"}
        /\ task'.todo = task.todo /\ task'.session = task.session
    BY <1>13, <2>1, NextMemberTyped, TryAgainTyped DEF MailRefused
  <2> QED
    BY <2>1, <2>2 DEF Notices, NothingYet, LeftAreUntold, SessionTellsWhy, UntoldHasCause,
       Working, At, Exists
<1> QED
  BY <1>1, <1>2, <1>3, <1>4, <1>5, <1>6, <1>7, <1>8, <1>9, <1>10, <1>11, <1>12, <1>13
  DEF Next, TaskRuns

(* Without a failure, a listed member who was not told is explained by     *)
(* another who was deleted before being told (the one shared session of    *)
(* process_due_notifications_background).                                  *)
THEOREM UntoldIsExplained == Spec => []UntoldHasCause
<1>1. Init => Notices
  BY InitNotices
<1>2. TypeOK /\ Notices /\ [Next]_dvars => Notices'
  BY NoticesStep
<1>3. Notices => UntoldHasCause
  BY DEF Notices
<1> QED
  BY <1>1, <1>2, <1>3, TypeCorrect, PTL DEF Spec

-----------------------------------------------------------------------------
(* How often a member is mailed.                                           *)

(* The tries so far were refused, and each may have been accepted as well. *)
Mails ==
    /\ task.pc \in {"idle", "created"} =>
          \A m \in Members : mailed[m] = 0 /\ refused[m] = 0
    /\ Working => \A m \in task.todo : mailed[m] = 0 /\ refused[m] = 0
    /\ At("mailing") => /\ task.who \notin task.todo
                        /\ refused[task.who] = task.try - 1
                        /\ mailed[task.who] <= task.try - 1
    /\ RepeatedByRetryOnly

LEMMA InitMails == Init => Mails
  BY DEF Init, Mails, RepeatedByRetryOnly, Working, At, Attempts

(* The task moves on, and no e-mail is sent.                               *)
LEMMA StillMails ==
    ASSUME Mails, UNCHANGED <<mailed, refused>>,
           \/ task' = task
           \/ task'.pc = "over"
    PROVE  Mails'
  BY DEF Mails, RepeatedByRetryOnly, Working, At

(* The next member's turn: nothing was sent to it yet.                     *)
LEMMA MailsTurn ==
    ASSUME TypeOK, Mails, Working, NEW m \in task.todo, NEW s \in {"usable", "failed"},
           Mailing(m, s), UNCHANGED <<mailed, refused>>
    PROVE  Mails'
  BY MailingTyped DEF Mails, RepeatedByRetryOnly, Working, At

(* A try that ends the member's turn.                                      *)
LEMMA MailsLast ==
    ASSUME TypeOK, Mails, At("mailing"), NextMember, UNCHANGED refused,
           Accepted \/ UNCHANGED mailed
    PROVE  Mails'
<1>1. /\ task.who \in Members /\ task.try \in 1..Attempts /\ task.todo \subseteq Members
      /\ task.who \notin task.todo /\ Working
      /\ refused[task.who] = task.try - 1 /\ mailed[task.who] <= task.try - 1
  BY AtWork DEF Mails, Working, At
<1>2. task'.pc = "telling" /\ task'.todo = task.todo
  BY <1>1, NextMemberTyped
<1>3. /\ mailed' \in [Members -> Nat]
      /\ \A m \in Members \ {task.who} : mailed'[m] = mailed[m]
      /\ mailed'[task.who] <= task.try
  BY <1>1 DEF Accepted, TypeOK, Attempts
<1>4. RepeatedByRetryOnly'
  BY <1>1, <1>3 DEF Mails, RepeatedByRetryOnly, Attempts, TypeOK
<1> QED
  BY <1>1, <1>2, <1>3, <1>4 DEF Mails, Working, At

(* A refused try, followed by another or by the next member.               *)
LEMMA MailsRefused ==
    ASSUME TypeOK, Mails, MailRefused
    PROVE  Mails'
<1>1. /\ task.who \in Members /\ task.try \in 1..Attempts /\ task.todo \subseteq Members
      /\ task.who \notin task.todo /\ Working /\ At("mailing")
      /\ refused[task.who] = task.try - 1 /\ mailed[task.who] <= task.try - 1
  BY AtWork DEF MailRefused, Mails, Working, At
<1>2. /\ mailed' \in [Members -> Nat] /\ refused' \in [Members -> Nat]
      /\ \A m \in Members \ {task.who} : mailed'[m] = mailed[m] /\ refused'[m] = refused[m]
      /\ refused'[task.who] = task.try
      /\ mailed'[task.who] <= task.try
  BY <1>1 DEF MailRefused, Accepted, TypeOK, Attempts
<1>3. RepeatedByRetryOnly'
  BY <1>1, <1>2 DEF Mails, RepeatedByRetryOnly, Attempts
<1>4. /\ task'.todo = task.todo /\ task'.pc \in {"telling", "mailing"}
      /\ task'.pc = "mailing" => task'.who = task.who /\ task'.try = task.try + 1
  BY <1>1, NextMemberTyped, TryAgainTyped DEF MailRefused
<1>5. At("mailing")' => /\ (task.who \notin task.todo)'
                        /\ (refused[task.who] = task.try - 1)'
                        /\ (mailed[task.who] <= task.try - 1)'
  BY <1>1, <1>2, <1>4 DEF At, Attempts
<1> QED
  BY <1>1, <1>2, <1>3, <1>4, <1>5 DEF Mails, Working

LEMMA MailsStep == TypeOK /\ Mails /\ [Next]_dvars => Mails'
<1> SUFFICES ASSUME TypeOK, Mails, [Next]_dvars PROVE Mails'
  OBVIOUS
<1>1. CASE \E d \in Due : CreateDue(d)
  BY <1>1 DEF CreateDue, Mails, RepeatedByRetryOnly, Working, At
<1>2. CASE QueueNotices
  <2>1. /\ task'.pc = "telling" /\ task'.todo \subseteq Members
        /\ \A m \in Members : mailed[m] = 0 /\ refused[m] = 0
        /\ UNCHANGED <<mailed, refused>>
    BY <1>2 DEF QueueNotices, Mails, At
  <2> QED
    BY <2>1 DEF Mails, RepeatedByRetryOnly, Working, At
<1>3. CASE TellStep \/ TellFails
  <2>1. Working /\ UNCHANGED <<mailed, refused>>
    BY <1>3 DEF TellStep, TellFails, Working, At
  <2>2. PICK m \in task.todo, z \in {"usable", "failed"} : Mailing(m, z)
    BY <1>3 DEF TellStep, TellFails, Tell
  <2> QED
    BY <2>1, <2>2, MailsTurn
<1>4. CASE MailStep \/ MailFails
  BY <1>4, MailsLast DEF MailStep, MailFails
<1>5. CASE MailRefused
  BY <1>5, MailsRefused
<1>6. CASE AllTold \/ QueueFails \/ Restart
  BY <1>6, StillMails DEF AllTold, QueueFails, Restart, Over
<1>7. CASE \/ UpdateDue \/ DeleteDue
           \/ \E m \in Members : SwitchAccount(m) \/ DeleteMember(m)
           \/ \E m \in Payers, p \in Purposes : Pay(m, p) \/ SubmitProof(m, p)
           \/ \E m \in Payers : \E d \in review[m] : Approve(m, d) \/ Reject(m, d)
           \/ UNCHANGED dvars
  BY <1>7, StillMails DEF UpdateDue, DeleteDue, SwitchAccount, DeleteMember, Pay,
     SubmitProof, Approve, Reject, notices, dvars
<1> QED
  BY <1>1, <1>2, <1>3, <1>4, <1>5, <1>6, <1>7 DEF Next, TaskRuns

(* Nobody is mailed more often than send_email tries, nor more often than  *)
(* the provider refused and once more.                                     *)
THEOREM RepeatsAreRetries == Spec => []RepeatedByRetryOnly
<1>1. Init => Mails
  BY InitMails
<1>2. TypeOK /\ Mails /\ [Next]_dvars => Mails'
  BY MailsStep
<1>3. Mails => RepeatedByRetryOnly
  BY DEF Mails
<1> QED
  BY <1>1, <1>2, <1>3, TypeCorrect, PTL DEF Spec

-----------------------------------------------------------------------------
(* What is owed.                                                           *)

(* Where no bar cuts a name off, the dashboard reads what the member list  *)
(* reads: dropping the date only adds to what is settled.                  *)
LEMMA DashboardReadsMore ==
    ASSUME NEW d \in Description, NEW t \in Titles, MemberListNames(d, t), ~CutOff(d, t)
    PROVE  DashboardNames(d, t)
<1>1. PICK k \in Places(d) : d.names[k] = t
  BY DEF MemberListNames
<1>2. k \in 1..Len(d.names) /\ Len(d.names) \in Nat
  BY <1>1 DEF Places, Description
<1>3. \A j \in 1..k : ~Barred(d.names[j])
  BY <1>1 DEF CutOff
<1>4. CutAtBar[d.names[k]] = t /\ \A j \in 1..k - 1 : ~Barred(d.names[j])
  BY <1>1, <1>2, <1>3 DEF Barred
<1> QED
  BY <1>1, <1>4 DEF DashboardNames

(* Whatever members pay and organisers rename, with bars or without: the   *)
(* member list shows as paid what the dashboard shows as owed only where   *)
(* the due is free or a bar cuts its title off (users.py:164,              *)
(* dashboard.py:141), and the report names only members who owe.           *)
THEOREM ViewsAreOrdered == Spec => []ViewsErrOneWay
<1>1. TypeOK => ViewsErrOneWay
  <2> SUFFICES ASSUME TypeOK, NEW m \in Members
               PROVE  /\ Owes(m) => \/ Overdue(m) \/ due.free
                                    \/ \E d \in paid[m] : CutOff(d, due.title)
                      /\ Outstanding(m) => Owes(m)
    BY DEF ViewsErrOneWay
  <2>1. ASSUME Owes(m), ~Overdue(m), ~due.free
        PROVE  \E d \in paid[m] : CutOff(d, due.title)
    <3>1. PICK d \in paid[m] : MemberListNames(d, due.title)
      BY <2>1 DEF Owes, Overdue
    <3>2. ~DashboardNames(d, due.title)
      BY <2>1 DEF Owes
    <3>3. d \in Description /\ due.title \in Titles
      BY <2>1 DEF TypeOK, Owes, Charged, Held, Due
    <3> QED
      BY <3>1, <3>2, <3>3, DashboardReadsMore
  <2>2. Outstanding(m) => Owes(m)
    BY DEF Outstanding, Owes
  <2> QED
    BY <2>1, <2>2
<1> QED
  BY <1>1, TypeCorrect, PTL

(* The approval of the proof that shows a due as under review settles it.  *)
THEOREM ReviewSettles == Spec => ReviewEndsWithDecision
<1>1. ASSUME NEW m \in Members, UnderReview(m), ~UnderReview(m)', due' = due,
             review[m] \subseteq review'[m] \cup paid'[m]
      PROVE  ~Owes(m)'
  <2>1. PICK d \in review[m] : PendingNames(d, due.title)
    BY <1>1 DEF UnderReview
  <2>2. CASE d \in paid'[m]
    BY <1>1, <2>1, <2>2 DEF Owes, DashboardNames, PendingNames
  <2>3. CASE d \in review'[m]
    BY <1>1, <2>1, <2>3 DEF UnderReview
  <2> QED
    BY <1>1, <2>2, <2>3
<1>2. [\A m \in Members :
          UnderReview(m) /\ ~UnderReview(m)' /\ due' = due /\ Exists(m)'
             => ~Owes(m)' \/ ~(review[m] \subseteq review'[m] \cup paid'[m])]_dvars
  BY <1>1
<1> QED
  BY <1>2, PTL DEF ReviewEndsWithDecision

-----------------------------------------------------------------------------
(* Nobody is left out.                                                     *)

(* A member the provider has answered for good.                            *)
Answered(m) == mailed[m] > 0 \/ refused[m] = Attempts

(* Without a failure, a task that has ended has left nobody out: each      *)
(* listed member's e-mail was accepted, or refused as often as it is tried *)
(* (process_due_notifications_background).                                 *)
NobodyLeftOut == At("over") /\ faults = 0 => \A m \in listed : Answered(m)

(* Until then, who is not answered is still to come, or is being mailed.   *)
StillToCome(m) == m \in task.todo \/ (At("mailing") /\ task.who = m)

Remembered ==
    /\ task.pc \in {"idle", "created"} => listed = {}
    /\ Working /\ faults = 0 => \A m \in listed : StillToCome(m) \/ Answered(m)
    /\ NobodyLeftOut

LEMMA InitRemembered == Init => Remembered
  BY DEF Init, Remembered, NobodyLeftOut, Working, At

(* E-mails are only ever added.                                            *)
LEMMA AnsweredStays ==
    ASSUME TypeOK, Mails, At("mailing"), Accepted \/ UNCHANGED mailed,
           UNCHANGED refused \/ refused' = [refused EXCEPT ![task.who] = @ + 1]
    PROVE  \A m \in Members \ {task.who} : Answered(m) => Answered(m)'
  BY AtWork DEF TypeOK, Accepted, Answered, Working

LEMMA RememberedStep == TypeOK /\ Mails /\ Remembered /\ [Next]_dvars => Remembered'
<1> SUFFICES ASSUME TypeOK, Mails, Remembered, [Next]_dvars PROVE Remembered'
  OBVIOUS
<1>0. listed \subseteq Members
  BY DEF TypeOK
<1>1. CASE \E d \in Due : CreateDue(d)
  BY <1>1 DEF CreateDue, Remembered, NobodyLeftOut, Working, At
<1>2. CASE QueueNotices
  <2>1. task' = [pc |-> "telling", todo |-> listed', session |-> "usable"]
    BY <1>2 DEF QueueNotices
  <2> QED
    BY <2>1 DEF Remembered, NobodyLeftOut, StillToCome, Working, At
<1>3. CASE TellStep \/ TellFails
  <2>1. Working /\ UNCHANGED <<mailed, refused, listed>> /\ (faults' = 0 => faults = 0)
    BY <1>3, FaultCounts DEF TellStep, TellFails, Working, At
  <2>2. PICK m \in task.todo, z \in {"usable", "failed"} : Mailing(m, z)
    BY <1>3 DEF TellStep, TellFails, Tell
  <2>3. task'.pc = "mailing" /\ task'.todo = task.todo \ {m} /\ task'.who = m
    BY <2>1, <2>2, MailingTyped
  <2>4. At("telling")
    BY <1>3 DEF TellStep, TellFails
  <2> QED
    BY <2>1, <2>3, <2>4 DEF Remembered, NobodyLeftOut, StillToCome, Answered, Working, At
<1>4. CASE MailStep \/ MailFails \/ MailRefused
  <2>1. /\ Working /\ At("mailing") /\ UNCHANGED listed /\ (faults' = 0 => faults = 0)
        /\ Accepted \/ UNCHANGED mailed
        /\ UNCHANGED refused \/ refused' = [refused EXCEPT ![task.who] = @ + 1]
    BY <1>4, FaultCounts DEF MailStep, MailFails, MailRefused, Working, At
  <2>2. PICK w : w = task.who
    OBVIOUS
  <2>3. \A m \in listed \ {w} : Answered(m) => Answered(m)'
    BY <1>0, <2>1, <2>2, AnsweredStays
  <2>4. w \in Members /\ task.try \in 1..Attempts /\ refused[w] = task.try - 1
    BY <2>1, <2>2, AtWork DEF Mails
  <2>5. CASE MailStep
    <3>1. mailed'[w] > 0
      BY <2>2, <2>4, <2>5 DEF MailStep, Accepted, TypeOK
    <3>2. Answered(w)'
      BY <3>1 DEF Answered
    <3>3. task'.pc = "telling" /\ task'.todo = task.todo
      BY <2>1, <2>5, NextMemberTyped DEF MailStep
    <3> QED
      BY <2>1, <2>2, <2>3, <3>2, <3>3
      DEF Remembered, NobodyLeftOut, StillToCome, Working, At
  <2>6. CASE MailFails
    <3>1. task'.pc = "telling" /\ task'.todo = task.todo /\ faults' # 0
      BY <2>1, <2>6, NextMemberTyped, FaultCounts DEF MailFails
    <3> QED
      BY <2>1, <3>1 DEF Remembered, NobodyLeftOut, Working, At
  <2>7. CASE MailRefused /\ task.try < Attempts /\ task' = [task EXCEPT !.try = @ + 1]
    <3>1. task'.pc = "mailing" /\ task'.todo = task.todo /\ task'.who = w
      BY <2>1, <2>2, <2>7, TryAgainTyped
    <3> QED
      BY <2>1, <2>2, <2>3, <3>1 DEF Remembered, NobodyLeftOut, StillToCome, Working, At
  <2>8. CASE MailRefused /\ task.try = Attempts /\ NextMember
    <3>1. refused'[w] = Attempts
      BY <2>2, <2>4, <2>8 DEF MailRefused, TypeOK, Attempts
    <3>2. Answered(w)'
      BY <3>1 DEF Answered
    <3>3. task'.pc = "telling" /\ task'.todo = task.todo
      BY <2>1, <2>8, NextMemberTyped
    <3> QED
      BY <2>1, <2>2, <2>3, <3>2, <3>3
      DEF Remembered, NobodyLeftOut, StillToCome, Working, At
  <2> QED
    BY <1>4, <2>5, <2>6, <2>7, <2>8 DEF MailRefused
<1>5. CASE AllTold
  <2>1. /\ Working /\ ~ At("mailing") /\ task.todo = {} /\ task'.pc = "over"
        /\ UNCHANGED <<mailed, refused, listed, faults>>
    BY <1>5 DEF AllTold, Over, Working, At
  <2> QED
    BY <2>1 DEF Remembered, NobodyLeftOut, StillToCome, Answered, Working, At
<1>6. CASE QueueFails \/ Restart
  BY <1>6, FaultCounts DEF QueueFails, Restart, Over, Remembered, NobodyLeftOut, Working, At
<1>7. CASE \/ UpdateDue \/ DeleteDue
           \/ \E m \in Members : SwitchAccount(m) \/ DeleteMember(m)
           \/ \E m \in Payers, p \in Purposes : Pay(m, p) \/ SubmitProof(m, p)
           \/ \E m \in Payers : \E d \in review[m] : Approve(m, d) \/ Reject(m, d)
           \/ UNCHANGED dvars
  <2>1. UNCHANGED <<task, listed, mailed, refused, faults>>
    BY <1>7 DEF UpdateDue, DeleteDue, SwitchAccount, DeleteMember, Pay, SubmitProof, Approve,
       Reject, notices, dvars
  <2> QED
    BY <2>1 DEF Remembered, NobodyLeftOut, StillToCome, Answered, Working, At
<1> QED
  BY <1>1, <1>2, <1>3, <1>4, <1>5, <1>6, <1>7 DEF Next, TaskRuns

(* Whatever becomes of the notices, the due and the members meanwhile.     *)
THEOREM NobodyIsLeftOut == Spec => []NobodyLeftOut
<1>1. Init => Mails /\ Remembered
  BY InitMails, InitRemembered
<1>2. TypeOK /\ Mails /\ Remembered /\ [Next]_dvars => Mails' /\ Remembered'
  BY MailsStep, RememberedStep
<1>3. Remembered => NobodyLeftOut
  BY DEF Remembered
<1> QED
  BY <1>1, <1>2, <1>3, TypeCorrect, PTL DEF Spec

(* The task only moves on: a step that changes it ends it, starts the turn *)
(* of a member still to come, tries that member once more (send_email      *)
(* counts its tries), or ends its turn. With the fairness of FairSpec,     *)
(* this is what makes it end.                                              *)
TaskMovesOn ==
    [][Working =>
          \/ task' = task \/ At("over")'
          \/ /\ At("telling") /\ At("mailing")'
             /\ \E m \in task.todo : task'.todo = task.todo \ {m} /\ task'.who = m /\ task'.try = 1
          \/ /\ At("mailing") /\ task'.todo = task.todo
             /\ \/ At("telling")'
                \/ At("mailing")' /\ task'.who = task.who /\ task'.try = task.try + 1
                   /\ task'.try <= Attempts]_dvars

THEOREM TasksMoveOn == Spec => TaskMovesOn
<1> DEFINE Moves == \/ task' = task \/ At("over")'
                    \/ /\ At("telling") /\ At("mailing")'
                       /\ \E m \in task.todo :
                             task'.todo = task.todo \ {m} /\ task'.who = m /\ task'.try = 1
                    \/ /\ At("mailing") /\ task'.todo = task.todo
                       /\ \/ At("telling")'
                          \/ At("mailing")' /\ task'.who = task.who /\ task'.try = task.try + 1
                             /\ task'.try <= Attempts
<1>1. TypeOK /\ [Next]_dvars => [Working => Moves]_dvars
  <2> SUFFICES ASSUME TypeOK, Next, Working PROVE Moves
    OBVIOUS
  <2>1. CASE \/ QueueNotices \/ QueueFails \/ \E d \in Due : CreateDue(d)
    BY <2>1 DEF QueueNotices, QueueFails, CreateDue, Working, At
  <2>2. CASE TellStep \/ TellFails
    <3>1. PICK m \in task.todo, z \in {"usable", "failed"} : Mailing(m, z)
      BY <2>2 DEF TellStep, TellFails, Tell
    <3>2. /\ task'.pc = "mailing" /\ task'.todo = task.todo \ {m}
          /\ task'.who = m /\ task'.try = 1
      BY <3>1, MailingTyped
    <3> QED
      BY <2>2, <3>2 DEF TellStep, TellFails, At
  <2>3. CASE MailStep \/ MailFails
    BY <2>3, NextMemberTyped DEF MailStep, MailFails, At
  <2>4. CASE MailRefused
    <3>1. CASE NextMember
      BY <2>4, <3>1, NextMemberTyped DEF MailRefused, At
    <3>2. CASE task.try < Attempts /\ task' = [task EXCEPT !.try = @ + 1]
      <4>1. At("mailing") /\ task.try \in 1..Attempts
        BY <2>4, AtWork DEF MailRefused
      <4> QED
        BY <3>2, <4>1, TryAgainTyped DEF At, Attempts
    <3> QED
      BY <2>4, <3>1, <3>2 DEF MailRefused
  <2>5. CASE AllTold \/ Restart
    BY <2>5 DEF AllTold, Restart, Over, At
  <2>6. CASE \/ UpdateDue \/ DeleteDue
             \/ \E m \in Members : SwitchAccount(m) \/ DeleteMember(m)
             \/ \E m \in Payers, p \in Purposes : Pay(m, p) \/ SubmitProof(m, p)
             \/ \E m \in Payers : \E d \in review[m] : Approve(m, d) \/ Reject(m, d)
    BY <2>6 DEF UpdateDue, DeleteDue, SwitchAccount, DeleteMember, Pay, SubmitProof, Approve,
       Reject, notices
  <2> QED
    BY <2>1, <2>2, <2>3, <2>4, <2>5, <2>6 DEF Next, TaskRuns
<1> QED
  BY <1>1, TypeCorrect, PTL DEF Spec, TaskMovesOn
=============================================================================
