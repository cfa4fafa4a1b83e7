-------------------------------- MODULE Dues --------------------------------
(***************************************************************************)
(* One due of the association (api/routes/dues.py): the task that tells    *)
(* every member of it, and what each member owes of it according to the    *)
(* member's dashboard, the administrator's member list and the report of   *)
(* outstanding dues.                                                       *)
(*                                                                         *)
(* Nothing links a payment to a due but the text of its description: the   *)
(* title of a due, or "dues:" and a list of titles; the description of a   *)
(* bank transfer ends in "| Date: ...".  A title may hold a bar itself; it *)
(* holds no comma, does not begin with "dues:" and does not end like a     *)
(* transfer.                                                               *)
(*                                                                         *)
(* Dues do not influence one another: one is enough, other titles stand    *)
(* for the others.                                                         *)
(*                                                                         *)
(* A definition placed directly above another of the same parameters is a  *)
(* faulty variant of it that no action uses.                               *)
(***************************************************************************)
EXTENDS Naturals, Sequences

CONSTANTS
    Members,    \* accounts
    Payers,     \* those of them that pay (the others bound the state space)
    Titles,     \* titles of dues, and what is left of them before a bar
    CutAtBar,   \* a title up to its first bar: all of it, when it has none
    Purposes,   \* what payers write, before the date of a transfer is added
    Bouncing,   \* those whose e-mail Postmark may refuse (a bound likewise)
    MaxFaults   \* bound: failed statements, failed e-mails and restarts

Purpose == [list: BOOLEAN, names: Seq(Titles)]

ASSUME PayersAssumption == Payers \subseteq Members
ASSUME BouncingAssumption == Bouncing \subseteq Members
ASSUME PurposesAssumption == Purposes \subseteq Purpose
ASSUME CutAssumption ==
    /\ CutAtBar \in [Titles -> Titles]
    /\ \A t \in Titles : CutAtBar[CutAtBar[t]] = CutAtBar[t]
ASSUME FaultsAssumption == MaxFaults \in Nat

VARIABLES
    account,    \* status of each member
    due,        \* the row of the due, or NoDue
    task,       \* the request that creates it, then its background task
    listed,     \* members the task was given
    told,       \* members with an in-app notice of the due
    mailed,     \* how often the e-mail provider accepted each member's e-mail
    refused,    \* how often it refused it
    paid,       \* descriptions of the completed payments of each member
    review,     \* descriptions of those pending verification
    faults

dvars == <<account, due, task, listed, told, mailed, refused, paid, review, faults>>
payments == <<paid, review>>
notices == <<task, listed, told, mailed, refused>>

(* send_email is tried three times.                                        *)
Attempts == 3

NoDue == [title |-> "none"]
(* A due is free when its amount is not above zero.                        *)
Due == [title: Titles, active: BOOLEAN, free: BOOLEAN]

Description == [list: BOOLEAN, names: Seq(Titles), dated: BOOLEAN]
Undated(p) == [list |-> p.list, names |-> p.names, dated |-> FALSE]
Dated(p)   == [list |-> p.list, names |-> p.names, dated |-> TRUE]

(* The session of the task is "failed" from the first failed INSERT on.    *)
TaskState ==
         [pc: {"idle", "created", "over"}]
    \cup [pc: {"telling"}, todo: SUBSET Members, session: {"usable", "failed"}]
    \cup [pc: {"mailing"}, todo: SUBSET Members, session: {"usable", "failed"},
          who: Members, try: 1..Attempts]

TypeOK ==
    /\ account \in [Members -> {"inactive", "active", "deleted"}]
    /\ due \in Due \cup {NoDue}
    /\ task \in TaskState
    /\ listed \in SUBSET Members
    /\ told \in SUBSET Members
    /\ mailed \in [Members -> Nat]
    /\ refused \in [Members -> Nat]
    /\ paid \in [Members -> SUBSET Description]
    /\ review \in [Members -> SUBSET Description]
    /\ faults \in 0..MaxFaults

Init ==
    /\ account \in [Members -> {"inactive", "active"}]
    /\ due = NoDue
    /\ task = [pc |-> "idle"]
    /\ listed = {}
    /\ told = {}
    /\ mailed = [m \in Members |-> 0]
    /\ refused = [m \in Members |-> 0]
    /\ paid = [m \in Members |-> {}]
    /\ review = [m \in Members |-> {}]
    /\ faults = 0

-----------------------------------------------------------------------------
Exists(m) == account[m] # "deleted"
Held == due # NoDue
At(pc) == task.pc = pc
Over == task' = [pc |-> "over"]
Fault == faults < MaxFaults /\ faults' = faults + 1

-----------------------------------------------------------------------------
(* Creating the due, and telling the members.                              *)

CreateDueUnset(d) ==
    /\ At("idle")
    /\ due' = [title |-> d.title]
    /\ task' = [pc |-> "created"]
    /\ UNCHANGED <<account, listed, told, mailed, refused, payments, faults>>
CreateDue(d) ==
    /\ At("idle")
    /\ due' = d
    /\ task' = [pc |-> "created"]
    /\ UNCHANGED <<account, listed, told, mailed, refused, payments, faults>>

(* The active members of this moment are handed to the background task.    *)
QueueNotices ==
    /\ At("created")
    /\ listed' = {m \in Members : account[m] = "active"}
    /\ task' = [pc |-> "telling", todo |-> listed', session |-> "usable"]
    /\ UNCHANGED <<account, due, told, mailed, refused, payments, faults>>

(* A failed query is logged: the due stays, and nobody is told.            *)
QueueFails ==
    /\ At("created")
    /\ Fault
    /\ Over
    /\ UNCHANGED <<account, due, listed, told, mailed, refused, payments>>

Mailing(m, session) ==
    task' = [pc |-> "mailing", todo |-> task.todo \ {m}, session |-> session,
             who |-> m, try |-> 1]

(* A member in the list who was deleted meanwhile fails the INSERT, and    *)
(* with it every later one: nothing rolls the session back.                *)
TellOrSkip(m) ==
    \/ /\ Exists(m) /\ task.session = "usable"
       /\ told' \in {told, told \cup {m}}
       /\ Mailing(m, "usable")
    \/ /\ ~Exists(m) \/ task.session = "failed"
       /\ UNCHANGED told
       /\ Mailing(m, "failed")
Tell(m) ==
    \/ /\ Exists(m) /\ task.session = "usable"
       /\ told' = told \cup {m}
       /\ Mailing(m, "usable")
    \/ /\ ~Exists(m) \/ task.session = "failed"
       /\ UNCHANGED told
       /\ Mailing(m, "failed")

TellStep ==
    /\ At("telling")
    /\ \E m \in task.todo : Tell(m)
    /\ UNCHANGED <<account, due, listed, mailed, refused, payments, faults>>

(* Any other failure of the INSERT or its commit.                          *)
TellFails ==
    /\ At("telling")
    /\ Fault
    /\ \E m \in task.todo, s \in {"usable", "failed"} :
          /\ task.session = "failed" => s = "failed"
          /\ Mailing(m, s)
    /\ UNCHANGED <<account, due, listed, told, mailed, refused, payments>>

(* The e-mail is sent whatever became of the notice, to the address the    *)
(* task was given; one that fails is logged.                               *)
NextMember == task' = [pc |-> "telling", todo |-> task.todo, session |-> task.session]
Accepted   == mailed' = [mailed EXCEPT ![task.who] = @ + 1]

MailStepIfUsable ==
    /\ At("mailing")
    /\ IF task.session = "usable" THEN Accepted ELSE UNCHANGED mailed
    /\ NextMember
    /\ UNCHANGED <<account, due, listed, told, refused, payments, faults>>
MailStep ==
    /\ At("mailing")
    /\ Accepted
    /\ NextMember
    /\ UNCHANGED <<account, due, listed, told, refused, payments, faults>>

(* Postmark's own errors are retried, others (of Resend, of SMTP, of the   *)
(* connection) are not.  In both cases the e-mail may have been accepted.  *)
MailRefusedForgets ==
    /\ At("mailing")
    /\ task.who \in Bouncing /\ refused' = [refused EXCEPT ![task.who] = @ + 1]
    /\ Accepted \/ UNCHANGED mailed
    /\ UNCHANGED task
    /\ UNCHANGED <<account, due, listed, told, payments, faults>>
MailRefused ==
    /\ At("mailing")
    /\ task.who \in Bouncing /\ refused' = [refused EXCEPT ![task.who] = @ + 1]
    /\ Accepted \/ UNCHANGED mailed
    /\ \/ task.try < Attempts /\ task' = [task EXCEPT !.try = @ + 1]
       \/ task.try = Attempts /\ NextMember
    /\ UNCHANGED <<account, due, listed, told, payments, faults>>

MailFails ==
    /\ At("mailing")
    /\ Fault
    /\ Accepted \/ UNCHANGED mailed
    /\ NextMember
    /\ UNCHANGED <<account, due, listed, told, refused, payments>>

AllTold ==
    /\ At("telling") /\ task.todo = {}
    /\ Over
    /\ UNCHANGED <<account, due, listed, told, mailed, refused, payments, faults>>

(* The task is in memory only: a restart ends it.                          *)
Restart ==
    /\ task.pc \in {"created", "telling", "mailing"}
    /\ Fault
    /\ Over
    /\ UNCHANGED <<account, due, listed, told, mailed, refused, payments>>

-----------------------------------------------------------------------------
(* update_due writes any of the columns; the task is not told.             *)
UpdateDue ==
    /\ Held
    /\ due' \in Due
    /\ UNCHANGED <<account, notices, payments, faults>>

DeleteDue ==
    /\ Held
    /\ due' = NoDue
    /\ UNCHANGED <<account, notices, payments, faults>>

(* Accounts become active or inactive, and are deleted with their          *)
(* payments (see Accounts).                                                *)
SwitchAccount(m) ==
    /\ Exists(m)
    /\ \E s \in {"inactive", "active"} : account' = [account EXCEPT ![m] = s]
    /\ UNCHANGED <<due, notices, payments, faults>>

DeleteMember(m) ==
    /\ Exists(m)
    /\ account' = [account EXCEPT ![m] = "deleted"]
    /\ paid' = [paid EXCEPT ![m] = {}]
    /\ review' = [review EXCEPT ![m] = {}]
    /\ UNCHANGED <<due, notices, faults>>

-----------------------------------------------------------------------------
(* Payments (see Payments), by what their descriptions say.                *)

(* An online payment is completed, or an offline one recorded.             *)
Pay(m, p) ==
    /\ Exists(m)
    /\ paid' = [paid EXCEPT ![m] = @ \cup {Undated(p)}]
    /\ UNCHANGED <<account, due, notices, review, faults>>

SubmitProof(m, p) ==
    /\ Exists(m)
    /\ review' = [review EXCEPT ![m] = @ \cup {Dated(p)}]
    /\ UNCHANGED <<account, due, notices, paid, faults>>

Approve(m, d) ==
    /\ d \in review[m]
    /\ review' = [review EXCEPT ![m] = @ \ {d}]
    /\ paid' = [paid EXCEPT ![m] = @ \cup {d}]
    /\ UNCHANGED <<account, due, notices, faults>>

Reject(m, d) ==
    /\ d \in review[m]
    /\ review' = [review EXCEPT ![m] = @ \ {d}]
    /\ UNCHANGED <<account, due, notices, paid, faults>>

-----------------------------------------------------------------------------
(* What a description settles.  The dashboard cuts it at the first bar: the *)
(* date is gone, and with it the rest of a title that holds a bar and all   *)
(* names after it.  The member list compares the whole text, so the date    *)
(* hides a single title, and the last one of a list.                        *)

Barred(t) == CutAtBar[t] # t
Places(d) == IF d.list \/ Len(d.names) = 1 THEN 1..Len(d.names) ELSE {}

DashboardNamesUndated(d, t) ==
    /\ ~d.dated
    /\ \E k \in Places(d) : /\ CutAtBar[d.names[k]] = t
                            /\ \A j \in 1..k - 1 : ~Barred(d.names[j])
DashboardNames(d, t) ==
    \E k \in Places(d) : /\ CutAtBar[d.names[k]] = t
                         /\ \A j \in 1..k - 1 : ~Barred(d.names[j])

(* The dashboard's second loop, over the payments under review.            *)
PendingNamesAny(d, t) == d.names # <<>>
PendingNames(d, t) ==
    \E k \in Places(d) : /\ CutAtBar[d.names[k]] = t
                         /\ \A j \in 1..k - 1 : ~Barred(d.names[j])

MemberListNames(d, t) ==
    \E k \in Places(d) : /\ d.names[k] = t
                         /\ d.dated => k < Len(d.names)

Charged == Held /\ due.active

(* Member dashboard: does the member owe the due, is it under review?      *)
Owes(m) == Charged /\ ~\E d \in paid[m] : DashboardNames(d, due.title)
UnderReview(m) == Owes(m) /\ \E d \in review[m] : PendingNames(d, due.title)

(* Member list and member page: "overdue", when what is unpaid adds up.    *)
Overdue(m) == Charged /\ ~due.free /\ ~\E d \in paid[m] : MemberListNames(d, due.title)

(* Report of outstanding dues: any completed payment clears a member.      *)
Outstanding(m) == Exists(m) /\ Charged /\ paid[m] = {}

-----------------------------------------------------------------------------
TaskRuns ==
    QueueNotices \/ TellStep \/ MailStep \/ AllTold

Next ==
    \/ \E d \in Due : CreateDue(d)
    \/ TaskRuns
    \/ QueueFails \/ TellFails \/ MailRefused \/ MailFails \/ Restart
    \/ UpdateDue \/ DeleteDue
    \/ \E m \in Members : SwitchAccount(m) \/ DeleteMember(m)
    \/ \E m \in Payers, p \in Purposes : Pay(m, p) \/ SubmitProof(m, p)
    \/ \E m \in Payers : \E d \in review[m] : Approve(m, d) \/ Reject(m, d)

Spec == Init /\ [][Next]_dvars

(* The task runs in the thread pool once the response has been sent.       *)
FairSpec == Spec /\ WF_dvars(TaskRuns)

-----------------------------------------------------------------------------
(* Properties.                                                             *)

(* A member who was listed, still exists and got no in-app notice is       *)
(* explained by a failure, or by another member's deletion before its turn *)
(* (process_due_notifications_background).                                 *)
UntoldHasCause ==
    At("over") /\ faults = 0 =>
        \A m \in listed \ told : \E o \in listed \ told : ~Exists(o)

(* Every listed member is mailed, whatever happens to the notices, the due *)
(* or the members meanwhile, unless the provider refuses the e-mail three   *)
(* times, an e-mail fails for another reason or the server does            *)
(* (process_due_notifications_background, send_email).                     *)
ListedAreMailed ==
    \A m \in Members :
        (m \in listed /\ faults = 0) ~> (mailed[m] > 0 \/ refused[m] = Attempts \/ faults > 0)

(* A member gets an e-mail twice only because an error of the provider was *)
(* retried, and never more often than send_email tries, whatever fails     *)
(* between two e-mails (email_service.py:86).                              *)
RepeatedByRetryOnly ==
    \A m \in Members : mailed[m] <= Attempts /\ mailed[m] <= 1 + refused[m]

(* The description names the title, in or after one that holds a bar.      *)
CutOff(d, t) ==
    \E k \in Places(d) : d.names[k] = t /\ \E j \in 1..k : Barred(d.names[j])

(* The three computations of what is owed differ, but err to one side:     *)
(* whom the member list calls paid owes nothing on the dashboard, unless   *)
(* the due is free or a bar in a title cut off what was paid, and whom the *)
(* report names owes on the dashboard (users.py:164, dashboard.py:141,     *)
(* financials.py:186).                                                     *)
ViewsErrOneWay ==
    \A m \in Members :
        /\ Owes(m) => \/ Overdue(m) \/ due.free
                      \/ \E d \in paid[m] : CutOff(d, due.title)
        /\ Outstanding(m) => Owes(m)

(* A due shown to a member as under review stays so until a proof is       *)
(* rejected, or until it is settled: the approval of the proof that shows  *)
(* it settles it, so the two loops of the dashboard read descriptions      *)
(* alike (unless the due is changed or the member deleted).                *)
ReviewEndsWithDecision ==
    [][\A m \in Members :
          UnderReview(m) /\ ~UnderReview(m)' /\ due' = due /\ Exists(m)'
             => ~Owes(m)' \/ ~(review[m] \subseteq review'[m] \cup paid'[m])]_dvars

(* dues.py:16, "send in-app and email notifications to all members": a     *)
(* task that ends without a failure has told every listed member who still *)
(* exists.                                                                 *)
AllMembersTold ==
    At("over") /\ faults = 0 => \A m \in listed : m \in told \/ ~Exists(m)
=============================================================================
