------------------------------ MODULE Accounts ------------------------------
(***************************************************************************)
(* Member accounts: registration, invitation, import and social sign-up,   *)
(* the administrators' approval, rejection and edits, the confirmation of  *)
(* an e-mail address or of a new password, deletion, and the restart that  *)
(* re-enables one fixed administrator.                                     *)
(*                                                                         *)
(* All handlers are "def" functions in the thread pool.  A handler reads   *)
(* the row, decides, and commits an UPDATE of the columns it changed       *)
(* relative to what it had read (the unit of work of SQLAlchemy); between  *)
(* two commits every other handler may run.                                *)
(*                                                                         *)
(* A definition placed directly above another of the same parameters is a  *)
(* faulty variant of it that no action uses.                               *)
(***************************************************************************)
EXTENDS Naturals

CONSTANTS
    Emails,     \* addresses that may have an account
    Rescued,    \* those the start-up code re-enables (admin@fgceosa.org)
    Threads,    \* requests in flight
    Admins,     \* those among them that serve an administrator
    Edits,      \* what administrators ask of an account's status
    MaxFaults   \* bound: failed commits, failed handlers and restarts

ASSUME AdminsAssumption == Admins \subseteq Threads
ASSUME RescuedAssumption == Rescued \subseteq Emails
ASSUME FaultsAssumption == MaxFaults \in Nat

VARIABLES
    row,        \* the row of each address, or Absent
    gone,       \* addresses whose account was deleted (bound: no new account)
    thread,     \* the handler of each request: where it is and what it read
    lastMail,   \* the last e-mail about the registration
    bell,       \* in-app notice of the approval
    adminTold,  \* in-app notices of the registration to administrators
    pended,     \* history: registrations that were put to approval
    granted,    \* history: accounts that an administrator, or start-up, let in
    early,      \* history: accounts edited before their creation had ended
    released,   \* history: registrations that an edit left to a confirmation
    uneven,     \* history: accounts whose last edit set the two columns apart
    faults

avars == <<row, gone, thread, lastMail, bell, adminTold, pended, granted,
           early, released, uneven, faults>>
post == <<lastMail, bell, adminTold>>
history == <<pended, granted, early, released, uneven>>

Absent == [status |-> "absent"]
Column == {"status", "active", "verified", "role", "tag"}
Status == {"active", "pending_approval", "pending", "rejected", "deactivated"}
Row == [status: Status, active: BOOLEAN, verified: BOOLEAN,
        role: {"none", "member"}, tag: BOOLEAN]

(* The defaults of the model: a row is born active.  UserCreate has no     *)
(* is_verified field, so what callers pass for it is ignored.              *)
Unset == [status |-> "inactive", active |-> FALSE, verified |-> FALSE,
          role |-> "none", tag |-> FALSE]
Fresh == [status |-> "active", active |-> TRUE, verified |-> FALSE,
          role |-> "none", tag |-> FALSE]

(* What PATCH /users/{id} may ask of the two columns that say whether an   *)
(* account is active: each is optional, and status is free text.  Here     *)
(* "deactivated" stands for every text that no handler asks for.           *)
Edit == [status: Status] \cup [active: BOOLEAN] \cup [status: Status, active: BOOLEAN]

ASSUME EditsAssumption == Edits \subseteq Edit

Kind == {"signup", "invite", "create", "import", "social"}
Creating == {"inserting", "inserted", "roled", "tagged", "pended", "mailed"}
Deciding == {"approving", "approved", "approval_mailed", "rejecting", "rejected"}
Confirming == {"resetting", "verifying"}
Opening == {"approving", "rejecting", "editing"}

Idle == [pc |-> "idle"]
ThreadState ==
    {Idle} \cup [pc: Creating, kind: Kind, who: Emails, seen: Row \cup {Absent}]
           \cup [pc: Deciding \cup Confirming \cup {"taking_over"}, kind: {"none"},
                 who: Emails, seen: Row]
           \cup [pc: {"editing"}, ask: Edit, who: Emails, seen: Row]

TypeOK ==
    /\ row \in [Emails -> Row \cup {Absent}]
    /\ gone \in SUBSET Emails
    /\ thread \in [Threads -> ThreadState]
    /\ lastMail \in [Emails -> {"none", "pending", "approved", "rejected"}]
    /\ bell \in [Emails -> BOOLEAN]
    /\ adminTold \in [Emails -> BOOLEAN]
    /\ pended \in SUBSET Emails
    /\ granted \in SUBSET Emails
    /\ early \in SUBSET Emails
    /\ released \in SUBSET Emails
    /\ uneven \in SUBSET Emails
    /\ faults \in 0..MaxFaults

Init ==
    /\ row = [e \in Emails |-> Absent]
    /\ gone = {}
    /\ thread = [h \in Threads |-> Idle]
    /\ lastMail = [e \in Emails |-> "none"]
    /\ bell = [e \in Emails |-> FALSE]
    /\ adminTold = [e \in Emails |-> FALSE]
    /\ pended = {}
    /\ granted = {}
    /\ early = {}
    /\ released = {}
    /\ uneven = {}
    /\ faults = 0

-----------------------------------------------------------------------------
(* Control and rows.                                                       *)

Exists(e) == row[e] # Absent

Begin(h, pc, kind, e) ==
    /\ thread[h] = Idle
    /\ thread' = [thread EXCEPT ![h] = [pc |-> pc, kind |-> kind, who |-> e,
                                        seen |-> row[e]]]

(* A commit is followed by a refresh of what the handler has read.         *)
Move(h, to) == thread' = [thread EXCEPT ![h].pc = to, ![h].seen = row'[thread[h].who]]
Go(h, to) == thread' = [thread EXCEPT ![h].pc = to]
Stop(h) == thread' = [thread EXCEPT ![h] = Idle]
At(h, pc) == thread[h].pc = pc

(* The UPDATE writes the columns that differ from what was read.           *)
WriteWhole(e, seen, new) == row' = [row EXCEPT ![e] = new]
Write(e, seen, new) ==
    row' = [row EXCEPT ![e] =
              [c \in Column |-> IF new[c] # seen[c] THEN new[c] ELSE row[e][c]]]

Fault == faults < MaxFaults /\ faults' = faults + 1

(* An UPDATE or a foreign key finds the row deleted: the handler fails.    *)
RowGone(h, pc) ==
    /\ At(h, pc)
    /\ ~Exists(thread[h].who)
    /\ Stop(h)
    /\ UNCHANGED <<row, gone, post, history, faults>>

-----------------------------------------------------------------------------
(* Creating an account: check, insert, role, membership id, then by kind.  *)

CreateBegin(h, e, kind) ==
    /\ ~Exists(e) /\ e \notin gone
    /\ kind \in {"invite", "create", "import"} => h \in Admins
    /\ Begin(h, "inserting", kind, e)
    /\ UNCHANGED <<row, gone, post, history, faults>>

(* The address is unique: the second of two inserts fails.                 *)
Insert(h) ==
    /\ At(h, "inserting")
    /\ LET e == thread[h].who IN
        \/ /\ ~Exists(e) /\ e \notin gone
           /\ row' = [row EXCEPT ![e] = Fresh]
           /\ Move(h, "inserted")
        \/ /\ Exists(e) \/ e \in gone
           /\ Stop(h)
           /\ UNCHANGED row
    /\ UNCHANGED <<gone, post, history, faults>>

GiveRole(h) ==
    \/ /\ At(h, "inserted") /\ Exists(thread[h].who)
       /\ row' = [row EXCEPT ![thread[h].who].role = "member"]
       /\ Move(h, "roled")
       /\ UNCHANGED <<gone, post, history, faults>>
    \/ RowGone(h, "inserted")

(* No free id, or a failed commit, is swallowed; if it left the session    *)
(* unusable the next commit fails too (ThreadFails).                       *)
GiveTag(h) ==
    \/ /\ At(h, "roled") /\ Exists(thread[h].who)
       /\ \/ row' = [row EXCEPT ![thread[h].who].tag = TRUE] /\ UNCHANGED faults
          \/ Fault /\ UNCHANGED row
       /\ Move(h, "tagged")
       /\ UNCHANGED <<gone, post, history>>
    \/ RowGone(h, "roled")

(* register_user puts the account to approval, after it existed as active. *)
SignupPend(h) ==
    \/ /\ At(h, "tagged") /\ thread[h].kind = "signup" /\ Exists(thread[h].who)
       /\ LET e == thread[h].who  seen == thread[h].seen IN
           /\ Write(e, seen, [seen EXCEPT !.status = "pending_approval", !.active = FALSE])
           /\ pended' = pended \cup {e}
       /\ Move(h, "pended")
       /\ UNCHANGED <<gone, post, granted, early, released, uneven, faults>>
    \/ RowGone(h, "tagged") /\ thread[h].kind = "signup"

(* An invitation waits for the invited to confirm; an import says active   *)
(* once more; the other kinds write nothing.                               *)
Ended(kind, seen) ==
    CASE kind = "invite" -> [seen EXCEPT !.status = "pending", !.active = FALSE]
      [] kind = "import" -> [seen EXCEPT !.status = "active"]
      [] OTHER           -> seen

CreateEnd(h) ==
    /\ At(h, "tagged") /\ thread[h].kind # "signup"
    /\ LET e == thread[h].who  seen == thread[h].seen IN
        \/ Exists(e) /\ Write(e, seen, Ended(thread[h].kind, seen))
        \/ ~Exists(e) /\ UNCHANGED row
    /\ Stop(h)
    /\ UNCHANGED <<gone, post, history, faults>>

(* E-mails are sent in the handler; one that fails is logged and dropped.  *)
Mail(e, what) == \/ lastMail' = [lastMail EXCEPT ![e] = what] /\ UNCHANGED faults
                 \/ Fault /\ UNCHANGED lastMail

SignupMailLast(h) ==
    /\ At(h, "pended")
    /\ Mail(thread[h].who, "pending")
    /\ Stop(h)
    /\ UNCHANGED <<row, gone, bell, adminTold, history>>
SignupMail(h) ==
    /\ At(h, "pended")
    /\ Mail(thread[h].who, "pending")
    /\ Go(h, "mailed")
    /\ UNCHANGED <<row, gone, bell, adminTold, history>>

SignupNotify(h) ==
    /\ At(h, "mailed")
    /\ adminTold' = [adminTold EXCEPT ![thread[h].who] = TRUE]
    /\ Stop(h)
    /\ UNCHANGED <<row, gone, lastMail, bell, history, faults>>

-----------------------------------------------------------------------------
(* Registering over an inactive account reads a field the request does not *)
(* have (full_name): the handler fails before its commit.                  *)

TakeOverBegin(h, e) ==
    /\ Exists(e) /\ ~row[e].active
    /\ Begin(h, "taking_over", "none", e)
    /\ UNCHANGED <<row, gone, post, history, faults>>

TakeOverEnd(h) ==
    /\ At(h, "taking_over")
    /\ Stop(h)
    /\ UNCHANGED <<row, gone, post, history, faults>>

-----------------------------------------------------------------------------
(* The administrators' decisions.                                          *)

Undecided(e) == Exists(e) /\ row[e].status # "active"

ApproveReadMails(h, e) ==
    /\ h \in Admins /\ Undecided(e)
    /\ Begin(h, "approving", "none", e)
    /\ Mail(e, "approved")
    /\ UNCHANGED <<row, gone, bell, adminTold, history>>
ApproveRead(h, e) ==
    /\ h \in Admins /\ Undecided(e)
    /\ Begin(h, "approving", "none", e)
    /\ UNCHANGED <<row, gone, post, history, faults>>

ApproveCommit(h) ==
    \/ /\ At(h, "approving") /\ Exists(thread[h].who)
       /\ LET e == thread[h].who  seen == thread[h].seen IN
           /\ Write(e, seen, [seen EXCEPT !.status = "active", !.active = TRUE])
           /\ granted' = granted \cup {e}
           /\ uneven' = uneven \ {e}
       /\ Move(h, "approved")
       /\ UNCHANGED <<gone, post, pended, early, released, faults>>
    \/ RowGone(h, "approving")

ApproveMail(h) ==
    /\ At(h, "approved")
    /\ Mail(thread[h].who, "approved")
    /\ Go(h, "approval_mailed")
    /\ UNCHANGED <<row, gone, bell, adminTold, history>>

ApproveNotify(h) ==
    /\ At(h, "approval_mailed")
    /\ LET e == thread[h].who IN
        \/ Exists(e) /\ bell' = [bell EXCEPT ![e] = TRUE] /\ UNCHANGED faults
        \/ Exists(e) /\ Fault /\ UNCHANGED bell
        \/ ~Exists(e) /\ UNCHANGED <<bell, faults>>
    /\ Stop(h)
    /\ UNCHANGED <<row, gone, lastMail, adminTold, history>>

RejectReadAny(h, e) ==
    /\ h \in Admins /\ Exists(e)
    /\ Begin(h, "rejecting", "none", e)
    /\ UNCHANGED <<row, gone, post, history, faults>>
RejectRead(h, e) ==
    /\ h \in Admins /\ Undecided(e)
    /\ Begin(h, "rejecting", "none", e)
    /\ UNCHANGED <<row, gone, post, history, faults>>

RejectCommit(h) ==
    \/ /\ At(h, "rejecting") /\ Exists(thread[h].who)
       /\ LET e == thread[h].who  seen == thread[h].seen IN
           /\ Write(e, seen, [seen EXCEPT !.status = "rejected", !.active = FALSE])
           /\ uneven' = uneven \ {e}
       /\ Move(h, "rejected")
       /\ UNCHANGED <<gone, post, pended, granted, early, released, faults>>
    \/ RowGone(h, "rejecting")

RejectMail(h) ==
    /\ At(h, "rejected")
    /\ Mail(thread[h].who, "rejected")
    /\ Stop(h)
    /\ UNCHANGED <<row, gone, bell, adminTold, history>>

BeingMade(h, e) == thread[h].pc \in {"inserted", "roled", "tagged"} /\ thread[h].who = e

(* PATCH /users/{id}: an administrator writes the columns the body gives.  *)
EditRead(h, e, ask) ==
    /\ h \in Admins /\ Exists(e) /\ thread[h] = Idle
    /\ thread' = [thread EXCEPT ![h] = [pc |-> "editing", ask |-> ask, who |-> e,
                                        seen |-> row[e]]]
    /\ early' = IF \E o \in Threads : BeingMade(o, e) THEN early \cup {e} ELSE early
    /\ UNCHANGED <<row, gone, post, pended, granted, released, uneven, faults>>

Patched(seen, ask) == [c \in Column |-> IF c \in DOMAIN ask THEN ask[c] ELSE seen[c]]
Says(ask, s) == "status" \in DOMAIN ask /\ ask.status = s
Even(ask) == DOMAIN ask = {"status", "active"} /\ (ask.active <=> ask.status = "active")

EditCommit(h) ==
    \/ /\ At(h, "editing") /\ Exists(thread[h].who)
       /\ LET e == thread[h].who  seen == thread[h].seen  ask == thread[h].ask IN
           /\ Write(e, seen, Patched(seen, ask))
           /\ granted' = IF Says(ask, "active") \/ Says(ask, "pending")
                           THEN granted \cup {e} ELSE granted
           /\ released' = IF Says(ask, "pending") /\ e \in pended \ early
                            THEN released \cup {e} ELSE released
           /\ uneven' = IF Even(ask) THEN uneven \ {e} ELSE uneven \cup {e}
       /\ Stop(h)
       /\ UNCHANGED <<gone, post, pended, early, faults>>
    \/ RowGone(h, "editing")

-----------------------------------------------------------------------------
(* The member confirms the address, or a password reset sent to it.  Both  *)
(* turn a "pending" account (an invitation, or what an edit left so) into  *)
(* an active one, and leave is_active alone.                               *)

MayReset(e) == Exists(e) /\ row[e].status \in {"active", "pending"}

ResetRead(h, e) ==
    /\ MayReset(e)
    /\ Begin(h, "resetting", "none", e)
    /\ UNCHANGED <<row, gone, post, history, faults>>

VerifyRead(h, e) ==
    /\ Exists(e) /\ ~row[e].verified
    /\ Begin(h, "verifying", "none", e)
    /\ UNCHANGED <<row, gone, post, history, faults>>

ConfirmedForAll(seen) == [seen EXCEPT !.verified = TRUE, !.status = "active"]
Confirmed(seen) ==
    [seen EXCEPT !.verified = TRUE,
                 !.status = IF @ = "pending" THEN "active" ELSE @]

ConfirmCommit(h) ==
    \/ /\ thread[h].pc \in Confirming /\ Exists(thread[h].who)
       /\ LET seen == thread[h].seen IN Write(thread[h].who, seen, Confirmed(seen))
       /\ Stop(h)
       /\ UNCHANGED <<gone, post, history, faults>>
    \/ \E pc \in Confirming : RowGone(h, pc)

(* A platform administrator vouches for the address: one column.           *)
VerifyByAdmin(e) ==
    /\ Exists(e)
    /\ row' = [row EXCEPT ![e].verified = TRUE]
    /\ UNCHANGED <<gone, thread, post, history, faults>>

DeleteAccount(e) ==
    /\ Exists(e)
    /\ row' = [row EXCEPT ![e] = Absent]
    /\ gone' = gone \cup {e}
    /\ UNCHANGED <<thread, post, history, faults>>

-----------------------------------------------------------------------------
(* Failures.                                                               *)

ThreadFails(h) ==
    /\ thread[h] # Idle
    /\ Fault
    /\ Stop(h)
    /\ UNCHANGED <<row, gone, post, history>>

(* The start-up code re-enables the fixed administrator if it is inactive. *)
Rescuable(e) == e \in Rescued /\ Exists(e) /\ ~row[e].active

Restart ==
    /\ Fault
    /\ thread' = [h \in Threads |-> Idle]
    /\ row' = [e \in Emails |->
                IF Rescuable(e) THEN [row[e] EXCEPT !.status = "active", !.active = TRUE]
                                ELSE row[e]]
    /\ granted' = granted \cup {e \in Emails : Rescuable(e)}
    /\ uneven' = uneven \ {e \in Emails : Rescuable(e)}
    /\ UNCHANGED <<gone, post, pended, early, released>>

-----------------------------------------------------------------------------
Starts(h, e) ==
    \/ \E kind \in Kind : CreateBegin(h, e, kind)
    \/ TakeOverBegin(h, e)
    \/ ApproveRead(h, e) \/ RejectRead(h, e)
    \/ \E ask \in Edits : EditRead(h, e, ask)
    \/ ResetRead(h, e) \/ VerifyRead(h, e)

Runs(h) ==
    \/ Insert(h) \/ GiveRole(h) \/ GiveTag(h)
    \/ SignupPend(h) \/ CreateEnd(h) \/ SignupMail(h) \/ SignupNotify(h)
    \/ TakeOverEnd(h)
    \/ ApproveCommit(h) \/ ApproveMail(h) \/ ApproveNotify(h)
    \/ RejectCommit(h) \/ RejectMail(h) \/ EditCommit(h) \/ ConfirmCommit(h)

Next ==
    \/ \E h \in Threads, e \in Emails : Starts(h, e)
    \/ \E h \in Threads : Runs(h) \/ ThreadFails(h)
    \/ \E e \in Emails : VerifyByAdmin(e) \/ DeleteAccount(e)
    \/ Restart

Spec == Init /\ [][Next]_avars

(* What a registration does once its row is there.                         *)
SignsUp(h) ==
    GiveRole(h) \/ GiveTag(h) \/ SignupPend(h) \/ SignupMail(h) \/ SignupNotify(h)

(* A thread of the pool is scheduled by the system until it returns; this  *)
(* is as much of it as a registration needs.                               *)
FairSpec == Spec /\ \A h \in Threads : WF_avars(SignsUp(h))

-----------------------------------------------------------------------------
(* Properties.                                                             *)

Has(e, s) == Exists(e) /\ row[e].status = s

(* Once a registration was put to approval (register_user), the account is *)
(* active only because an administrator, or the start-up code, let it in:  *)
(* approved it, or edited its status to "active" or, for the member to     *)
(* confirm, to "pending".  No password reset, confirmation, import or      *)
(* social sign-up that read the row while it was still active brings that  *)
(* status back.                                                            *)
ActiveWasApproved ==
    \A e \in pended : Has(e, "active") => e \in granted

(* The two columns that say whether a registered account is active agree:  *)
(* sign-in reads status (deps.py, login.py), register_user and the         *)
(* start-up code read is_active.  An edit may set them apart, which lasts  *)
(* until the next decision; and a confirmation of what an edit made        *)
(* "pending" writes status alone.                                          *)
StatusAgreesWithActive ==
    \A e \in pended \ (early \cup released \cup uneven) :
        Exists(e) => (row[e].active <=> row[e].status = "active")

(* A registration that reached the database is put to approval and the     *)
(* administrators are told, unless it is deleted or something fails.       *)
RegistrationIsAnnounced ==
    \A h \in Threads, e \in Emails :
        (faults = 0 /\ At(h, "inserted") /\ thread[h].kind = "signup" /\ thread[h].who = e)
        ~> (adminTold[e] \/ e \in gone \/ faults > 0)

(* users.py:443: "If user exists but is not active (e.g., invited user),   *)
(* allow them to "take over" the account": a registration over an inactive *)
(* account that runs to its end leaves the account active.                 *)
InactiveCanRegister ==
    [][\A h \in Threads :
          At(h, "taking_over") /\ thread'[h] = Idle /\ faults' = faults
             => LET e == thread[h].who IN row'[e] # Absent => row'[e].active]_avars

-----------------------------------------------------------------------------
(* The admission these handlers implement: see Admission.  An account that *)
(* was not put to approval, or was edited before that, counts as one that  *)
(* never registered.                                                       *)
Standing(e) == IF e \in pended \ early THEN row[e].status ELSE "unregistered"

InHand(e) ==
    {thread[h].pc : h \in {g \in Threads : thread[g].pc \in Opening /\ thread[g].who = e}}

Admissions == INSTANCE Admission WITH
    People   <- Emails,
    standing <- [e \in Emails |-> Standing(e)],
    told     <- lastMail,
    hand     <- [e \in Emails |-> InHand(e)]

(* Whatever handlers of members and administrators read and write in       *)
(* between, the status of a registration moves only by the decision that   *)
(* an administrator has in hand, which falls on the account as it was      *)
(* found, or by the confirmation that an edit left it to (users.py,        *)
(* login.py).                                                              *)
AdmissionSpec == Admissions!Spec
=============================================================================
