--------------------------- MODULE AccountsProofs ---------------------------
(***************************************************************************)
(* Registrations and decisions, for every set of addresses, requests and   *)
(* administrators and any number of failures.                              *)
(***************************************************************************)
EXTENDS Accounts, TLAPS

Making     == {"inserted", "roled", "tagged"}
Busy(h)    == thread[h].pc # "idle"
NotMade(e) == \A h \in Threads : ~ BeingMade(h, e)

(* Who makes an account has read it since it was inserted.                 *)
MakersHaveRead ==
    \A h \in Threads : thread[h].pc \in Making => thread[h].seen \in Row

Typed == TypeOK /\ MakersHaveRead

-----------------------------------------------------------------------------
(* Lemmas on rows, on the record of a request, and on what moves it.       *)

(* What a request carries at each of its points.                           *)
LEMMA Fields ==
    ASSUME TypeOK, NEW h \in Threads, Busy(h)
    PROVE  /\ thread[h].who \in Emails
           /\ thread[h].seen \in Row \cup {Absent}
           /\ thread[h].pc \in Creating => thread[h].kind \in Kind
           /\ thread[h].pc \notin Creating => thread[h].seen \in Row
           /\ At(h, "editing") => thread[h].ask \in Edit
<1> USE DEF At
<1> DEFINE t == thread[h]
<1>1. t \in ThreadState /\ t # Idle
  BY DEF TypeOK, Busy, Idle
<1>2. CASE t \in [pc: Creating, kind: Kind, who: Emails, seen: Row \cup {Absent}]
  <2>1. t.pc # "editing"
    BY <1>2 DEF Creating
  <2> QED
    BY <1>2, <2>1
<1>3. CASE t \in [pc: Deciding \cup Confirming \cup {"taking_over"}, kind: {"none"},
                 who: Emails, seen: Row]
  <2>1. t.pc \notin Creating /\ t.pc # "editing"
    BY <1>3 DEF Creating, Deciding, Confirming
  <2> QED
    BY <1>3, <2>1
<1>4. CASE t \in [pc: {"editing"}, ask: Edit, who: Emails, seen: Row]
  BY <1>4 DEF Creating
<1> QED
  BY <1>1, <1>2, <1>3, <1>4 DEF ThreadState

LEMMA RowFields ==
    /\ \A r \in Row : r.status \in Status /\ r.status # "absent" /\ r.active \in BOOLEAN
    /\ \A r \in Row : r # Absent
    /\ Absent.status = "absent"
    /\ Fresh \in Row /\ Fresh.status = "active" /\ Fresh.active
  BY DEF Row, Status, Absent, Fresh

LEMMA RowTyped ==
    ASSUME TypeOK, NEW e \in Emails
    PROVE  /\ Exists(e) => row[e] \in Row
           /\ Exists(e) <=> row[e].status # "absent"
  BY RowFields DEF TypeOK, Exists

(* A PATCH gives one of the two columns or both; the others stay.          *)
LEMMA AskGives ==
    ASSUME NEW ask \in Edit
    PROVE  /\ DOMAIN ask \in {{"status"}, {"active"}, {"status", "active"}}
           /\ "status" \in DOMAIN ask => ask.status \in Status
           /\ "active" \in DOMAIN ask => ask.active \in BOOLEAN
<1>1. CASE ask \in [status: Status]
  BY <1>1
<1>2. CASE ask \in [active: BOOLEAN]
  BY <1>2
<1>3. CASE ask \in [status: Status, active: BOOLEAN]
  BY <1>3
<1> QED
  BY <1>1, <1>2, <1>3 DEF Edit

LEMMA PatchedRow ==
    ASSUME NEW ask \in Edit, NEW seen \in Row
    PROVE  LET new == Patched(seen, ask) IN
           /\ new \in Row
           /\ new.status # seen.status => Says(ask, new.status)
           /\ \A s : Says(ask, s) => new.status = s
           /\ Even(ask) => (new.active <=> new.status = "active")
<1> DEFINE new == Patched(seen, ask)
<1>1. /\ new.status = IF "status" \in DOMAIN ask THEN ask.status ELSE seen.status
      /\ new.active = IF "active" \in DOMAIN ask THEN ask.active ELSE seen.active
      /\ new.verified = seen.verified /\ new.role = seen.role /\ new.tag = seen.tag
  BY AskGives DEF Patched, Column
<1>2. new = [status |-> new.status, active |-> new.active, verified |-> new.verified,
             role |-> new.role, tag |-> new.tag]
  BY DEF Patched, Column
<1>3. new \in Row
  BY <1>1, <1>2, AskGives DEF Row
<1> HIDE DEF new
<1>4. /\ new.status # seen.status => Says(ask, new.status)
      /\ \A s : Says(ask, s) => new.status = s
  BY <1>1 DEF Says
<1>5. Even(ask) => (new.active <=> new.status = "active")
  BY <1>1 DEF Even
<1> QED
  BY <1>3, <1>4, <1>5 DEF new

(* An UPDATE writes the columns that differ from what was read, and those  *)
(* of one row.                                                             *)
LEMMA Written ==
    ASSUME TypeOK, NEW e \in Emails, Exists(e), NEW seen \in Row, NEW new \in Row,
           Write(e, seen, new)
    PROVE  /\ row' \in [Emails -> Row \cup {Absent}]
           /\ row'[e] \in Row
           /\ \A d \in Emails : d # e => row'[d] = row[d]
           /\ row'[e].status = IF new.status # seen.status THEN new.status ELSE row[e].status
           /\ row'[e].active = IF new.active # seen.active THEN new.active ELSE row[e].active
<1> DEFINE w == [c \in Column |-> IF new[c] # seen[c] THEN new[c] ELSE row[e][c]]
<1>0. row[e] \in Row
  BY RowTyped
<1>1. w \in Row
  BY <1>0 DEF Row, Column
<1>2. /\ w.status = IF new.status # seen.status THEN new.status ELSE row[e].status
      /\ w.active = IF new.active # seen.active THEN new.active ELSE row[e].active
  BY DEF Column
<1>3. row' = [row EXCEPT ![e] = w]
  BY DEF Write
<1> HIDE DEF w
<1> QED
  BY <1>1, <1>2, <1>3 DEF TypeOK

LEMMA Begun ==
    ASSUME TypeOK, NEW h \in Threads, NEW pc, NEW kind, NEW e \in Emails, Begin(h, pc, kind, e),
           [pc |-> pc, kind |-> kind, who |-> e, seen |-> row[e]] \in ThreadState
    PROVE  /\ thread' \in [Threads -> ThreadState]
           /\ ~ Busy(h)
           /\ thread'[h].pc = pc /\ thread'[h].kind = kind
           /\ thread'[h].who = e /\ thread'[h].seen = row[e]
           /\ \A g \in Threads : g # h => thread'[g] = thread[g]
  BY DEF TypeOK, Begin, Busy, Idle

LEMMA Moved ==
    ASSUME TypeOK, NEW h \in Threads, NEW to, Move(h, to), Busy(h), row'[thread[h].who] \in Row,
           \/ thread[h].pc \in Creating /\ to \in Creating
           \/ thread[h].pc \in Deciding /\ to \in Deciding
    PROVE  /\ thread' \in [Threads -> ThreadState]
           /\ thread'[h].pc = to /\ thread'[h].kind = thread[h].kind
           /\ thread'[h].who = thread[h].who /\ thread'[h].seen = row'[thread[h].who]
           /\ \A g \in Threads : g # h => thread'[g] = thread[g]
<1> DEFINE t == thread[h]
           u == [t EXCEPT !.pc = to, !.seen = row'[t.who]]
<1>1. t \in ThreadState
  BY DEF TypeOK
<1>2. /\ u \in ThreadState
      /\ u.pc = to /\ u.kind = t.kind /\ u.who = t.who /\ u.seen = row'[t.who]
  <2> DEFINE Made  == [pc: Creating, kind: Kind, who: Emails, seen: Row \cup {Absent}]
             Other == [pc: Deciding \cup Confirming \cup {"taking_over"}, kind: {"none"},
                       who: Emails, seen: Row]
  <2>1. t \in Made \/ t \in Other
    BY <1>1 DEF ThreadState, Busy, Idle, Creating, Deciding
  <2>2. CASE t \in Made
    <3>1. to \in Creating
      BY <2>2 DEF Creating, Deciding
    <3>2. u \in Made
      BY <2>2, <3>1
    <3> QED
      BY <2>2, <3>2 DEF ThreadState
  <2>3. CASE t \in Other
    <3>1. to \in Deciding
      BY <2>3 DEF Creating, Deciding, Confirming
    <3>2. u \in Other
      BY <2>3, <3>1
    <3> QED
      BY <2>3, <3>2 DEF ThreadState
  <2> QED
    BY <2>1, <2>2, <2>3
<1>3. thread' = [thread EXCEPT ![h] = u]
  BY DEF Move, TypeOK
<1> QED
  BY <1>2, <1>3 DEF TypeOK

LEMMA Gone ==
    ASSUME TypeOK, NEW h \in Threads, NEW to, Go(h, to), Busy(h),
           \/ thread[h].pc \in Creating /\ to \in Creating
           \/ thread[h].pc \in Deciding /\ to \in Deciding
    PROVE  /\ thread' \in [Threads -> ThreadState]
           /\ thread'[h].pc = to /\ thread'[h].kind = thread[h].kind
           /\ thread'[h].who = thread[h].who /\ thread'[h].seen = thread[h].seen
           /\ \A g \in Threads : g # h => thread'[g] = thread[g]
<1> DEFINE t == thread[h]
           u == [t EXCEPT !.pc = to]
<1>1. t \in ThreadState
  BY DEF TypeOK
<1>2. /\ u \in ThreadState
      /\ u.pc = to /\ u.kind = t.kind /\ u.who = t.who /\ u.seen = t.seen
  BY <1>1 DEF ThreadState, Busy, Idle, Creating, Deciding, Confirming
<1>3. thread' = [thread EXCEPT ![h] = u]
  BY DEF Go, TypeOK
<1> QED
  BY <1>2, <1>3 DEF TypeOK

LEMMA Stopped ==
    ASSUME TypeOK, NEW h \in Threads, Stop(h)
    PROVE  /\ thread' \in [Threads -> ThreadState]
           /\ thread'[h] = Idle /\ thread'[h].pc = "idle"
           /\ \A g \in Threads : g # h => thread'[g] = thread[g]
  BY DEF TypeOK, Stop, ThreadState, Idle

-----------------------------------------------------------------------------
(* What each step does, as far as the invariants care.                     *)

LetIn   == {"active", "pending"}
Others(h) == \A g \in Threads : g # h => thread'[g] = thread[g]
Quiet     == UNCHANGED <<row, gone, pended, granted, early, released, uneven>>

(* A handler starts: it reads a row.                                       *)
LEMMA StartDoes ==
    ASSUME Typed, NEW h \in Threads, NEW e \in Emails, Starts(h, e)
    PROVE  /\ thread' \in [Threads -> ThreadState] /\ Others(h) /\ ~ Busy(h)
           /\ thread'[h].who = e /\ thread'[h].seen = row[e]
           /\ thread'[h].pc \in {"inserting", "taking_over"} \cup Opening \cup Confirming
           /\ thread'[h].pc \in Opening => h \in Admins /\ Exists(e)
           /\ thread'[h].pc \in Confirming => Exists(e)
           /\ thread'[h].pc \in {"approving", "rejecting"} => row[e].status # "active"
           /\ thread'[h].pc = "editing" /\ ~ NotMade(e) => e \in early'
           /\ early' \in {early, early \cup {e}}
           /\ e \in early' => e \in early \/ ~ NotMade(e)
           /\ UNCHANGED <<row, gone, post, pended, granted, released, uneven, faults>>
<1> USE DEF Typed
<1>1. Exists(e) => row[e] \in Row
  BY RowTyped
<1>2. CASE \E kind \in Kind : CreateBegin(h, e, kind)
  <2>1. PICK kind \in Kind : CreateBegin(h, e, kind)
    BY <1>2
  <2>2. row[e] = Absent
    BY <2>1 DEF CreateBegin, Exists
  <2>3. [pc |-> "inserting", kind |-> kind, who |-> e, seen |-> row[e]] \in ThreadState
    BY <2>2 DEF ThreadState, Creating
  <2>4. Begin(h, "inserting", kind, e) /\ UNCHANGED <<row, gone, post, history, faults>>
    BY <2>1 DEF CreateBegin
  <2> QED
    BY <2>3, <2>4, Begun DEF Others, Opening, Confirming, history, post
<1>3. ASSUME NEW pc \in Deciding \cup Confirming \cup {"taking_over"}, Exists(e),
             Begin(h, pc, "none", e)
      PROVE  /\ thread' \in [Threads -> ThreadState] /\ Others(h) /\ ~ Busy(h)
             /\ thread'[h].pc = pc
             /\ thread'[h].who = e /\ thread'[h].seen = row[e]
  <2>1. [pc |-> pc, kind |-> "none", who |-> e, seen |-> row[e]] \in ThreadState
    BY <1>1, <1>3 DEF ThreadState
  <2> QED
    BY <2>1, <1>3, Begun DEF Others
<1>4. CASE TakeOverBegin(h, e)
  BY <1>3, <1>4 DEF TakeOverBegin, history, post, Opening
<1>5. CASE ApproveRead(h, e) \/ RejectRead(h, e)
  BY <1>3, <1>5 DEF ApproveRead, RejectRead, Undecided, history, post, Opening, Deciding
<1>6. CASE \E ask \in Edits : EditRead(h, e, ask)
  <2>1. PICK ask \in Edits : EditRead(h, e, ask)
    BY <1>6
  <2> DEFINE r == [pc |-> "editing", ask |-> ask, who |-> e, seen |-> row[e]]
  <2>2. /\ h \in Admins /\ Exists(e) /\ thread[h] = Idle
        /\ thread' = [thread EXCEPT ![h] = r]
        /\ early' = IF \E o \in Threads : BeingMade(o, e) THEN early \cup {e} ELSE early
        /\ UNCHANGED <<row, gone, post, pended, granted, released, uneven, faults>>
    BY <2>1 DEF EditRead
  <2>3. /\ ~ NotMade(e) => e \in early'
        /\ early' \in {early, early \cup {e}}
        /\ e \in early' => e \in early \/ ~ NotMade(e)
    BY <2>2 DEF NotMade
  <2>4. r \in ThreadState /\ r.pc = "editing" /\ r.who = e /\ r.seen = row[e]
    BY <1>1, <2>2, EditsAssumption DEF ThreadState
  <2> HIDE DEF r
  <2>5. thread' \in [Threads -> ThreadState] /\ Others(h) /\ ~ Busy(h) /\ thread'[h] = r
    BY <2>2, <2>4 DEF TypeOK, Others, Busy, Idle
  <2> QED
    BY <2>2, <2>3, <2>4, <2>5 DEF Opening
<1>7. CASE ResetRead(h, e) \/ VerifyRead(h, e)
  BY <1>3, <1>7 DEF ResetRead, VerifyRead, MayReset, history, post, Opening, Confirming
<1> QED
  BY <1>2, <1>4, <1>5, <1>6, <1>7 DEF Starts

(* A handler ends without a commit: its work is done, or it failed, or its *)
(* row is gone.                                                            *)
Ends(h) ==
    \/ TakeOverEnd(h) \/ SignupNotify(h) \/ ApproveNotify(h) \/ RejectMail(h) \/ ThreadFails(h)
    \/ \E pc \in Making \cup Opening \cup Confirming : RowGone(h, pc)
    \/ Insert(h) /\ UNCHANGED row
    \/ CreateEnd(h) /\ ~ Exists(thread[h].who)

LEMMA EndDoes ==
    ASSUME Typed, NEW h \in Threads, Ends(h)
    PROVE  /\ thread' \in [Threads -> ThreadState] /\ Others(h)
           /\ thread'[h] = Idle /\ thread'[h].pc = "idle"
           /\ Quiet
<1>1. Stop(h) /\ Quiet
  <2>1. CASE Insert(h) /\ UNCHANGED row
    <3>1. PICK e : e = thread[h].who
      OBVIOUS
    <3>2. ~ (/\ ~Exists(e) /\ e \notin gone
             /\ row' = [row EXCEPT ![e] = Fresh]
             /\ Move(h, "inserted"))
      <4>1. Busy(h)
        BY <2>1 DEF Insert, At, Busy
      <4>2. e \in Emails
        BY <3>1, <4>1, Fields DEF Typed
      <4>3. ~ Exists(e) => row[e] # Fresh
        BY RowFields DEF Exists
      <4> QED
        BY <2>1, <4>2, <4>3 DEF Typed, TypeOK
    <3> QED
      BY <2>1, <3>1, <3>2 DEF Insert, Quiet, history
  <2>4. CASE CreateEnd(h) /\ ~ Exists(thread[h].who)
    BY <2>4 DEF CreateEnd, Quiet, history
  <2>2. CASE \E pc \in Making \cup Opening \cup Confirming : RowGone(h, pc)
    BY <2>2 DEF RowGone, Quiet, history
  <2>3. CASE \/ TakeOverEnd(h) \/ SignupNotify(h) \/ ApproveNotify(h)
             \/ RejectMail(h) \/ ThreadFails(h)
    BY <2>3 DEF TakeOverEnd, SignupNotify, ApproveNotify, RejectMail, ThreadFails, Quiet, history
  <2> QED
    BY <2>1, <2>2, <2>3, <2>4 DEF Ends
<1> QED
  BY <1>1, Stopped DEF Typed, Others

(* A handler has sent its mail and goes on.                                *)
LEMMA MailDoes ==
    ASSUME Typed, NEW h \in Threads, SignupMail(h) \/ ApproveMail(h)
    PROVE  /\ thread' \in [Threads -> ThreadState] /\ Others(h) /\ Busy(h)
           /\ thread'[h].who = thread[h].who /\ thread'[h].seen = thread[h].seen
           /\ \/ At(h, "pended") /\ thread'[h].pc = "mailed"
              \/ At(h, "approved") /\ thread'[h].pc = "approval_mailed"
           /\ Quiet
<1>1. CASE SignupMail(h)
  <2>1. Go(h, "mailed") /\ At(h, "pended") /\ Quiet
    BY <1>1 DEF SignupMail, Quiet, history
  <2>2. Busy(h) /\ thread[h].pc \in Creating /\ "mailed" \in Creating
    BY <2>1 DEF At, Busy, Creating
  <2> QED
    BY <2>1, <2>2, Gone DEF Typed, Others
<1>2. CASE ApproveMail(h)
  <2>1. Go(h, "approval_mailed") /\ At(h, "approved") /\ Quiet
    BY <1>2 DEF ApproveMail, Quiet, history
  <2>2. Busy(h) /\ thread[h].pc \in Deciding /\ "approval_mailed" \in Deciding
    BY <2>1 DEF At, Busy, Deciding
  <2> QED
    BY <2>1, <2>2, Gone DEF Typed, Others
<1> QED
  BY <1>1, <1>2

(* The unique address gets its row.                                        *)
LEMMA InsertDoes ==
    ASSUME Typed, NEW h \in Threads, Insert(h), row' # row
    PROVE  /\ thread' \in [Threads -> ThreadState] /\ Others(h) /\ At(h, "inserting")
           /\ thread'[h].who = thread[h].who /\ thread[h].who \in Emails
           /\ ~ Exists(thread[h].who) /\ thread[h].who \notin gone
           /\ thread'[h].pc = "inserted" /\ thread'[h].seen = Fresh
           /\ row' = [row EXCEPT ![thread[h].who] = Fresh]
           /\ UNCHANGED <<gone, post, pended, granted, early, released, uneven, faults>>
<1> DEFINE e == thread[h].who
<1>1. /\ At(h, "inserting") /\ ~ Exists(e) /\ e \notin gone
      /\ row' = [row EXCEPT ![e] = Fresh] /\ Move(h, "inserted")
      /\ UNCHANGED <<gone, post, pended, granted, early, released, uneven, faults>>
  BY DEF Insert, history
<1>2. Busy(h) /\ thread[h].pc \in Creating /\ "inserted" \in Creating
  BY <1>1 DEF At, Busy, Creating
<1>3. e \in Emails
  BY <1>2, Fields DEF Typed
<1>4. row'[e] = Fresh /\ Fresh \in Row
  BY <1>1, <1>3, RowFields DEF Typed, TypeOK
<1> QED
  BY <1>1, <1>2, <1>3, <1>4, Moved DEF Typed, Others

(* The role and the membership id: other columns than those of the status. *)
LEMMA RoleAndTagDo ==
    ASSUME Typed, NEW h \in Threads, GiveRole(h) \/ GiveTag(h), Exists(thread[h].who)
    PROVE  LET e == thread[h].who IN
           /\ thread' \in [Threads -> ThreadState] /\ Others(h)
           /\ thread[h].pc \in Making /\ e \in Emails
           /\ thread'[h].who = e /\ thread'[h].pc \in Making /\ thread'[h].seen = row'[e]
           /\ row' \in [Emails -> Row \cup {Absent}] /\ row'[e] \in Row
           /\ \A d \in Emails : d # e => row'[d] = row[d]
           /\ row'[e].status = row[e].status /\ row'[e].active = row[e].active
           /\ UNCHANGED <<gone, post, pended, granted, early, released, uneven>>
<1> DEFINE e == thread[h].who
<1>1. CASE GiveRole(h)
  <2>1. /\ At(h, "inserted") /\ row' = [row EXCEPT ![e].role = "member"] /\ Move(h, "roled")
        /\ UNCHANGED <<gone, post, pended, granted, early, released, uneven>>
    BY <1>1 DEF GiveRole, RowGone, history
  <2>2. Busy(h) /\ thread[h].pc \in Creating /\ "roled" \in Creating
    BY <2>1 DEF At, Busy, Creating
  <2>3. e \in Emails /\ row[e] \in Row
    BY <2>2, Fields, RowTyped DEF Typed
  <2>4. DEFINE r == [row[e] EXCEPT !.role = "member"]
  <2>5. r \in Row /\ r.status = row[e].status /\ r.active = row[e].active
    BY <2>3 DEF Row
  <2>6. row' = [row EXCEPT ![e] = r]
    BY <2>1
  <2>7. /\ row' \in [Emails -> Row \cup {Absent}] /\ row'[e] = r
        /\ \A d \in Emails : d # e => row'[d] = row[d]
    BY <2>3, <2>5, <2>6 DEF Typed, TypeOK
  <2> HIDE DEF r
  <2>8. /\ thread' \in [Threads -> ThreadState] /\ thread'[h].pc = "roled"
        /\ thread'[h].who = e /\ thread'[h].seen = row'[e] /\ Others(h)
    BY <2>1, <2>2, <2>5, <2>7, Moved DEF Typed, Others
  <2> QED
    BY <2>1, <2>3, <2>5, <2>7, <2>8 DEF At, Making
<1>2. CASE GiveTag(h)
  <2>1. /\ At(h, "roled") /\ row' \in {row, [row EXCEPT ![e].tag = TRUE]} /\ Move(h, "tagged")
        /\ UNCHANGED <<gone, post, pended, granted, early, released, uneven>>
    BY <1>2 DEF GiveTag, RowGone, history
  <2>2. Busy(h) /\ thread[h].pc \in Creating /\ "tagged" \in Creating
    BY <2>1 DEF At, Busy, Creating
  <2>3. e \in Emails /\ row[e] \in Row
    BY <2>2, Fields, RowTyped DEF Typed
  <2>4. DEFINE r == [row[e] EXCEPT !.tag = TRUE]
  <2>5. r \in Row /\ r.status = row[e].status /\ r.active = row[e].active
    BY <2>3 DEF Row
  <2>6. row' = row \/ row' = [row EXCEPT ![e] = r]
    BY <2>1
  <2>7. /\ row' \in [Emails -> Row \cup {Absent}] /\ row'[e] \in {r, row[e]}
        /\ \A d \in Emails : d # e => row'[d] = row[d]
    BY <2>3, <2>5, <2>6 DEF Typed, TypeOK
  <2> HIDE DEF r
  <2>8. /\ thread' \in [Threads -> ThreadState] /\ thread'[h].pc = "tagged"
        /\ thread'[h].who = e /\ thread'[h].seen = row'[e] /\ Others(h)
    BY <2>1, <2>2, <2>3, <2>5, <2>7, Moved DEF Typed, Others
  <2> QED
    BY <2>1, <2>3, <2>5, <2>7, <2>8 DEF At, Making
<1> QED
  BY <1>1, <1>2

(* What a commit over a row that was read earlier writes.                  *)
Writes(h, new) ==
    LET e == thread[h].who  seen == thread[h].seen IN
    /\ seen \in Row /\ new \in Row
    /\ e \in Emails /\ Exists(e) /\ Busy(h)
    /\ row' \in [Emails -> Row \cup {Absent}] /\ row'[e] \in Row
    /\ \A d \in Emails : d # e => row'[d] = row[d]
    /\ row'[e].status = IF new.status # seen.status THEN new.status ELSE row[e].status
    /\ row'[e].active = IF new.active # seen.active THEN new.active ELSE row[e].active

(* A registration is put to approval.                                      *)
LEMMA PendDoes ==
    ASSUME Typed, NEW h \in Threads, SignupPend(h), Exists(thread[h].who)
    PROVE  /\ thread' \in [Threads -> ThreadState] /\ Others(h)
           /\ At(h, "tagged")
           /\ thread'[h].who = thread[h].who /\ thread'[h].pc = "pended"
           /\ thread'[h].seen = row'[thread[h].who]
           /\ \E new \in Row : /\ Writes(h, new)
                              /\ new.status = "pending_approval" /\ new.active = FALSE
           /\ pended' = pended \cup {thread[h].who}
           /\ UNCHANGED <<gone, post, granted, early, released, uneven, faults>>
<1> DEFINE e == thread[h].who
           new == [thread[h].seen EXCEPT !.status = "pending_approval", !.active = FALSE]
<1>1. /\ At(h, "tagged") /\ Write(e, thread[h].seen, new)
      /\ pended' = pended \cup {e} /\ Move(h, "pended")
      /\ UNCHANGED <<gone, post, granted, early, released, uneven, faults>>
  BY DEF SignupPend, RowGone
<1>2. Busy(h) /\ thread[h].pc \in Creating /\ "pended" \in Creating
  BY <1>1 DEF At, Busy, Creating
<1>3. e \in Emails /\ thread[h].seen \in Row
  BY <1>1, <1>2, Fields DEF Typed, MakersHaveRead, Making, At
<1>4. new \in Row /\ new.status = "pending_approval" /\ new.active = FALSE
  BY <1>3 DEF Row, Status
<1> HIDE DEF new
<1>5. Writes(h, new)
  BY <1>1, <1>2, <1>3, <1>4, Written DEF Writes, Typed
<1> QED
  BY <1>1, <1>2, <1>4, <1>5, Moved DEF Typed, Others, Writes

(* The other kinds of creation end.                                        *)
LEMMA CreateEndDoes ==
    ASSUME Typed, NEW h \in Threads, CreateEnd(h), Exists(thread[h].who)
    PROVE  /\ thread' \in [Threads -> ThreadState] /\ Others(h)
           /\ At(h, "tagged") /\ thread'[h].pc = "idle"
           /\ \E new \in Row : /\ Writes(h, new)
                              /\ new.status \in {"pending", "active", thread[h].seen.status}
           /\ UNCHANGED <<gone, post, pended, granted, early, released, uneven, faults>>
<1> DEFINE e == thread[h].who
           new == Ended(thread[h].kind, thread[h].seen)
<1>1. /\ At(h, "tagged") /\ Write(e, thread[h].seen, new) /\ Stop(h)
      /\ UNCHANGED <<gone, post, pended, granted, early, released, uneven, faults>>
  BY DEF CreateEnd, history
<1>2. Busy(h) /\ thread[h].pc \in Creating
  BY <1>1 DEF At, Busy, Creating
<1>3. e \in Emails /\ thread[h].kind \in Kind /\ thread[h].seen \in Row
  BY <1>1, <1>2, Fields DEF Typed, MakersHaveRead, Making, At
<1>4. new \in Row /\ new.status \in {"pending", "active", thread[h].seen.status}
  BY <1>3 DEF Row, Status, Ended
<1> HIDE DEF new
<1>6. Writes(h, new)
  BY <1>1, <1>2, <1>3, <1>4, Written DEF Writes, Typed
<1> QED
  BY <1>1, <1>4, <1>6, Stopped DEF Typed, Others

(* An administrator decides, on a row read earlier.                        *)
DecisionCommit(h) == ApproveCommit(h) \/ RejectCommit(h) \/ EditCommit(h)

(* What the history keeps of a decision that writes "new", and where its   *)
(* request goes on.                                                        *)
Decided(h, new) ==
    LET e == thread[h].who  seen == thread[h].seen IN
    /\ granted' \in {granted, granted \cup {e}}
    /\ released' \in {released, released \cup {e}}
    /\ uneven' \in {uneven \ {e}, uneven \cup {e}}
    /\ new.status # seen.status /\ new.status \in LetIn => e \in granted'
    /\ new.status # seen.status /\ new.status = "pending" =>
          e \in released' \/ e \notin pended \ early
    /\ released' # released => new.status = "pending" /\ e \in pended \ early
    /\ e \notin uneven' => (new.active <=> new.status = "active")
    /\ \/ thread'[h].pc = "idle" /\ thread[h].pc = "editing"
       \/ /\ thread'[h].who = e /\ thread'[h].seen = row'[e]
          /\ \/ thread[h].pc = "approving" /\ thread'[h].pc = "approved" /\ new.status = "active"
             \/ thread[h].pc = "rejecting" /\ thread'[h].pc = "rejected" /\ new.status = "rejected"

LEMMA DecisionDoes ==
    ASSUME Typed, NEW h \in Threads, DecisionCommit(h), Exists(thread[h].who)
    PROVE  /\ thread' \in [Threads -> ThreadState] /\ Others(h)
           /\ thread[h].pc \in Opening
           /\ \E new \in Row : Writes(h, new) /\ Decided(h, new)
           /\ UNCHANGED <<gone, post, pended, early, faults>>
<1> DEFINE e == thread[h].who
           seen == thread[h].seen
<1>1. Busy(h) => e \in Emails /\ (thread[h].pc \notin Creating => seen \in Row)
  BY Fields DEF Typed
<1>2. CASE ApproveCommit(h)
  <2> DEFINE new == [seen EXCEPT !.status = "active", !.active = TRUE]
  <2>1. /\ At(h, "approving") /\ Write(e, seen, new) /\ Move(h, "approved")
        /\ granted' = granted \cup {e} /\ uneven' = uneven \ {e}
        /\ UNCHANGED <<gone, post, pended, early, released, faults>>
    BY <1>2 DEF ApproveCommit, RowGone
  <2>2. /\ Busy(h) /\ thread[h].pc \notin Creating /\ thread[h].pc \in Deciding
        /\ "approved" \in Deciding
    BY <2>1 DEF At, Busy, Creating, Deciding
  <2>3. new \in Row /\ new.status = "active" /\ new.active = TRUE
    BY <1>1, <2>2 DEF Row, Status
  <2> HIDE DEF new
  <2>4. Writes(h, new)
    BY <1>1, <2>1, <2>2, <2>3, Written DEF Writes, Typed
  <2>5. /\ thread' \in [Threads -> ThreadState] /\ Others(h)
        /\ thread'[h].pc = "approved" /\ thread'[h].who = e /\ thread'[h].seen = row'[e]
    BY <2>1, <2>2, <2>4, Moved DEF Typed, Others, Writes
  <2>6. Decided(h, new)
    BY <2>1, <2>3, <2>5 DEF Decided, At
  <2> QED
    BY <2>1, <2>3, <2>4, <2>5, <2>6 DEF At, Opening
<1>3. CASE RejectCommit(h)
  <2> DEFINE new == [seen EXCEPT !.status = "rejected", !.active = FALSE]
  <2>1. /\ At(h, "rejecting") /\ Write(e, seen, new) /\ Move(h, "rejected")
        /\ uneven' = uneven \ {e}
        /\ UNCHANGED <<gone, post, pended, granted, early, released, faults>>
    BY <1>3 DEF RejectCommit, RowGone
  <2>2. /\ Busy(h) /\ thread[h].pc \notin Creating /\ thread[h].pc \in Deciding
        /\ "rejected" \in Deciding
    BY <2>1 DEF At, Busy, Creating, Deciding
  <2>3. new \in Row /\ new.status = "rejected" /\ new.active = FALSE
    BY <1>1, <2>2 DEF Row, Status
  <2> HIDE DEF new
  <2>4. Writes(h, new)
    BY <1>1, <2>1, <2>2, <2>3, Written DEF Writes, Typed
  <2>5. /\ thread' \in [Threads -> ThreadState] /\ Others(h)
        /\ thread'[h].pc = "rejected" /\ thread'[h].who = e /\ thread'[h].seen = row'[e]
    BY <2>1, <2>2, <2>4, Moved DEF Typed, Others, Writes
  <2>6. Decided(h, new)
    BY <2>1, <2>3, <2>5 DEF Decided, At, LetIn
  <2> QED
    BY <2>1, <2>3, <2>4, <2>5, <2>6 DEF At, Opening
<1>4. CASE EditCommit(h)
  <2> DEFINE ask == thread[h].ask
             new == Patched(seen, ask)
  <2>1. /\ At(h, "editing") /\ Write(e, seen, new) /\ Stop(h)
        /\ granted' = IF Says(ask, "active") \/ Says(ask, "pending")
                       THEN granted \cup {e} ELSE granted
        /\ released' = IF Says(ask, "pending") /\ e \in pended \ early
                        THEN released \cup {e} ELSE released
        /\ uneven' = IF Even(ask) THEN uneven \ {e} ELSE uneven \cup {e}
        /\ UNCHANGED <<gone, post, pended, early, faults>>
    BY <1>4 DEF EditCommit, RowGone
  <2>2. Busy(h) /\ thread[h].pc \notin Creating /\ ask \in Edit
    BY <2>1, Fields DEF At, Busy, Creating, Typed
  <2>3. /\ new \in Row
        /\ new.status # seen.status => Says(ask, new.status)
        /\ \A s : Says(ask, s) => new.status = s
        /\ Even(ask) => (new.active <=> new.status = "active")
    BY <1>1, <2>2, PatchedRow
  <2> HIDE DEF new, ask
  <2>4. Writes(h, new)
    BY <1>1, <2>1, <2>2, <2>3, Written DEF Writes, Typed
  <2>5. /\ thread' \in [Threads -> ThreadState] /\ Others(h) /\ thread'[h].pc = "idle"
    BY <2>1, Stopped DEF Typed, Others
  <2>6. Decided(h, new)
    BY <2>1, <2>3, <2>5 DEF Decided, At, LetIn
  <2> QED
    BY <2>1, <2>3, <2>4, <2>5, <2>6 DEF At, Opening
<1> QED
  BY <1>2, <1>3, <1>4 DEF DecisionCommit

(* The member confirms.                                                    *)
LEMMA ConfirmDoes ==
    ASSUME Typed, NEW h \in Threads, ConfirmCommit(h), Exists(thread[h].who)
    PROVE  /\ thread' \in [Threads -> ThreadState] /\ Others(h)
           /\ thread[h].pc \in Confirming /\ thread'[h].pc = "idle"
           /\ \E new \in Row :
                /\ Writes(h, new)
                /\ new.active = thread[h].seen.active
                /\ new.status = IF thread[h].seen.status = "pending" THEN "active"
                                ELSE thread[h].seen.status
           /\ UNCHANGED <<gone, post, pended, granted, early, released, uneven, faults>>
<1> DEFINE e == thread[h].who
           new == Confirmed(thread[h].seen)
<1>1. /\ thread[h].pc \in Confirming /\ Write(e, thread[h].seen, new) /\ Stop(h)
      /\ UNCHANGED <<gone, post, pended, granted, early, released, uneven, faults>>
  BY DEF ConfirmCommit, RowGone, history
<1>2. Busy(h) /\ thread[h].pc \notin Creating
  BY <1>1 DEF Busy, Creating, Confirming
<1>3. e \in Emails /\ thread[h].seen \in Row
  BY <1>2, Fields DEF Typed
<1>4. /\ new \in Row /\ new.active = thread[h].seen.active
      /\ new.status = IF thread[h].seen.status = "pending" THEN "active"
                      ELSE thread[h].seen.status
  BY <1>3 DEF Row, Status, Confirmed
<1> HIDE DEF new
<1>5. Writes(h, new)
  BY <1>1, <1>2, <1>3, <1>4, Written DEF Writes, Typed
<1> QED
  BY <1>1, <1>4, <1>5, Stopped DEF Typed, Others

(* Steps of no handler.                                                    *)
LEMMA VerifyDoes ==
    ASSUME Typed, NEW e \in Emails, VerifyByAdmin(e)
    PROVE  /\ row' \in [Emails -> Row \cup {Absent}] /\ row'[e] \in Row /\ row[e] \in Row
           /\ \A d \in Emails : d # e => row'[d] = row[d]
           /\ row'[e].status = row[e].status /\ row'[e].active = row[e].active
           /\ UNCHANGED <<gone, thread, post, pended, granted, early, released, uneven, faults>>
<1> DEFINE r == [row[e] EXCEPT !.verified = TRUE]
<1>1. row[e] \in Row
  BY RowTyped DEF Typed, VerifyByAdmin
<1>2. r \in Row /\ r.status = row[e].status /\ r.active = row[e].active
  BY <1>1 DEF Row
<1>3. /\ row' = [row EXCEPT ![e] = r]
      /\ UNCHANGED <<gone, thread, post, pended, granted, early, released, uneven, faults>>
  BY DEF VerifyByAdmin, history
<1> HIDE DEF r
<1> QED
  BY <1>1, <1>2, <1>3 DEF Typed, TypeOK

LEMMA RestartDoes ==
    ASSUME Typed, Restart
    PROVE  /\ row' \in [Emails -> Row \cup {Absent}]
           /\ \A h \in Threads : thread'[h] = Idle /\ thread'[h].pc = "idle"
           /\ thread' \in [Threads -> ThreadState]
           /\ \A e \in Emails :
                \/ row'[e] = row[e] /\ (e \in uneven => e \in uneven')
                \/ /\ Exists(e) /\ row'[e] \in Row /\ row'[e].status = "active" /\ row'[e].active
                   /\ e \in granted'
           /\ uneven' \subseteq uneven
           /\ granted \subseteq granted' /\ granted' \subseteq Emails
           /\ UNCHANGED <<gone, post, pended, early, released>>
<1>1. ASSUME NEW e \in Emails
      PROVE  /\ row'[e] \in Row \cup {Absent}
             /\ \/ row'[e] = row[e] /\ (e \in uneven => e \in uneven')
                \/ /\ Exists(e) /\ row'[e] \in Row /\ row'[e].status = "active" /\ row'[e].active
                   /\ e \in granted'
  <2>1. CASE Rescuable(e)
    <3>1. Exists(e) /\ row[e] \in Row
      BY <2>1, RowTyped DEF Typed, Rescuable
    <3> DEFINE r == [row[e] EXCEPT !.status = "active", !.active = TRUE]
    <3>2. r \in Row /\ r.status = "active" /\ r.active
      BY <3>1 DEF Row, Status
    <3>3. row'[e] = r /\ e \in granted'
      BY <2>1 DEF Restart
    <3> HIDE DEF r
    <3> QED
      BY <3>1, <3>2, <3>3
  <2>2. CASE ~ Rescuable(e)
    <3>1. row'[e] = row[e] /\ (e \in uneven => e \in uneven')
      BY <2>2 DEF Restart
    <3> QED
      BY <3>1 DEF Typed, TypeOK
  <2> QED
    BY <2>1, <2>2
<1>2. row' = [e \in Emails |-> row'[e]]
  BY DEF Restart
<1>3. row' \in [Emails -> Row \cup {Absent}]
  BY <1>1, <1>2
<1> QED
  BY <1>1, <1>3 DEF Restart, ThreadState, Idle, Typed, TypeOK

-----------------------------------------------------------------------------
(* Every step is one of these.                                             *)
LEMMA Steps ==
    ASSUME Typed, Next
    PROVE  \/ \E h \in Threads, e \in Emails : Starts(h, e)
           \/ \E h \in Threads : Ends(h)
           \/ \E h \in Threads : SignupMail(h) \/ ApproveMail(h)
           \/ \E h \in Threads : Insert(h) /\ row' # row
           \/ \E h \in Threads : (GiveRole(h) \/ GiveTag(h)) /\ Exists(thread[h].who)
           \/ \E h \in Threads : SignupPend(h) /\ Exists(thread[h].who)
           \/ \E h \in Threads : CreateEnd(h) /\ Exists(thread[h].who)
           \/ \E h \in Threads : DecisionCommit(h) /\ Exists(thread[h].who)
           \/ \E h \in Threads : ConfirmCommit(h) /\ Exists(thread[h].who)
           \/ \E e \in Emails : VerifyByAdmin(e) \/ DeleteAccount(e)
           \/ Restart
<1>1. ASSUME NEW h \in Threads, Runs(h), ~ Ends(h)
      PROVE  \/ SignupMail(h) \/ ApproveMail(h)
             \/ Insert(h) /\ row' # row
             \/ (GiveRole(h) \/ GiveTag(h)) /\ Exists(thread[h].who)
             \/ SignupPend(h) /\ Exists(thread[h].who)
             \/ CreateEnd(h) /\ Exists(thread[h].who)
             \/ DecisionCommit(h) /\ Exists(thread[h].who)
             \/ ConfirmCommit(h) /\ Exists(thread[h].who)
  <2>1. \A pc \in Making \cup Opening \cup Confirming : ~ RowGone(h, pc)
    BY <1>1 DEF Ends
  <2>2. /\ GiveRole(h) \/ GiveTag(h) \/ SignupPend(h) => Exists(thread[h].who)
        /\ DecisionCommit(h) \/ ConfirmCommit(h) => Exists(thread[h].who)
    BY <2>1 DEF GiveRole, GiveTag, SignupPend, DecisionCommit, ApproveCommit, RejectCommit,
                EditCommit, ConfirmCommit, Making, Opening, Confirming
  <2>3. Insert(h) => row' # row
    BY <1>1 DEF Ends
  <2>4. CreateEnd(h) => Exists(thread[h].who)
    BY <1>1 DEF Ends
  <2>5. ~ (TakeOverEnd(h) \/ SignupNotify(h) \/ ApproveNotify(h) \/ RejectMail(h))
    BY <1>1 DEF Ends
  <2> QED
    BY <1>1, <2>2, <2>3, <2>4, <2>5 DEF Runs, DecisionCommit
<1>2. ASSUME NEW h \in Threads, ThreadFails(h)
      PROVE  Ends(h)
  BY <1>2 DEF Ends
<1> QED
  BY <1>1, <1>2 DEF Next

(* Mails, notices and failures, and the sets of addresses.                 *)
LEMMA PostTyped ==
    ASSUME Typed, Next
    PROVE  /\ lastMail' \in [Emails -> {"none", "pending", "approved", "rejected"}]
           /\ bell' \in [Emails -> BOOLEAN] /\ adminTold' \in [Emails -> BOOLEAN]
           /\ faults' \in 0..MaxFaults
<1> USE DEF post
<1>1. Fault => faults' \in 0..MaxFaults
  BY FaultsAssumption DEF Fault, Typed, TypeOK
<1>2. /\ lastMail \in [Emails -> {"none", "pending", "approved", "rejected"}]
      /\ bell \in [Emails -> BOOLEAN] /\ adminTold \in [Emails -> BOOLEAN]
      /\ faults \in 0..MaxFaults
  BY DEF Typed, TypeOK
<1>3. ASSUME NEW e, NEW what \in {"pending", "approved", "rejected"}, Mail(e, what)
      PROVE  /\ lastMail' \in [Emails -> {"none", "pending", "approved", "rejected"}]
             /\ faults' \in 0..MaxFaults
  BY <1>1, <1>2, <1>3 DEF Mail
<1>4. CASE \E h \in Threads, e \in Emails : Starts(h, e)
  BY <1>2, <1>4 DEF Starts, CreateBegin, TakeOverBegin, ApproveRead, RejectRead, EditRead,
                    ResetRead, VerifyRead
<1>5. ASSUME NEW h \in Threads, Runs(h)
      PROVE  /\ lastMail' \in [Emails -> {"none", "pending", "approved", "rejected"}]
             /\ bell' \in [Emails -> BOOLEAN] /\ adminTold' \in [Emails -> BOOLEAN]
             /\ faults' \in 0..MaxFaults
  <2>1. CASE Insert(h) \/ GiveRole(h) \/ SignupPend(h) \/ CreateEnd(h) \/ TakeOverEnd(h)
             \/ ApproveCommit(h) \/ RejectCommit(h) \/ EditCommit(h) \/ ConfirmCommit(h)
    BY <1>2, <2>1 DEF Insert, GiveRole, SignupPend, CreateEnd, TakeOverEnd, ApproveCommit,
                      RejectCommit, EditCommit, ConfirmCommit, RowGone
  <2>2. CASE GiveTag(h)
    BY <1>1, <1>2, <2>2 DEF GiveTag, RowGone
  <2>3. CASE SignupMail(h) \/ ApproveMail(h) \/ RejectMail(h)
    BY <1>2, <1>3, <2>3 DEF SignupMail, ApproveMail, RejectMail
  <2>4. CASE SignupNotify(h)
    BY <1>2, <2>4 DEF SignupNotify
  <2>5. CASE ApproveNotify(h)
    BY <1>1, <1>2, <2>5 DEF ApproveNotify
  <2> QED
    BY <1>5, <2>1, <2>2, <2>3, <2>4, <2>5 DEF Runs
<1>6. CASE \E h \in Threads : ThreadFails(h)
  BY <1>1, <1>2, <1>6 DEF ThreadFails
<1>7. CASE \E e \in Emails : VerifyByAdmin(e) \/ DeleteAccount(e)
  BY <1>2, <1>7 DEF VerifyByAdmin, DeleteAccount
<1>8. CASE Restart
  BY <1>1, <1>2, <1>8 DEF Restart
<1> QED
  BY <1>4, <1>5, <1>6, <1>7, <1>8 DEF Next

LEMMA TypeInit == Init => Typed
  BY FaultsAssumption DEF Init, Typed, TypeOK, MakersHaveRead, ThreadState, Idle,
                          At, Making

LEMMA TypeStep == Typed /\ [Next]_avars => Typed'
<1> SUFFICES ASSUME Typed, Next
             PROVE  /\ row' \in [Emails -> Row \cup {Absent}]
                    /\ thread' \in [Threads -> ThreadState]
                    /\ gone' \subseteq Emails /\ pended' \subseteq Emails
                    /\ granted' \subseteq Emails /\ early' \subseteq Emails
                    /\ released' \subseteq Emails /\ uneven' \subseteq Emails
                    /\ \A h \in Threads : thread'[h].pc \in Making => thread'[h].seen \in Row
  <2>1. CASE UNCHANGED avars
    BY <2>1 DEF avars, Typed, TypeOK, MakersHaveRead, At
  <2> QED
    BY <2>1, PostTyped DEF Typed, TypeOK, MakersHaveRead, At
<1> USE DEF Others
<1>1. /\ row \in [Emails -> Row \cup {Absent}] /\ thread \in [Threads -> ThreadState]
      /\ gone \subseteq Emails /\ pended \subseteq Emails
      /\ granted \subseteq Emails /\ early \subseteq Emails
      /\ released \subseteq Emails /\ uneven \subseteq Emails
      /\ \A h \in Threads : thread[h].pc \in Making => thread[h].seen \in Row
  BY DEF Typed, TypeOK, MakersHaveRead, At
<1>2. CASE \E h \in Threads, e \in Emails : Starts(h, e)
  BY <1>1, <1>2, StartDoes DEF Making, Opening, Confirming
<1>3. CASE \E h \in Threads : Ends(h)
  BY <1>1, <1>3, EndDoes DEF Making, Quiet
<1>4. CASE \E h \in Threads : SignupMail(h) \/ ApproveMail(h)
  BY <1>1, <1>4, MailDoes DEF Making, Quiet
<1>5. CASE \E h \in Threads : Insert(h) /\ row' # row
  BY <1>1, <1>5, InsertDoes, RowFields DEF Making
<1>6. CASE \E h \in Threads : (GiveRole(h) \/ GiveTag(h)) /\ Exists(thread[h].who)
  BY <1>1, <1>6, RoleAndTagDo DEF Making
<1>7. CASE \E h \in Threads : SignupPend(h) /\ Exists(thread[h].who)
  <2>1. PICK h \in Threads : SignupPend(h) /\ Exists(thread[h].who)
    BY <1>7
  <2>2. PICK new \in Row : Writes(h, new)
    BY <2>1, PendDoes
  <2>3. /\ thread' \in [Threads -> ThreadState] /\ Others(h) /\ thread'[h].pc = "pended"
        /\ pended' = pended \cup {thread[h].who}
        /\ UNCHANGED <<gone, granted, early, released, uneven>>
    BY <2>1, PendDoes
  <2>4. thread[h].who \in Emails /\ row' \in [Emails -> Row \cup {Absent}]
    BY <2>2 DEF Writes
  <2> QED
    BY <1>1, <2>3, <2>4 DEF Making
<1>8. CASE \E h \in Threads : CreateEnd(h) /\ Exists(thread[h].who)
  BY <1>1, <1>8, CreateEndDoes DEF Making, Writes
<1>9. CASE \E h \in Threads : DecisionCommit(h) /\ Exists(thread[h].who)
  <2>1. PICK h \in Threads : DecisionCommit(h) /\ Exists(thread[h].who)
    BY <1>9
  <2>2. PICK new \in Row : Writes(h, new) /\ Decided(h, new)
    BY <2>1, DecisionDoes
  <2>3. /\ thread' \in [Threads -> ThreadState] /\ Others(h)
        /\ UNCHANGED <<gone, pended, early>>
    BY <2>1, DecisionDoes
  <2>4. /\ thread[h].who \in Emails /\ row' \in [Emails -> Row \cup {Absent}]
        /\ row'[thread[h].who] \in Row
    BY <2>2 DEF Writes
  <2>5. /\ granted' \subseteq Emails /\ released' \subseteq Emails /\ uneven' \subseteq Emails
        /\ thread'[h].pc \notin Making
    BY <1>1, <2>2, <2>4 DEF Decided, Making
  <2> QED
    BY <1>1, <2>3, <2>4, <2>5
<1>10. CASE \E h \in Threads : ConfirmCommit(h) /\ Exists(thread[h].who)
  BY <1>1, <1>10, ConfirmDoes DEF Making, Writes
<1>11. CASE \E e \in Emails : VerifyByAdmin(e)
  BY <1>1, <1>11, VerifyDoes
<1>12. CASE \E e \in Emails : DeleteAccount(e)
  BY <1>1, <1>12 DEF DeleteAccount, history
<1>13. CASE Restart
  BY <1>1, <1>13, RestartDoes DEF Making
<1> QED
  BY <1>2, <1>3, <1>4, <1>5, <1>6, <1>7, <1>8, <1>9, <1>10, <1>11, <1>12, <1>13, Steps

(* Rows, handlers, mails and notices keep their types: every handler       *)
(* carries what its next step needs (users.py, login.py).                  *)
THEOREM TypeCorrect == Spec => []TypeOK
<1>1. Spec => []Typed
  BY TypeInit, TypeStep, PTL DEF Spec
<1>2. Typed => TypeOK
  BY DEF Typed
<1> QED
  BY <1>1, <1>2, PTL

-----------------------------------------------------------------------------
(***************************************************************************)
(* A registration that was put to approval is active only by a decision.   *)
(* That no handler brings an earlier status back rests on these facts:     *)
(***************************************************************************)

(* one handler at most makes an account;                                   *)
OneMaker ==
    \A e \in Emails : \A g, h \in Threads : BeingMade(g, e) /\ BeingMade(h, e) => g = h

(* an account put to approval has been made, and is not made again;        *)
PendedAreMade ==
    \A e \in pended : (Exists(e) \/ e \in gone) /\ NotMade(e)

(* one that is being made is active, and its maker has read that, unless   *)
(* somebody let it in meanwhile, or it is neither active nor pending;      *)
MadeAsActive ==
    \A h \in Threads, e \in Emails : BeingMade(h, e) =>
        /\ Exists(e) \/ e \in gone
        /\ row[e].status \in LetIn /\ e \notin granted =>
              row[e].status = "active" /\ thread[h].seen.status = "active"

(* who has read a row has read one that was there;                         *)
ReadersSawRows ==
    \A h \in Threads : Busy(h) /\ thread[h].seen.status # "absent" =>
        Exists(thread[h].who) \/ thread[h].who \in gone

(* and only an invitation, which never is, or an account that was let in   *)
(* has the status that a confirmation turns into active.                   *)
Invited(e) == e \notin pended /\ NotMade(e)
PendingWereLetIn ==
    /\ \A e \in Emails : row[e].status = "pending" => Invited(e) \/ e \in granted
    /\ \A h \in Threads : Busy(h) /\ thread[h].seen.status = "pending" =>
          Invited(thread[h].who) \/ thread[h].who \in granted

Approvals ==
    /\ OneMaker
    /\ PendedAreMade
    /\ MadeAsActive
    /\ ReadersSawRows
    /\ PendingWereLetIn
    /\ ActiveWasApproved

(* The same for one address, as the steps use it.                          *)
Approval(e) ==
    /\ \A g, h \in Threads : BeingMade(g, e) /\ BeingMade(h, e) => g = h
    /\ e \in pended => (Exists(e) \/ e \in gone) /\ NotMade(e)
    /\ \A h \in Threads : BeingMade(h, e) =>
          /\ Exists(e) \/ e \in gone
          /\ row[e].status \in LetIn /\ e \notin granted =>
                row[e].status = "active" /\ thread[h].seen.status = "active"
    /\ \A h \in Threads : Busy(h) /\ thread[h].who = e /\ thread[h].seen.status # "absent" =>
          Exists(e) \/ e \in gone
    /\ row[e].status = "pending" => Invited(e) \/ e \in granted
    /\ \A h \in Threads : Busy(h) /\ thread[h].who = e /\ thread[h].seen.status = "pending" =>
          Invited(e) \/ e \in granted
    /\ e \in pended /\ row[e].status = "active" => e \in granted

LEMMA ByAddress == Typed => (Approvals <=> \A e \in Emails : Approval(e))
<1> SUFFICES ASSUME Typed PROVE Approvals <=> \A e \in Emails : Approval(e)
  OBVIOUS
<1>1. pended \subseteq Emails
  BY DEF Typed, TypeOK
<1>2. \A h \in Threads : Busy(h) => thread[h].who \in Emails
  BY Fields DEF Typed
<1>3. ActiveWasApproved <=>
        \A e \in Emails : e \in pended /\ row[e].status = "active" => e \in granted
  BY <1>1, RowTyped DEF ActiveWasApproved, Has, Typed
<1>4. ASSUME Approvals, NEW e \in Emails PROVE Approval(e)
  BY <1>3, <1>4 DEF Approvals, Approval, OneMaker, PendedAreMade, MadeAsActive,
              ReadersSawRows, PendingWereLetIn
<1>5. ASSUME \A e \in Emails : Approval(e) PROVE Approvals
  <2>1. OneMaker
    BY <1>5 DEF Approval, OneMaker
  <2>2. PendedAreMade
    BY <1>1, <1>5 DEF Approval, PendedAreMade
  <2>3. MadeAsActive
    BY <1>5 DEF Approval, MadeAsActive
  <2>4. ReadersSawRows /\ PendingWereLetIn
    BY <1>2, <1>5 DEF Approval, ReadersSawRows, PendingWereLetIn
  <2>5. ActiveWasApproved
    BY <1>3, <1>5 DEF Approval
  <2> QED
    BY <2>1, <2>2, <2>3, <2>4, <2>5 DEF Approvals
<1> QED
  BY <1>4, <1>5

(* What leaves one address in order: nothing starts to make the account or *)
(* puts it to approval, its row is only made active by a decision or while *)
(* nothing waits for one, and who has read it has read what it says.       *)
LEMMA QuietApproval ==
    ASSUME Typed, NEW e \in Emails, Approval(e),
           \A h \in Threads : BeingMade(h, e)' => BeingMade(h, e),
           \A h \in Threads : Busy(h)' /\ thread'[h].who = e =>
              \/ Busy(h) /\ thread[h].who = e /\ thread'[h].seen = thread[h].seen
              \/ thread'[h].seen.status = row'[e].status,
           \/ row'[e].status = row[e].status
           \/ row'[e].status \notin LetIn
           \/ e \in granted'
           \/ row'[e].status = "active" /\ Invited(e),
           Exists(e) => Exists(e)' \/ e \in gone', Exists(e)' <=> row'[e].status # "absent",
           gone \subseteq gone',
           e \in pended' => e \in pended, granted \subseteq granted'
    PROVE  Approval(e)'
<1>1. NotMade(e) => NotMade(e)'
  BY DEF NotMade
<1>2. \A g, h \in Threads : BeingMade(g, e)' /\ BeingMade(h, e)' => g = h
  BY DEF Approval
<1>3. (e \in pended => (Exists(e) \/ e \in gone) /\ NotMade(e))'
  BY <1>1 DEF Approval
<1>4. Invited(e) => Invited(e)'
  BY <1>1 DEF Invited
<1>9. (row[e].status = "pending" => Invited(e) \/ e \in granted)'
  BY <1>4 DEF Approval, LetIn
<1>5. ASSUME NEW h \in Threads, BeingMade(h, e)'
      PROVE  (/\ Exists(e) \/ e \in gone
              /\ row[e].status \in LetIn /\ e \notin granted =>
                    row[e].status = "active" /\ thread[h].seen.status = "active")'
  <2>1. BeingMade(h, e) /\ Busy(h)' /\ thread'[h].who = e /\ ~ Invited(e)
    BY <1>5 DEF BeingMade, Busy, Invited, NotMade
  <2> QED
    BY <2>1 DEF Approval
<1>6. ASSUME NEW h \in Threads, Busy(h)', thread'[h].who = e, thread'[h].seen.status = "pending"
      PROVE  (Invited(e) \/ e \in granted)'
  BY <1>4, <1>9, <1>6 DEF Approval
<1>8. ASSUME NEW h \in Threads, Busy(h)', thread'[h].who = e, thread'[h].seen.status # "absent"
      PROVE  (Exists(e) \/ e \in gone)'
  BY <1>8 DEF Approval
<1>7. (e \in pended /\ row[e].status = "active" => e \in granted)'
  BY DEF Approval, LetIn, Invited
<1> QED
  BY <1>2, <1>3, <1>9, <1>5, <1>6, <1>7, <1>8 DEF Approval

(* Other addresses than that of a step.                                    *)
LEMMA ElsewhereApproval ==
    ASSUME Typed, NEW h \in Threads, NEW d \in Emails, Others(h), NEW e \in Emails, e # d,
           Busy(h) => thread[h].who = d, Busy(h)' => thread'[h].who = d,
           row'[e] = row[e], Approval(e), gone \subseteq gone',
           Exists(e) <=> row[e].status # "absent",
           e \in pended' <=> e \in pended, granted \subseteq granted'
    PROVE  Approval(e)'
<1>1. \A g \in Threads : BeingMade(g, e)' => BeingMade(g, e)
  BY DEF BeingMade, Busy, Others
<1>2. \A g \in Threads : Busy(g)' /\ thread'[g].who = e =>
         Busy(g) /\ thread[g].who = e /\ thread'[g].seen = thread[g].seen
  BY DEF Busy, Others
<1>3. Exists(e) <=> Exists(e)'
  BY DEF Exists
<1> QED
  BY <1>1, <1>2, <1>3, QuietApproval

LEMMA ApprovalsInit == Init => Approvals
  BY RowFields DEF Init, Approvals, OneMaker, PendedAreMade, MadeAsActive,
                   ReadersSawRows, PendingWereLetIn, ActiveWasApproved, BeingMade, Busy, Idle

LEMMA ApprovalStep ==
    ASSUME Typed, Typed', \A e \in Emails : Approval(e), Next, NEW e \in Emails
    PROVE  Approval(e)'
<1>0. /\ Approval(e)
      /\ \A d \in Emails : Exists(d) <=> row[d].status # "absent"
      /\ \A d \in Emails : Exists(d)' <=> row'[d].status # "absent"
  <2>1. Typed' => \A d \in Emails : Exists(d)' <=> row'[d].status # "absent"
    BY RowFields DEF Typed, TypeOK, Exists
  <2> QED
    BY <2>1, RowTyped DEF Typed
<1>2. CASE \E h \in Threads, d \in Emails : Starts(h, d)
  <2>1. PICK h \in Threads, d \in Emails : Starts(h, d)
    BY <1>2
  <2>2. \A g \in Threads : BeingMade(g, e)' => BeingMade(g, e)
    BY <2>1, StartDoes DEF BeingMade, Opening, Confirming, Others
  <2>3. \A g \in Threads : Busy(g)' /\ thread'[g].who = e =>
           \/ Busy(g) /\ thread[g].who = e /\ thread'[g].seen = thread[g].seen
           \/ thread'[g].seen.status = row'[e].status
    BY <2>1, StartDoes DEF Busy, Others
  <2> QED
    BY <1>0, <2>1, <2>2, <2>3, StartDoes, QuietApproval
<1>3. CASE \E h \in Threads : Ends(h)
  <2>1. PICK h \in Threads : Ends(h)
    BY <1>3
  <2>2. /\ \A g \in Threads : BeingMade(g, e)' => BeingMade(g, e)
        /\ \A g \in Threads : Busy(g)' /\ thread'[g].who = e =>
              Busy(g) /\ thread[g].who = e /\ thread'[g].seen = thread[g].seen
    BY <2>1, EndDoes DEF BeingMade, Busy, Others
  <2> QED
    BY <1>0, <2>1, <2>2, EndDoes, QuietApproval DEF Quiet
<1>4. CASE \E h \in Threads : SignupMail(h) \/ ApproveMail(h)
  <2>1. PICK h \in Threads : SignupMail(h) \/ ApproveMail(h)
    BY <1>4
  <2>2. /\ \A g \in Threads : BeingMade(g, e)' => BeingMade(g, e)
        /\ \A g \in Threads : Busy(g)' /\ thread'[g].who = e =>
              Busy(g) /\ thread[g].who = e /\ thread'[g].seen = thread[g].seen
    BY <2>1, MailDoes DEF BeingMade, Busy, Others
  <2> QED
    BY <1>0, <2>1, <2>2, MailDoes, QuietApproval DEF Quiet
<1>5. CASE \E h \in Threads : Insert(h) /\ row' # row
  <2>1. PICK h \in Threads : Insert(h) /\ row' # row
    BY <1>5
  <2> DEFINE d == thread[h].who
  <2>2. /\ Others(h) /\ thread'[h].who = d /\ d \in Emails /\ ~ Exists(d) /\ d \notin gone
        /\ thread'[h].pc = "inserted" /\ thread'[h].seen = Fresh
        /\ row' = [row EXCEPT ![d] = Fresh]
        /\ UNCHANGED <<gone, pended, granted, early>>
    BY <2>1, InsertDoes
  <2>3. CASE e # d
    <3>1. row'[e] = row[e]
      BY <2>2, <2>3 DEF Typed, TypeOK
    <3> QED
      BY <1>0, <2>2, <2>3, <3>1, ElsewhereApproval
  <2>4. CASE e = d
    <3>1. Approval(e) /\ e \notin pended /\ NotMade(e)
      BY <1>0, <2>2, <2>4 DEF Approval, NotMade
    <3>2. row'[e] = Fresh /\ Fresh.status = "active" /\ Exists(e)'
      BY <1>0, <2>2, <2>4, RowFields DEF Typed, TypeOK
    <3>3. \A g \in Threads : BeingMade(g, e)' => g = h
      BY <2>2, <3>1 DEF BeingMade, NotMade, Others
    <3>4. \A g \in Threads : Busy(g)' /\ thread'[g].who = e => thread'[g].seen.status # "pending"
      <4>1. ASSUME NEW g \in Threads, g # h, Busy(g)', thread'[g].who = e
            PROVE  thread'[g].seen.status # "pending"
        <5>1. Busy(g) /\ thread[g].who = e /\ thread'[g] = thread[g]
          BY <2>2, <4>1 DEF Busy, Others
        <5>2. thread[g].seen.status = "absent"
          BY <2>2, <2>4, <3>1, <5>1 DEF Approval
        <5> QED
          BY <5>1, <5>2
      <4> QED
        BY <2>2, <3>2, <4>1
    <3>5. thread'[h].seen.status = "active"
      BY <2>2, <3>2
    <3> QED
      BY <2>2, <3>1, <3>2, <3>3, <3>4, <3>5 DEF Approval
  <2> QED
    BY <2>3, <2>4

<1>6. CASE \E h \in Threads : (GiveRole(h) \/ GiveTag(h)) /\ Exists(thread[h].who)
  <2>1. PICK h \in Threads : (GiveRole(h) \/ GiveTag(h)) /\ Exists(thread[h].who)
    BY <1>6
  <2> DEFINE d == thread[h].who
  <2>2. /\ Others(h) /\ thread[h].pc \in Making /\ d \in Emails
        /\ thread'[h].who = d /\ thread'[h].pc \in Making /\ thread'[h].seen = row'[d]
        /\ row'[d] \in Row /\ \A c \in Emails : c # d => row'[c] = row[c]
        /\ row'[d].status = row[d].status
        /\ UNCHANGED <<gone, pended, granted, early>>
    BY <2>1, RoleAndTagDo
  <2>3. \A g \in Threads : BeingMade(g, e)' => BeingMade(g, e)
    BY <2>2 DEF BeingMade, Others, Making
  <2>4. \A g \in Threads : Busy(g)' /\ thread'[g].who = e =>
           \/ Busy(g) /\ thread[g].who = e /\ thread'[g].seen = thread[g].seen
           \/ thread'[g].seen.status = row'[e].status
    BY <2>2 DEF Busy, Others, Making
  <2>5. row'[e].status = row[e].status
    BY <2>2
  <2> QED
    BY <1>0, <2>2, <2>3, <2>4, <2>5, QuietApproval
<1>7. CASE \E h \in Threads : SignupPend(h) /\ Exists(thread[h].who)
  <2>1. PICK h \in Threads : SignupPend(h) /\ Exists(thread[h].who)
    BY <1>7
  <2> DEFINE d == thread[h].who
  <2>2. /\ Others(h) /\ At(h, "tagged") /\ thread'[h].who = d /\ thread'[h].pc = "pended"
        /\ thread'[h].seen = row'[d] /\ pended' = pended \cup {d}
        /\ UNCHANGED <<gone, granted, early>>
    BY <2>1, PendDoes
  <2>3. PICK new \in Row : Writes(h, new) /\ new.status = "pending_approval"
    BY <2>1, PendDoes
  <2>4. d \in Emails /\ row'[d] \in Row /\ \A c \in Emails : c # d => row'[c] = row[c]
    BY <2>3 DEF Writes
  <2>5. BeingMade(h, d)
    BY <2>2 DEF BeingMade, At
  <2>6. CASE e # d
    <3>1. row'[e] = row[e] /\ (e \in pended' <=> e \in pended)
      BY <2>2, <2>4, <2>6
    <3> QED
      BY <1>0, <2>2, <2>4, <2>6, <3>1, ElsewhereApproval
  <2>7. CASE e = d
    <3>1. /\ Exists(e)' /\ e \in pended'
          /\ row'[e].status \in LetIn => e \in granted'
      <4>1. /\ row[e].status \in LetIn /\ e \notin granted => thread[h].seen.status = "active"
            /\ row'[e].status = IF thread[h].seen.status # "pending_approval"
                                THEN "pending_approval" ELSE row[e].status
        BY <1>0, <2>3, <2>5, <2>7 DEF Writes, Approval
      <4>2. Exists(e)'
        BY <1>0, <2>3, <2>7, RowFields DEF Writes
      <4> QED
        BY <2>2, <2>7, <4>1, <4>2 DEF LetIn
    <3>2. NotMade(e)'
      <4>1. ASSUME NEW g \in Threads, BeingMade(g, e)' PROVE FALSE
        <5>1. g # h
          BY <2>2, <4>1 DEF BeingMade
        <5>2. BeingMade(g, e)
          BY <2>2, <4>1, <5>1 DEF BeingMade, Others
        <5> QED
          BY <1>0, <2>5, <2>7, <5>1, <5>2 DEF Approval
      <4> QED
        BY <4>1 DEF NotMade
    <3>3. \A g \in Threads : Busy(g)' /\ thread'[g].who = e /\ thread'[g].seen.status = "pending"
             => e \in granted'
      <4>1. ASSUME NEW g \in Threads, g # h, Busy(g)', thread'[g].who = e,
                   thread'[g].seen.status = "pending"
            PROVE  e \in granted'
        <5>1. Busy(g) /\ thread[g].who = e /\ thread'[g] = thread[g]
          BY <2>2, <4>1 DEF Busy, Others
        <5>2. ~ Invited(e)
          BY <2>5, <2>7 DEF NotMade, Invited
        <5> QED
          BY <1>0, <2>2, <4>1, <5>1, <5>2 DEF Approval
      <4> QED
        BY <2>2, <2>7, <3>1, <4>1 DEF LetIn
    <3>4. \A g \in Threads : ~ BeingMade(g, e)'
      BY <3>2 DEF NotMade
    <3> QED
      BY <3>1, <3>2, <3>3, <3>4 DEF Approval, LetIn
  <2> QED
    BY <2>6, <2>7
<1>8. CASE \E h \in Threads : CreateEnd(h) /\ Exists(thread[h].who)
  <2>1. PICK h \in Threads : CreateEnd(h) /\ Exists(thread[h].who)
    BY <1>8
  <2> DEFINE d == thread[h].who
  <2>2. /\ Others(h) /\ At(h, "tagged") /\ thread'[h].pc = "idle"
        /\ UNCHANGED <<gone, pended, granted, early>>
    BY <2>1, CreateEndDoes
  <2>3. PICK new \in Row :
           Writes(h, new) /\ new.status \in {"pending", "active", thread[h].seen.status}
    BY <2>1, CreateEndDoes
  <2>4. d \in Emails /\ row'[d] \in Row /\ \A c \in Emails : c # d => row'[c] = row[c]
    BY <2>3 DEF Writes
  <2>5. BeingMade(h, d) /\ Approval(d)
    BY <1>0, <2>2, <2>4 DEF BeingMade, At
  <2>6. CASE e # d
    <3>1. row'[e] = row[e]
      BY <2>4, <2>6
    <3> QED
      BY <1>0, <2>2, <2>4, <2>6, <3>1, ElsewhereApproval DEF Busy
  <2>7. CASE e = d
    <3>1. NotMade(e)'
      <4>1. ASSUME NEW g \in Threads, BeingMade(g, e)' PROVE FALSE
        <5>1. g # h
          BY <2>2, <4>1 DEF BeingMade
        <5>2. BeingMade(g, e)
          BY <2>2, <4>1, <5>1 DEF BeingMade, Others
        <5> QED
          BY <2>5, <2>7, <5>1, <5>2 DEF Approval
      <4> QED
        BY <4>1 DEF NotMade
    <3>2. e \notin pended' /\ Exists(e)'
      BY <1>0, <2>2, <2>4, <2>5, <2>7, RowFields DEF Approval, NotMade
    <3>3. \A g \in Threads : ~ BeingMade(g, e)'
      BY <3>1 DEF NotMade
    <3>4. Invited(e)'
      BY <3>1, <3>2 DEF Invited
    <3> QED
      BY <3>1, <3>2, <3>3, <3>4 DEF Approval, Invited
  <2> QED
    BY <2>6, <2>7
<1>9. CASE \E h \in Threads : DecisionCommit(h) /\ Exists(thread[h].who)
  <2>1. PICK h \in Threads : DecisionCommit(h) /\ Exists(thread[h].who)
    BY <1>9
  <2> DEFINE d == thread[h].who
  <2>2. PICK new \in Row :
          /\ Writes(h, new)
          /\ granted' \in {granted, granted \cup {d}}
          /\ new.status # thread[h].seen.status /\ new.status \in LetIn => d \in granted'
          /\ \/ thread'[h].pc = "idle"
             \/ /\ thread'[h].who = d /\ thread'[h].seen = row'[d]
                /\ thread'[h].pc \in {"approved", "rejected"}
    BY <2>1, DecisionDoes DEF Decided
  <2>3. Others(h) /\ UNCHANGED <<gone, pended, early>>
    BY <2>1, DecisionDoes
  <2>4. /\ d \in Emails /\ row'[d] \in Row /\ \A c \in Emails : c # d => row'[c] = row[c]
        /\ \/ row'[d].status = row[d].status
           \/ row'[d].status = new.status /\ new.status # thread[h].seen.status
    BY <2>2 DEF Writes
  <2>5. \A g \in Threads : BeingMade(g, e)' => BeingMade(g, e)
    BY <2>2, <2>3 DEF BeingMade, Others
  <2>6. \A g \in Threads : Busy(g)' /\ thread'[g].who = e =>
           \/ Busy(g) /\ thread[g].who = e /\ thread'[g].seen = thread[g].seen
           \/ thread'[g].seen.status = row'[e].status
    BY <2>2, <2>3 DEF Busy, Others
  <2>7. /\ \/ row'[e].status = row[e].status
           \/ row'[e].status \notin LetIn
           \/ e \in granted'
        /\ Exists(e) => Exists(e)'
    BY <1>0, <2>2, <2>4, RowFields
  <2> QED
    BY <1>0, <2>2, <2>3, <2>5, <2>6, <2>7, QuietApproval
<1>10. CASE \E h \in Threads : ConfirmCommit(h) /\ Exists(thread[h].who)
  <2>1. PICK h \in Threads : ConfirmCommit(h) /\ Exists(thread[h].who)
    BY <1>10
  <2> DEFINE d == thread[h].who
  <2>2. PICK new \in Row :
          /\ Writes(h, new)
          /\ new.status = IF thread[h].seen.status = "pending" THEN "active"
                          ELSE thread[h].seen.status
    BY <2>1, ConfirmDoes
  <2>3. Others(h) /\ thread'[h].pc = "idle" /\ UNCHANGED <<gone, pended, granted, early>>
    BY <2>1, ConfirmDoes
  <2>4. /\ d \in Emails /\ row'[d] \in Row /\ \A c \in Emails : c # d => row'[c] = row[c]
        /\ Busy(h)
        /\ \/ row'[d].status = row[d].status
           \/ row'[d].status = "active" /\ thread[h].seen.status = "pending"
    BY <2>2 DEF Writes
  <2>5. /\ \A g \in Threads : BeingMade(g, e)' => BeingMade(g, e)
        /\ \A g \in Threads : Busy(g)' /\ thread'[g].who = e =>
              Busy(g) /\ thread[g].who = e /\ thread'[g].seen = thread[g].seen
    BY <2>3 DEF BeingMade, Busy, Others
  <2>6. \/ row'[e].status = row[e].status
        \/ row'[e].status = "active" /\ (Invited(e) \/ e \in granted)
    BY <1>0, <2>4 DEF Approval
  <2>7. Exists(e) => Exists(e)'
    BY <1>0, <2>4, RowFields
  <2> QED
    BY <1>0, <2>3, <2>5, <2>6, <2>7, QuietApproval
<1>11. CASE \E d \in Emails : VerifyByAdmin(d)
  <2>1. PICK d \in Emails : VerifyByAdmin(d)
    BY <1>11
  <2>2. /\ row'[e].status = row[e].status
        /\ UNCHANGED <<gone, thread, pended, granted>>
    BY <2>1, VerifyDoes
  <2>3. /\ \A g \in Threads : BeingMade(g, e)' => BeingMade(g, e)
        /\ \A g \in Threads : Busy(g)' => Busy(g)
    BY <2>2 DEF BeingMade, Busy
  <2> QED
    BY <1>0, <2>2, <2>3, QuietApproval
<1>12. CASE \E d \in Emails : DeleteAccount(d)
  <2>1. PICK d \in Emails : DeleteAccount(d)
    BY <1>12
  <2>2. /\ row' = [row EXCEPT ![d] = Absent] /\ gone' = gone \cup {d}
        /\ UNCHANGED <<thread, pended, granted>>
    BY <2>1 DEF DeleteAccount, history
  <2>3. \/ row'[e] = row[e]
        \/ row'[e].status = "absent" /\ e \in gone' /\ row'[e].status \notin LetIn
    BY <2>2, RowFields DEF Typed, TypeOK, LetIn
  <2>4. /\ \A g \in Threads : BeingMade(g, e)' => BeingMade(g, e)
        /\ \A g \in Threads : Busy(g)' => Busy(g)
    BY <2>2 DEF BeingMade, Busy
  <2> QED
    BY <1>0, <2>2, <2>3, <2>4, QuietApproval
<1>13. CASE Restart
  <2>1. /\ \A g \in Threads : ~ BeingMade(g, e)'
        /\ \A g \in Threads : ~ Busy(g)'
    BY <1>13, RestartDoes DEF BeingMade, Busy
  <2>2. /\ \/ row'[e] = row[e]
           \/ row'[e].status = "active" /\ e \in granted' /\ row'[e] \in Row
        /\ granted \subseteq granted' /\ UNCHANGED <<gone, pended>>
    BY <1>13, RestartDoes
  <2>3. Exists(e) => Exists(e)'
    BY <1>0, <2>2, RowFields
  <2> QED
    BY <1>0, <2>1, <2>2, <2>3, QuietApproval
<1> QED
  BY <1>2, <1>3, <1>4, <1>5, <1>6, <1>7, <1>8, <1>9, <1>10, <1>11, <1>12, <1>13, Steps

LEMMA ApprovalsStep == Typed /\ Approvals /\ [Next]_avars => Approvals'
<1> SUFFICES ASSUME Typed, Approvals, [Next]_avars
             PROVE  Approvals'
  OBVIOUS
<1>1. Typed' /\ \A e \in Emails : Approval(e)
  BY TypeStep, ByAddress
<1>2. (Typed => (Approvals <=> \A e \in Emails : Approval(e)))'
  BY ByAddress, PTL
<1>3. ASSUME NEW e \in Emails, UNCHANGED avars
      PROVE  Approval(e)'
  <2>1. /\ UNCHANGED <<row, gone, thread, pended, granted>>
        /\ \A h \in Threads : BeingMade(h, e)' <=> BeingMade(h, e)
        /\ \A h \in Threads : Busy(h)' <=> Busy(h)
        /\ Exists(e)' <=> Exists(e)
    BY <1>3 DEF avars, BeingMade, Busy, Exists
  <2> QED
    BY <1>1, <2>1, RowTyped, QuietApproval DEF Typed
<1>4. \A e \in Emails : Approval(e)'
  BY <1>1, <1>3, ApprovalStep
<1> QED
  BY <1>1, <1>2, <1>4

(* Once a registration was put to approval (register_user), no password    *)
(* reset, confirmation, import or social sign-up makes the account active, *)
(* whatever it had read before, unless an administrator, or start-up, let  *)
(* it in (approve_user, update_user): whatever columns an edit gives.      *)
THEOREM ActiveOnlyIfApproved == Spec => []ActiveWasApproved
<1>1. Spec => [](Typed /\ Approvals)
  <2>1. Init => Typed /\ Approvals
    BY TypeInit, ApprovalsInit
  <2>2. (Typed /\ Approvals) /\ [Next]_avars => (Typed /\ Approvals)'
    BY TypeStep, ApprovalsStep
  <2> QED
    BY <2>1, <2>2, PTL DEF Spec
<1>2. Approvals => ActiveWasApproved
  BY DEF Approvals
<1> QED
  BY <1>1, <1>2, PTL

-----------------------------------------------------------------------------
(***************************************************************************)
(* While one administrator at a time decides, the two columns that say     *)
(* whether an account is active agree, and mails are true. For each        *)
(* address: who decides is an administrator and has found the account      *)
(* undecided; one that is being made is active, nobody decides about it    *)
(* and no confirmation has read anything else, unless it was edited too    *)
(* early; one that was put to approval is pending only if an edit left it  *)
(* to a confirmation (released); and unless it was, the administrator's    *)
(* reading is current until the commit, and what was decided stands until  *)
(* the mail is sent.                                                       *)
(***************************************************************************)
OneAdmin   == \A g, h \in Admins : g = h
Decides(h) == thread[h].pc \in Deciding \cup {"editing"}
Settled(e) == e \in pended \ early /\ Exists(e)

OnlyAdminsDecide(e) ==
    \A h \in Threads : thread[h].pc # "idle" /\ thread[h].who = e =>
        /\ Decides(h) => h \in Admins
        /\ thread[h].pc \in {"approving", "rejecting"} => thread[h].seen.status # "active"

MadeAreActive(e) ==
    \A h \in Threads : BeingMade(h, e) /\ e \notin early =>
        /\ thread[h].seen.status = "active" /\ thread[h].seen.active
        /\ Exists(e) => row[e].status = "active" /\ row[e].active
        /\ \A g \in Threads : Decides(g) => thread[g].who # e
        /\ \A g \in Threads : thread[g].pc \in Confirming /\ thread[g].who = e =>
              thread[g].seen.status # "pending"

PendingAreReleased(e) ==
    e \in pended \ early =>
        /\ Exists(e) /\ row[e].status = "pending" => e \in released
        /\ \A h \in Threads : thread[h].pc \in Confirming /\ thread[h].who = e
                             /\ thread[h].seen.status = "pending" => e \in released

DecisionsAreCurrent(e) ==
    Settled(e) =>
        \A h \in Threads : thread[h].pc # "idle" /\ thread[h].who = e =>
            /\ thread[h].pc \in Opening /\ e \notin released =>
                  /\ thread[h].seen.status = row[e].status
                  /\ thread[h].seen.active <=> row[e].active
            /\ thread[h].pc \in {"approved", "approval_mailed"} => row[e].status = "active"
            /\ thread[h].pc = "rejected" /\ e \notin released => row[e].status = "rejected"

ColumnsAgree(e) ==
    Settled(e) /\ e \notin released \cup uneven => (row[e].active <=> row[e].status = "active")

Agreement(e) ==
    /\ OnlyAdminsDecide(e)
    /\ MadeAreActive(e)
    /\ PendingAreReleased(e)
    /\ DecisionsAreCurrent(e)
    /\ ColumnsAgree(e)

(* What leaves one address in order: nobody starts to decide about it, and *)
(* its two columns stay unless it waits for no decision, or a confirmation *)
(* that it was left to makes it active.                                    *)
LEMMA QuietAgreement ==
    ASSUME Typed, NEW e \in Emails, Agreement(e),
           \/ row'[e].status = row[e].status /\ (row'[e].active <=> row[e].active)
           \/ ~ Exists(e)'
           \/ e \notin pended /\ \A g \in Threads : ~ BeingMade(g, e)'
           \/ /\ \A g \in Threads : ~ BeingMade(g, e)'
              /\ e \in released /\ row'[e].status = "active"
           \/ e \in early,
           Exists(e)' => Exists(e), e \in pended' => e \in pended, early \subseteq early',
           e \in released => e \in released', e \in uneven => e \in uneven',
           \A g \in Threads : thread'[g].pc \in Confirming /\ thread'[g].who = e =>
              thread'[g] = thread[g] \/ (thread'[g].seen.status = row'[e].status /\ Exists(e)'),
           \A g \in Threads : thread'[g].pc # "idle" /\ thread'[g].who = e =>
              \/ thread'[g] = thread[g]
              \/ thread'[g].pc \notin Making \cup Opening \cup Deciding
              \/ /\ BeingMade(g, e) /\ thread'[g].pc \in Making /\ Exists(e)'
                 /\ thread'[g].seen.status = row'[e].status
                 /\ thread'[g].seen.active <=> row'[e].active
              \/ /\ thread[g].pc = "approved" /\ thread[g].who = e
                 /\ thread'[g].pc = "approval_mailed"
    PROVE  Agreement(e)'
<1> DEFINE Same(g)  == thread'[g] = thread[g]
           Aside(g) == thread'[g].pc \notin Making \cup Opening \cup Deciding
           On(g)    == /\ BeingMade(g, e) /\ thread'[g].pc \in Making /\ Exists(e)'
                       /\ thread'[g].seen.status = row'[e].status
                       /\ thread'[g].seen.active <=> row'[e].active
           Sent(g)  == /\ thread[g].pc = "approved" /\ thread[g].who = e
                       /\ thread'[g].pc = "approval_mailed"
<1>1. \A g \in Threads : thread'[g].pc # "idle" /\ thread'[g].who = e =>
         Same(g) \/ Aside(g) \/ On(g) \/ Sent(g)
  OBVIOUS
<1>2. \A g \in Threads : Aside(g) => ~ Decides(g)' /\ ~ BeingMade(g, e)'
  BY DEF Decides, BeingMade, Making, Opening
<1>3. \A g \in Threads : On(g) => ~ Decides(g)' /\ thread'[g].pc \notin Opening
  BY DEF Decides, Making, Opening, Deciding
<1>4. \A g \in Threads : Sent(g) => Decides(g) /\ ~ BeingMade(g, e)' /\ thread'[g].pc \notin Opening
  BY DEF Decides, BeingMade, Opening, Deciding
<1>5. \A g \in Threads : Same(g) =>
         (Decides(g)' <=> Decides(g)) /\ (BeingMade(g, e)' <=> BeingMade(g, e))
  BY DEF Decides, BeingMade
<1> HIDE DEF Same, Aside, On, Sent
<1>6. ASSUME NEW g \in Threads, thread'[g].pc # "idle", thread'[g].who = e, Decides(g)'
      PROVE  Decides(g) /\ thread[g].who = e /\ (Same(g) \/ Sent(g))
  BY <1>1, <1>2, <1>3, <1>4, <1>5, <1>6 DEF Same, Sent
<1>7. OnlyAdminsDecide(e)'
  <2>1. ASSUME NEW g \in Threads, thread'[g].pc # "idle", thread'[g].who = e
        PROVE  /\ Decides(g)' => g \in Admins
               /\ thread'[g].pc \in {"approving", "rejecting"} => thread'[g].seen.status # "active"
    <3>1. Decides(g)' => g \in Admins
      BY <1>6, <2>1 DEF Agreement, OnlyAdminsDecide, Decides, Deciding
    <3>2. CASE thread'[g].pc \in {"approving", "rejecting"}
      <4>1. Decides(g)'
        BY <3>2 DEF Decides, Deciding
      <4>2. Same(g)
        BY <1>6, <2>1, <3>2, <4>1 DEF Sent
      <4> QED
        BY <2>1, <3>1, <3>2, <4>2 DEF Same, Agreement, OnlyAdminsDecide
    <3> QED
      BY <3>1, <3>2
  <2> QED
    BY <2>1 DEF OnlyAdminsDecide
<1>8. MadeAreActive(e)'
  <2>1. ASSUME NEW h \in Threads, BeingMade(h, e)', e \notin early'
        PROVE  (/\ thread[h].seen.status = "active" /\ thread[h].seen.active
                /\ Exists(e) => row[e].status = "active" /\ row[e].active
                /\ \A g \in Threads : Decides(g) => thread[g].who # e
                /\ \A g \in Threads : thread[g].pc \in Confirming /\ thread[g].who = e =>
                      thread[g].seen.status # "pending")'
    <3>1. thread'[h].pc # "idle" /\ thread'[h].who = e
      BY <2>1 DEF BeingMade
    <3>2. BeingMade(h, e) /\ (Same(h) \/ On(h))
      BY <1>1, <1>2, <1>4, <1>5, <2>1, <3>1 DEF On
    <3>3. /\ thread[h].seen.status = "active" /\ thread[h].seen.active
          /\ Exists(e) => row[e].status = "active" /\ row[e].active
          /\ \A g \in Threads : Decides(g) => thread[g].who # e
          /\ \A g \in Threads : thread[g].pc \in Confirming /\ thread[g].who = e =>
                thread[g].seen.status # "pending"
      BY <2>1, <3>2 DEF Agreement, MadeAreActive
    <3>4. Exists(e)' => row'[e].status = "active" /\ row'[e].active
      BY <2>1, <3>3
    <3>5. thread'[h].seen.status = "active" /\ thread'[h].seen.active
      BY <3>2, <3>3, <3>4 DEF Same, On
    <3>6. \A g \in Threads : Decides(g)' => thread'[g].who # e
      BY <1>6, <3>3 DEF Decides, Deciding
    <3>7. \A g \in Threads : thread'[g].pc \in Confirming /\ thread'[g].who = e =>
             thread'[g].seen.status # "pending"
      BY <3>3, <3>4
    <3> QED
      BY <3>4, <3>5, <3>6, <3>7
  <2> QED
    BY <2>1 DEF MadeAreActive
<1>9. Settled(e)' =>
         /\ Settled(e)
         /\ row'[e].status \in {row[e].status, "active"}
         /\ e \notin released' => /\ e \notin released /\ row'[e].status = row[e].status
                                  /\ (row'[e].active <=> row[e].active)
  BY DEF Settled
<1>12. PendingAreReleased(e)'
  <2>1. ASSUME e \in pended' \ early', Exists(e)', row'[e].status = "pending"
        PROVE  e \in released'
    BY <1>9, <2>1 DEF Settled, Agreement, PendingAreReleased
  <2>2. ASSUME e \in pended' \ early', NEW g \in Threads, thread'[g].pc \in Confirming,
               thread'[g].who = e, thread'[g].seen.status = "pending"
        PROVE  e \in released'
    BY <2>1, <2>2 DEF Agreement, PendingAreReleased
  <2> QED
    BY <2>1, <2>2 DEF PendingAreReleased
<1>10. DecisionsAreCurrent(e)'
  <2>1. ASSUME Settled(e)', NEW g \in Threads, thread'[g].pc # "idle", thread'[g].who = e,
               thread'[g].pc \in Opening \cup Deciding
        PROVE  (/\ thread[g].pc \in Opening /\ e \notin released =>
                     /\ thread[g].seen.status = row[e].status
                     /\ thread[g].seen.active <=> row[e].active
                /\ thread[g].pc \in {"approved", "approval_mailed"} => row[e].status = "active"
                /\ thread[g].pc = "rejected" /\ e \notin released =>
                     row[e].status = "rejected")'
    <3>1. Decides(g)'
      BY <2>1 DEF Decides, Opening, Deciding
    <3>2. Decides(g) /\ thread[g].who = e /\ (Same(g) \/ Sent(g))
      BY <1>6, <2>1, <3>1
    <3>3. CASE Same(g)
      BY <1>9, <2>1, <3>3 DEF Same, Agreement, DecisionsAreCurrent
    <3>4. CASE Sent(g)
      BY <1>9, <2>1, <3>4 DEF Sent, Agreement, DecisionsAreCurrent, Opening
    <3> QED
      BY <3>2, <3>3, <3>4
  <2> QED
    BY <2>1 DEF DecisionsAreCurrent, Deciding
<1>11. ColumnsAgree(e)'
  BY <1>9 DEF ColumnsAgree, Agreement
<1> QED
  BY <1>7, <1>8, <1>10, <1>11, <1>12 DEF Agreement

LEMMA AgreementInit == Init => \A e \in Emails : Agreement(e)
<1> SUFFICES ASSUME Init, NEW e \in Emails
             PROVE  Agreement(e)
  OBVIOUS
<1>1. \A h \in Threads : thread[h].pc = "idle"
  BY DEF Init, Idle
<1>2. ~ Settled(e)
  BY DEF Init, Settled
<1>3. OnlyAdminsDecide(e) /\ MadeAreActive(e)
  BY <1>1 DEF OnlyAdminsDecide, MadeAreActive, BeingMade
<1>4. PendingAreReleased(e)
  BY DEF Init, PendingAreReleased
<1> QED
  BY <1>2, <1>3, <1>4 DEF Agreement, DecisionsAreCurrent, ColumnsAgree

(* A decision is begun.                                                    *)
LEMMA OpeningAgreement ==
    ASSUME Typed, NEW h \in Threads, NEW d \in Emails, Starts(h, d), thread'[h].pc \in Opening,
           NEW e \in Emails, Agreement(e)
    PROVE  Agreement(e)'
<1>1. /\ Others(h) /\ ~ Busy(h) /\ thread'[h].who = d /\ thread'[h].seen = row[d]
      /\ h \in Admins /\ Exists(d)
      /\ thread'[h].pc \in {"approving", "rejecting"} => row[d].status # "active"
      /\ thread'[h].pc = "editing" => (~ NotMade(d) => d \in early')
      /\ early \subseteq early'
      /\ UNCHANGED <<row, gone, pended, released, uneven>>
  BY StartDoes
<1>2. /\ \A g \in Threads : BeingMade(g, e)' => BeingMade(g, e) /\ thread'[g] = thread[g]
      /\ \A g \in Threads : g # h => thread'[g] = thread[g] /\ (Decides(g)' <=> Decides(g))
  BY <1>1 DEF BeingMade, Others, Opening, Decides
<1>3. Settled(e)' => Settled(e)
  BY <1>1 DEF Settled, Exists
<1>8. \A g \in Threads : thread'[g].pc \in Confirming => g # h
  BY DEF Opening, Confirming
<1>9. PendingAreReleased(e)'
  BY <1>1, <1>2, <1>8 DEF PendingAreReleased, Agreement, Exists
<1>4. OnlyAdminsDecide(e)'
  BY <1>1, <1>2 DEF OnlyAdminsDecide, Agreement
<1>5. MadeAreActive(e)'
  <2>1. ASSUME NEW m \in Threads, BeingMade(m, e)', e \notin early'
        PROVE  (/\ thread[m].seen.status = "active" /\ thread[m].seen.active
                /\ Exists(e) => row[e].status = "active" /\ row[e].active
                /\ \A g \in Threads : Decides(g) => thread[g].who # e
                /\ \A g \in Threads : thread[g].pc \in Confirming /\ thread[g].who = e =>
                      thread[g].seen.status # "pending")'
    <3>1. BeingMade(m, e) /\ e \notin early /\ thread'[m] = thread[m]
      BY <1>1, <1>2, <2>1
    <3>2. /\ thread[m].seen.status = "active" /\ thread[m].seen.active
          /\ Exists(e) => row[e].status = "active" /\ row[e].active
          /\ \A g \in Threads : Decides(g) => thread[g].who # e
          /\ \A g \in Threads : thread[g].pc \in Confirming /\ thread[g].who = e =>
                thread[g].seen.status # "pending"
      BY <3>1 DEF Agreement, MadeAreActive
    <3>3. d # e
      <4>1. ~ NotMade(e)
        BY <3>1 DEF NotMade
      <4> QED
        BY <1>1, <2>1, <3>2, <4>1 DEF Opening
    <3>4. \A g \in Threads : Decides(g)' => thread'[g].who # e
      BY <1>1, <1>2, <3>2, <3>3
    <3>5. Exists(e)' <=> Exists(e)
      BY <1>1 DEF Exists
    <3>6. \A g \in Threads : thread'[g].pc \in Confirming /\ thread'[g].who = e =>
             thread'[g].seen.status # "pending"
      BY <1>2, <1>8, <3>2
    <3> QED
      BY <1>1, <3>1, <3>2, <3>4, <3>5, <3>6
  <2> QED
    BY <2>1 DEF MadeAreActive
<1>6. DecisionsAreCurrent(e)'
  <2>1. ASSUME Settled(e)', NEW g \in Threads, thread'[g].pc # "idle", thread'[g].who = e
        PROVE  (/\ thread[g].pc \in Opening /\ e \notin released =>
                     /\ thread[g].seen.status = row[e].status
                     /\ thread[g].seen.active <=> row[e].active
                /\ thread[g].pc \in {"approved", "approval_mailed"} => row[e].status = "active"
                /\ thread[g].pc = "rejected" /\ e \notin released =>
                     row[e].status = "rejected")'
    <3>1. CASE g = h
      BY <1>1, <2>1, <3>1 DEF Opening
    <3>2. CASE g # h
      BY <1>1, <1>2, <1>3, <2>1, <3>2 DEF Agreement, DecisionsAreCurrent
    <3> QED
      BY <3>1, <3>2
  <2> QED
    BY <2>1 DEF DecisionsAreCurrent
<1>7. ColumnsAgree(e)'
  BY <1>1, <1>3 DEF ColumnsAgree, Agreement
<1> QED
  BY <1>4, <1>5, <1>6, <1>7, <1>9 DEF Agreement

(* A decision is committed: by the only administrator, over a row that is  *)
(* still as it was read.                                                   *)
LEMMA DecisionAgreement ==
    ASSUME OneAdmin, Typed, NEW h \in Threads, DecisionCommit(h), Exists(thread[h].who),
           \A e \in Emails : Agreement(e), NEW e \in Emails
    PROVE  Agreement(e)'
<1> DEFINE d == thread[h].who
<1>1. PICK new \in Row : Writes(h, new) /\ Decided(h, new)
  BY DecisionDoes
<1>2. Others(h) /\ thread[h].pc \in Opening /\ UNCHANGED <<gone, pended, early>>
  BY DecisionDoes
<1>3. /\ d \in Emails /\ row'[d] \in Row /\ \A c \in Emails : c # d => row'[c] = row[c]
      /\ row'[d].status = IF new.status # thread[h].seen.status THEN new.status ELSE row[d].status
      /\ row'[d].active = IF new.active # thread[h].seen.active THEN new.active ELSE row[d].active
      /\ thread[h].seen \in Row /\ thread[h].pc # "idle"
  BY <1>1 DEF Writes, Busy
<1>6. /\ released' \in {released, released \cup {d}}
      /\ uneven' \in {uneven \ {d}, uneven \cup {d}}
      /\ new.status # thread[h].seen.status /\ new.status = "pending" =>
            d \in released' \/ d \notin pended \ early
      /\ d \notin uneven' => (new.active <=> new.status = "active")
      /\ \/ thread'[h].pc = "idle"
         \/ /\ thread'[h].who = d /\ thread'[h].seen = row'[d]
            /\ \/ /\ thread[h].pc = "approving" /\ thread'[h].pc = "approved"
                  /\ new.status = "active"
               \/ /\ thread[h].pc = "rejecting" /\ thread'[h].pc = "rejected"
                  /\ new.status = "rejected"
  BY <1>1 DEF Decided
<1>7. thread'[h].pc \notin Confirming
  BY <1>6 DEF Confirming
<1>4. CASE e # d
  <2>1. row'[e] = row[e] /\ (Exists(e)' => Exists(e))
    BY <1>3, <1>4 DEF Exists
  <2>2. \A g \in Threads : thread'[g].pc # "idle" /\ thread'[g].who = e => thread'[g] = thread[g]
    BY <1>6, <1>2, <1>4 DEF Others
  <2>3. \A g \in Threads : thread'[g].pc \in Confirming => thread'[g].pc # "idle"
    BY DEF Confirming
  <2>4. (e \in released => e \in released') /\ (e \in uneven => e \in uneven')
    BY <1>4, <1>6
  <2> QED
    BY <1>2, <2>1, <2>2, <2>3, <2>4, QuietAgreement
<1>5. CASE e = d
  <2>1. Agreement(e) /\ Decides(h) /\ thread[h].pc # "idle" /\ thread[h].who = e
    BY <1>2, <1>5, <1>3 DEF Decides, Opening, Deciding
  <2>2. h \in Admins
    BY <2>1 DEF Agreement, OnlyAdminsDecide
  <2>3. \A g \in Threads : g # h => thread'[g] = thread[g] /\ (Decides(g)' <=> Decides(g))
    BY <1>2 DEF Others, Decides
  <2>4. \A g \in Threads : thread'[g].pc # "idle" /\ thread'[g].who = e /\ Decides(g)' => g = h
    BY <2>1, <2>2, <2>3 DEF Agreement, OnlyAdminsDecide, OneAdmin
  <2>5. OnlyAdminsDecide(e)'
    BY <1>6, <2>2, <2>3, <2>1 DEF OnlyAdminsDecide, Agreement
  <2>6. MadeAreActive(e)'
    <3>1. ASSUME NEW m \in Threads, BeingMade(m, e)', e \notin early' PROVE FALSE
      <4>1. m # h
        BY <1>6, <3>1 DEF BeingMade
      <4>2. BeingMade(m, e) /\ e \notin early
        BY <1>2, <2>3, <3>1, <4>1 DEF BeingMade
      <4> QED
        BY <2>1, <4>2 DEF Agreement, MadeAreActive
    <3> QED
      BY <3>1 DEF MadeAreActive
  <2>7. Settled(e)' => /\ Settled(e)
                       /\ thread[h].pc \in {"approving", "rejecting"} =>
                             thread[h].seen.status # "active"
    BY <1>2, <1>3, <1>5, <2>1 DEF Settled, Agreement, OnlyAdminsDecide
  <2>8. Settled(e)' /\ e \notin released' =>
          thread[h].seen.status = row[e].status /\ (thread[h].seen.active <=> row[e].active)
    BY <1>2, <1>6, <2>1, <2>7 DEF Agreement, DecisionsAreCurrent
  <2>9. Settled(e)' /\ e \notin released' =>
          row'[e].status = new.status /\ (row'[e].active <=> new.active)
    <3>1. ASSUME Settled(e)', e \notin released' PROVE row'[e].status = new.status
      BY <1>3, <1>5, <2>8, <3>1
    <3>2. ASSUME Settled(e)', e \notin released' PROVE row'[e].active <=> new.active
      <4>1. row[e] \in Row /\ new \in Row
        BY <1>5, <2>7, <3>2, RowTyped DEF Typed, Settled
      <4>2. /\ new.active \in BOOLEAN /\ row[e].active \in BOOLEAN
            /\ thread[h].seen.active \in BOOLEAN
        BY <1>3, <4>1, RowFields
      <4>3. thread[h].seen.active = row[e].active
        BY <2>8, <3>2, <4>2
      <4> QED
        BY <1>3, <1>5, <4>2, <4>3
    <3> QED
      BY <3>1, <3>2
  <2>10. ColumnsAgree(e)'
    BY <1>5, <1>6, <2>9 DEF ColumnsAgree
  <2>11. DecisionsAreCurrent(e)'
    <3>1. ASSUME Settled(e)', NEW g \in Threads, thread'[g].pc # "idle", thread'[g].who = e
          PROVE  (/\ thread[g].pc \in Opening /\ e \notin released =>
                       /\ thread[g].seen.status = row[e].status
                       /\ thread[g].seen.active <=> row[e].active
                  /\ thread[g].pc \in {"approved", "approval_mailed"} => row[e].status = "active"
                  /\ thread[g].pc = "rejected" /\ e \notin released =>
                       row[e].status = "rejected")'
      <4>1. CASE ~ Decides(g)'
        BY <4>1 DEF Decides, Opening, Deciding
      <4>2. CASE g = h
        <5>1. thread[h].pc = "approving" => row'[e].status = new.status \/ new.status # "active"
          BY <1>3, <1>5, <2>7, <3>1
        <5> QED
          BY <1>6, <2>9, <3>1, <4>2, <5>1 DEF Opening
      <4> QED
        BY <2>4, <3>1, <4>1, <4>2
    <3> QED
      BY <3>1 DEF DecisionsAreCurrent
  <2>12. PendingAreReleased(e)'
    <3>1. ASSUME e \in pended' \ early', Exists(e)', row'[e].status = "pending"
          PROVE  e \in released'
      <4>1. row'[e].status = row[e].status \/ new.status # thread[h].seen.status
        BY <1>3, <1>5
      <4>2. CASE row'[e].status = row[e].status
        BY <1>2, <1>5, <1>6, <2>1, <3>1, <4>2 DEF Agreement, PendingAreReleased
      <4>3. CASE new.status # thread[h].seen.status
        BY <1>2, <1>3, <1>5, <1>6, <3>1, <4>3
      <4> QED
        BY <4>1, <4>2, <4>3
    <3>2. ASSUME e \in pended' \ early', NEW g \in Threads, thread'[g].pc \in Confirming,
                 thread'[g].who = e, thread'[g].seen.status = "pending"
          PROVE  e \in released'
      <4>1. thread'[g] = thread[g] /\ (e \in released => e \in released')
        BY <1>6, <1>7, <2>3, <3>2
      <4> QED
        BY <1>2, <2>1, <3>2, <4>1 DEF Agreement, PendingAreReleased
    <3> QED
      BY <3>1, <3>2 DEF PendingAreReleased
  <2> QED
    BY <2>5, <2>6, <2>10, <2>11, <2>12 DEF Agreement
<1> QED
  BY <1>4, <1>5

(* Who is done, or makes an account, confirms nothing.                     *)
LEMMA Readers == "idle" \notin Confirming /\ "inserted" \notin Confirming
  BY DEF Confirming

(* Every step keeps one address in order.                                  *)
LEMMA AgreementStep ==
    ASSUME OneAdmin, Typed, Typed', \A d \in Emails : Approval(d),
           \A d \in Emails : Agreement(d), Next, NEW e \in Emails
    PROVE  Agreement(e)'
<1>0. Agreement(e) /\ Approval(e)
  OBVIOUS
<1>1. row[e].status # "absent" <=> Exists(e)
  BY RowTyped DEF Typed
<1>2. CASE \E h \in Threads, d \in Emails : Starts(h, d)
  <2>1. PICK h \in Threads, d \in Emails : Starts(h, d)
    BY <1>2
  <2>2. CASE thread'[h].pc \in Opening
    BY <2>1, <2>2, OpeningAgreement
  <2>3. CASE thread'[h].pc \notin Opening
    <3>1. /\ Others(h) /\ thread'[h].pc \in {"inserting", "taking_over"} \cup Confirming
          /\ thread'[h].pc \in Confirming => Exists(d)
          /\ thread'[h].who = d /\ thread'[h].seen = row[d]
          /\ early \subseteq early' /\ UNCHANGED <<row, gone, pended, released, uneven>>
      BY <2>1, <2>3, StartDoes
    <3>2. Exists(e)' <=> Exists(e)
      BY <3>1 DEF Exists
    <3>3. thread'[h].pc \notin Making \cup Opening \cup Deciding
      BY <3>1 DEF Making, Opening, Deciding, Confirming
    <3>4. \A g \in Threads : thread'[g].pc \in Confirming /\ thread'[g].who = e =>
             thread'[g] = thread[g] \/ (thread'[g].seen.status = row'[e].status /\ Exists(e)')
      BY <3>1, <3>2 DEF Others
    <3> QED
      BY <1>0, <3>1, <3>2, <3>3, <3>4, QuietAgreement DEF Others
  <2> QED
    BY <2>2, <2>3
<1>3. CASE \E h \in Threads : Ends(h)
  <2>1. PICK h \in Threads : Ends(h)
    BY <1>3
  <2>2. Others(h) /\ thread'[h].pc = "idle" /\ Quiet
    BY <2>1, EndDoes
  <2>3. Exists(e)' <=> Exists(e)
    BY <2>2 DEF Quiet, Exists
  <2> QED
    BY <1>0, <2>2, <2>3, Readers, QuietAgreement DEF Others, Quiet
<1>4. CASE \E h \in Threads : SignupMail(h) \/ ApproveMail(h)
  <2>1. PICK h \in Threads : SignupMail(h) \/ ApproveMail(h)
    BY <1>4
  <2>2. /\ Others(h) /\ Quiet /\ thread'[h].who = thread[h].who
        /\ \/ thread'[h].pc = "mailed"
           \/ thread[h].pc = "approved" /\ thread'[h].pc = "approval_mailed"
    BY <2>1, MailDoes DEF At
  <2>3. Exists(e)' <=> Exists(e)
    BY <2>2 DEF Quiet, Exists
  <2>4. /\ "mailed" \notin Making \cup Opening \cup Deciding \cup Confirming
        /\ "approval_mailed" \notin Confirming
    BY DEF Making, Opening, Deciding, Confirming
  <2> QED
    BY <1>0, <2>2, <2>3, <2>4, QuietAgreement DEF Others, Quiet
<1>5. CASE \E h \in Threads : Insert(h) /\ row' # row
  <2>1. PICK h \in Threads : Insert(h) /\ row' # row
    BY <1>5
  <2>2. /\ Others(h) /\ thread'[h].who = thread[h].who /\ thread[h].who \in Emails
        /\ ~ Exists(thread[h].who) /\ thread[h].who \notin gone /\ At(h, "inserting")
        /\ thread'[h].pc = "inserted" /\ thread'[h].seen = Fresh
        /\ row' = [row EXCEPT ![thread[h].who] = Fresh]
        /\ UNCHANGED <<gone, pended, early, released, uneven>>
    BY <2>1, InsertDoes
  <2>3. CASE thread[h].who # e
    <3>1. row'[e] = row[e] /\ (Exists(e)' <=> Exists(e))
      BY <2>2, <2>3 DEF Exists
    <3>2. \A g \in Threads : thread'[g].who = e => thread'[g] = thread[g]
      BY <2>2, <2>3 DEF Others
    <3> QED
      BY <1>0, <2>2, <3>1, <3>2, QuietAgreement
  <2>4. CASE thread[h].who = e
    <3>1. row'[e] = Fresh
      BY <2>2, <2>4 DEF Typed, TypeOK
    <3>2. /\ e \notin pended'
          /\ \A g \in Threads : Busy(g) /\ thread[g].who = e => thread[g].seen.status = "absent"
      BY <1>0, <2>2, <2>4 DEF Approval
    <3>3. \A g \in Threads : Decides(g) => thread[g].who # e
      <4>1. ASSUME NEW g \in Threads, Decides(g), thread[g].who = e PROVE FALSE
        <5>1. Busy(g) /\ thread[g].pc \notin Creating
          BY <4>1 DEF Decides, Deciding, Creating, Busy
        <5>2. thread[g].seen \in Row
          BY <5>1, Fields DEF Typed
        <5> QED
          BY <3>2, <4>1, <5>1, <5>2, RowFields
      <4> QED
        BY <4>1
    <3>4. \A g \in Threads : Decides(g)' => thread'[g].who # e
      BY <2>2, <3>3 DEF Others, Decides, Deciding
    <3>5. \A g \in Threads : g # h => ~ BeingMade(g, e)'
      <4>1. ASSUME NEW g \in Threads, g # h, BeingMade(g, e)' PROVE FALSE
        <5>1. BeingMade(g, e)
          BY <2>2, <4>1 DEF BeingMade, Others
        <5> QED
          BY <1>0, <2>2, <2>4, <5>1 DEF Approval
      <4> QED
        BY <4>1
    <3>6. OnlyAdminsDecide(e)'
      BY <3>4 DEF OnlyAdminsDecide, Decides, Deciding
    <3>9. \A g \in Threads : thread'[g].pc \in Confirming /\ thread'[g].who = e =>
             thread'[g].seen.status # "pending"
      BY <2>2, <3>2 DEF Others, Confirming, Busy
    <3>7. MadeAreActive(e)'
      BY <2>2, <3>1, <3>4, <3>5, <3>9, RowFields DEF MadeAreActive
    <3>8. DecisionsAreCurrent(e)' /\ ColumnsAgree(e)' /\ PendingAreReleased(e)'
      BY <3>2 DEF DecisionsAreCurrent, ColumnsAgree, PendingAreReleased, Settled
    <3> QED
      BY <3>6, <3>7, <3>8 DEF Agreement
  <2> QED
    BY <2>3, <2>4
<1>6. CASE \E h \in Threads : (GiveRole(h) \/ GiveTag(h)) /\ Exists(thread[h].who)
  <2>1. PICK h \in Threads : (GiveRole(h) \/ GiveTag(h)) /\ Exists(thread[h].who)
    BY <1>6
  <2> DEFINE d == thread[h].who
  <2>2. /\ Others(h) /\ thread[h].pc \in Making /\ d \in Emails
        /\ thread'[h].who = d /\ thread'[h].pc \in Making /\ thread'[h].seen = row'[d]
        /\ row'[d] \in Row /\ \A c \in Emails : c # d => row'[c] = row[c]
        /\ row'[d].status = row[d].status /\ row'[d].active = row[d].active
        /\ UNCHANGED <<gone, pended, early, released, uneven>>
    BY <2>1, RoleAndTagDo
  <2>3. /\ row'[e].status = row[e].status /\ row'[e].active = row[e].active
        /\ Exists(e)' => Exists(e)
    BY <2>1, <2>2 DEF Exists
  <2>4. d = e => BeingMade(h, e) /\ Exists(e)'
    BY <2>1, <2>2, RowFields DEF BeingMade, Making, Exists
  <2>5. \A g \in Threads : thread'[g].pc # "idle" /\ thread'[g].who = e =>
          \/ thread'[g] = thread[g]
          \/ /\ BeingMade(g, e) /\ thread'[g].pc \in Making /\ Exists(e)'
             /\ thread'[g].seen.status = row'[e].status
             /\ thread'[g].seen.active <=> row'[e].active
    BY <2>2, <2>4 DEF Others
  <2>6. \A g \in Threads : thread'[g].pc \in Confirming => thread'[g] = thread[g]
    BY <2>2 DEF Others, Making, Confirming
  <2> HIDE DEF d
  <2> QED
    BY <1>0, <2>2, <2>3, <2>5, <2>6, QuietAgreement
<1>7. CASE \E h \in Threads : SignupPend(h) /\ Exists(thread[h].who)
  <2>1. PICK h \in Threads : SignupPend(h) /\ Exists(thread[h].who)
    BY <1>7
  <2> DEFINE d == thread[h].who
  <2>2. PICK new \in Row : /\ Writes(h, new)
                           /\ new.status = "pending_approval" /\ new.active = FALSE
    BY <2>1, PendDoes
  <2>3. /\ Others(h) /\ At(h, "tagged") /\ thread'[h].who = d /\ thread'[h].pc = "pended"
        /\ pended' = pended \cup {d} /\ UNCHANGED <<gone, early, released, uneven>>
    BY <2>1, PendDoes
  <2>4. /\ d \in Emails /\ \A c \in Emails : c # d => row'[c] = row[c]
        /\ row'[d].status = IF new.status # thread[h].seen.status THEN new.status ELSE row[d].status
        /\ row'[d].active = IF new.active # thread[h].seen.active THEN new.active ELSE row[d].active
    BY <2>2 DEF Writes
  <2>5. "pended" \notin Making \cup Opening \cup Deciding \cup Confirming
    BY DEF Making, Opening, Deciding, Confirming
  <2>6. CASE e # d
    <3>1. row'[e] = row[e] /\ (Exists(e)' => Exists(e)) /\ (e \in pended' => e \in pended)
      BY <2>3, <2>4, <2>6 DEF Exists
    <3> QED
      BY <1>0, <2>3, <2>5, <3>1, QuietAgreement DEF Others
  <2>7. CASE e = d
    <3>1. BeingMade(h, e)
      BY <2>3, <2>7 DEF BeingMade, At
    <3>2. /\ ~ Decides(h)' /\ ~ BeingMade(h, e)'
          /\ \A g \in Threads : g # h => thread'[g] = thread[g] /\ (Decides(g)' <=> Decides(g))
                                         /\ (BeingMade(g, e)' <=> BeingMade(g, e))
      BY <2>3 DEF Decides, BeingMade, Deciding, Others
    <3>3. OnlyAdminsDecide(e)'
      BY <1>0, <2>3, <3>2 DEF OnlyAdminsDecide, Agreement
    <3>4. MadeAreActive(e)'
      BY <1>0, <3>1, <3>2 DEF MadeAreActive, Approval
    <3>5. CASE e \in early
      BY <2>3, <3>3, <3>4, <3>5
         DEF Agreement, DecisionsAreCurrent, ColumnsAgree, PendingAreReleased, Settled
    <3>6. CASE e \notin early
      <4>1. /\ thread[h].seen.status = "active" /\ thread[h].seen.active
            /\ \A g \in Threads : Decides(g) => thread[g].who # e
            /\ \A g \in Threads : thread[g].pc \in Confirming /\ thread[g].who = e =>
                  thread[g].seen.status # "pending"
        BY <1>0, <3>1, <3>6 DEF Agreement, MadeAreActive
      <4>2. row'[e].status = "pending_approval" /\ ~ row'[e].active
        BY <2>2, <2>4, <2>7, <4>1
      <4>3. \A g \in Threads : Decides(g)' => thread'[g].who # e
        BY <3>2, <4>1
      <4>4. DecisionsAreCurrent(e)'
        BY <4>3 DEF DecisionsAreCurrent, Decides, Opening, Deciding
      <4>5. ColumnsAgree(e)'
        BY <4>2 DEF ColumnsAgree
      <4>6. PendingAreReleased(e)'
        BY <2>3, <2>5, <3>2, <4>1, <4>2 DEF PendingAreReleased
      <4> QED
        BY <3>3, <3>4, <4>4, <4>5, <4>6 DEF Agreement
    <3> QED
      BY <3>5, <3>6
  <2> QED
    BY <2>6, <2>7
<1>8. CASE \E h \in Threads : CreateEnd(h) /\ Exists(thread[h].who)
  <2>1. PICK h \in Threads : CreateEnd(h) /\ Exists(thread[h].who)
    BY <1>8
  <2>2. PICK new \in Row : Writes(h, new)
    BY <2>1, CreateEndDoes
  <2>3. /\ Others(h) /\ At(h, "tagged") /\ thread'[h].pc = "idle"
        /\ UNCHANGED <<gone, pended, early, released, uneven>>
    BY <2>1, CreateEndDoes
  <2>4. /\ thread[h].who \in Emails /\ \A c \in Emails : c # thread[h].who => row'[c] = row[c]
    BY <2>2 DEF Writes
  <2>5. Exists(e)' => Exists(e)
    BY <2>1, <2>4 DEF Exists
  <2>6. row'[e] = row[e] \/ (e \notin pended /\ \A g \in Threads : ~ BeingMade(g, e)')
    <3>1. CASE e = thread[h].who
      <4>1. BeingMade(h, e)
        BY <2>3, <3>1 DEF BeingMade, At
      <4>2. e \notin pended /\ \A g \in Threads : BeingMade(g, e) => g = h
        BY <1>0, <4>1 DEF Approval, NotMade
      <4> QED
        BY <2>3, <4>2 DEF BeingMade, Others
    <3> QED
      BY <2>4, <3>1
  <2> QED
    BY <1>0, <2>3, <2>5, <2>6, Readers, QuietAgreement DEF Others
<1>9. CASE \E h \in Threads : DecisionCommit(h) /\ Exists(thread[h].who)
  BY <1>9, DecisionAgreement
<1>10. CASE \E h \in Threads : ConfirmCommit(h) /\ Exists(thread[h].who)
  <2>1. PICK h \in Threads : ConfirmCommit(h) /\ Exists(thread[h].who)
    BY <1>10
  <2> DEFINE d == thread[h].who
  <2>2. PICK new \in Row : /\ Writes(h, new)
                           /\ new.active = thread[h].seen.active
                           /\ new.status = IF thread[h].seen.status = "pending" THEN "active"
                                           ELSE thread[h].seen.status
    BY <2>1, ConfirmDoes
  <2>3. /\ Others(h) /\ thread[h].pc \in Confirming /\ thread'[h].pc = "idle"
        /\ UNCHANGED <<gone, pended, early, released, uneven>>
    BY <2>1, ConfirmDoes
  <2>4. /\ d \in Emails /\ \A c \in Emails : c # d => row'[c] = row[c]
        /\ row'[d].status = IF new.status # thread[h].seen.status THEN new.status ELSE row[d].status
        /\ row'[d].active = IF new.active # thread[h].seen.active THEN new.active ELSE row[d].active
        /\ Busy(h)
    BY <2>2 DEF Writes
  <2>5. Exists(e)' => Exists(e)
    BY <2>1, <2>4 DEF Exists
  <2>6. \/ row'[e].status = row[e].status /\ row'[e].active = row[e].active
        \/ e \notin pended /\ \A g \in Threads : ~ BeingMade(g, e)'
        \/ /\ \A g \in Threads : ~ BeingMade(g, e)'
           /\ e \in released /\ row'[e].status = "active"
        \/ e \in early
    <3>1. CASE e = d /\ thread[h].seen.status = "pending" /\ e \notin early
      <4>1. NotMade(e)
        <5>1. \A m \in Threads : ~ BeingMade(m, e)
          BY <1>0, <2>3, <3>1 DEF Agreement, MadeAreActive
        <5> QED
          BY <5>1 DEF NotMade
      <4>2. \A g \in Threads : ~ BeingMade(g, e)'
        BY <2>3, <4>1 DEF BeingMade, Others, NotMade
      <4>3. e \in pended => e \in released
        BY <1>0, <2>3, <3>1 DEF Agreement, PendingAreReleased
      <4>4. row'[e].status = "active"
        BY <2>2, <2>4, <3>1
      <4> QED
        BY <4>2, <4>3, <4>4
    <3>2. CASE e = d /\ thread[h].seen.status # "pending"
      BY <2>2, <2>4, <3>2
    <3> QED
      BY <2>4, <3>1, <3>2
  <2> HIDE DEF d
  <2> QED
    BY <1>0, <2>3, <2>5, <2>6, Readers, QuietAgreement DEF Others
<1>11. CASE \E d \in Emails : VerifyByAdmin(d)
  <2>1. PICK d \in Emails : VerifyByAdmin(d)
    BY <1>11
  <2>2. /\ row'[e].status = row[e].status /\ row'[e].active = row[e].active
        /\ Exists(e)' => Exists(e)
    BY <2>1, VerifyDoes, RowFields DEF Exists
  <2>3. UNCHANGED <<gone, thread, pended, early, released, uneven>>
    BY <2>1, VerifyDoes
  <2> QED
    BY <1>0, <2>2, <2>3, QuietAgreement
<1>12. CASE \E d \in Emails : DeleteAccount(d)
  <2>1. PICK d \in Emails : DeleteAccount(d)
    BY <1>12
  <2>2. row' = [row EXCEPT ![d] = Absent] /\ UNCHANGED <<thread, pended, early, released, uneven>>
    BY <2>1 DEF DeleteAccount, history
  <2>3. (row'[e] = row[e] \/ ~ Exists(e)') /\ (Exists(e)' => Exists(e))
    BY <2>2 DEF Typed, TypeOK, Exists
  <2> QED
    BY <1>0, <2>2, <2>3, QuietAgreement
<1>13. CASE Restart
  <2>1. /\ \A g \in Threads : thread'[g].pc = "idle"
        /\ \/ row'[e] = row[e] /\ (e \in uneven => e \in uneven')
           \/ row'[e].status = "active" /\ row'[e].active
        /\ UNCHANGED <<pended, early, released>>
    BY <1>13, RestartDoes
  <2>2. OnlyAdminsDecide(e)' /\ MadeAreActive(e)' /\ DecisionsAreCurrent(e)'
    BY <2>1 DEF OnlyAdminsDecide, MadeAreActive, DecisionsAreCurrent, BeingMade
  <2>3. ColumnsAgree(e)'
    BY <1>0, <2>1 DEF Agreement, ColumnsAgree, Settled, Exists
  <2>4. PendingAreReleased(e)'
    BY <1>0, <2>1 DEF Agreement, PendingAreReleased, Exists, Confirming
  <2> QED
    BY <2>2, <2>3, <2>4 DEF Agreement
<1> QED
  BY <1>2, <1>3, <1>4, <1>5, <1>6, <1>7, <1>8, <1>9, <1>10, <1>11, <1>12, <1>13, Steps

Agreements == \A e \in Emails : Agreement(e)

(* With one deciding administrator, whatever members and the start-up code *)
(* do meanwhile, the two columns of a registered account agree, and every  *)
(* reading a decision rests on is current.                                 *)
LEMMA AgreementsHold == OneAdmin => (Spec => [](Typed /\ Approvals /\ Agreements))
<1>1. ASSUME OneAdmin, Typed, Approvals, Agreements, [Next]_avars
      PROVE  Agreements'
  <2>1. Typed' /\ \A e \in Emails : Approval(e)
    BY <1>1, TypeStep, ByAddress
  <2>2. CASE Next
    BY <1>1, <2>1, <2>2, AgreementStep DEF Agreements
  <2>3. CASE UNCHANGED avars
    <3>1. ASSUME NEW e \in Emails PROVE Agreement(e)'
      <4>1. UNCHANGED <<row, thread, pended, early, released, uneven>> /\ (Exists(e)' <=> Exists(e))
        BY <2>3 DEF avars, Exists
      <4> QED
        BY <1>1, <4>1, QuietAgreement DEF Agreements
    <3> QED
      BY <3>1 DEF Agreements
  <2> QED
    BY <1>1, <2>2, <2>3
<1>2. Init => Typed /\ Approvals /\ Agreements
  BY TypeInit, ApprovalsInit, AgreementInit DEF Agreements
<1>3. OneAdmin /\ (Typed /\ Approvals /\ Agreements) /\ [Next]_avars
        => (Typed /\ Approvals /\ Agreements)'
  BY <1>1, TypeStep, ApprovalsStep
<1> SUFFICES ASSUME OneAdmin PROVE Spec => [](Typed /\ Approvals /\ Agreements)
  OBVIOUS
<1>4. (Typed /\ Approvals /\ Agreements) /\ [Next]_avars => (Typed /\ Approvals /\ Agreements)'
  BY <1>3
<1> QED
  BY <1>2, <1>4, PTL DEF Spec

(* If one administrator at a time decides (approve_user, reject_user,      *)
(* update_user), the two columns that say whether a registered account is  *)
(* active agree, whatever members, deletions and restarts do meanwhile:    *)
(* until an edit sets them apart or leaves the account to a confirmation.  *)
THEOREM ColumnsAlwaysAgree == OneAdmin => (Spec => []StatusAgreesWithActive)
<1> SUFFICES ASSUME OneAdmin PROVE Spec => []StatusAgreesWithActive
  OBVIOUS
<1>1. Spec => [](Typed /\ Approvals /\ Agreements)
  BY AgreementsHold
<1>2. Typed /\ Agreements => StatusAgreesWithActive
  BY DEF Agreements, Agreement, ColumnsAgree, Settled, StatusAgreesWithActive, Typed, TypeOK
<1> QED
  BY <1>1, <1>2, PTL

(* The handlers that write to somebody about a registration.               *)
LEMMA MailSteps ==
    ASSUME Typed, [Next]_avars
    PROVE  \/ \E h \in Threads : SignupMail(h) \/ ApproveMail(h) \/ RejectMail(h)
           \/ lastMail' = lastMail
<1> USE DEF post
<1>1. ASSUME NEW h \in Threads, NEW d \in Emails, Starts(h, d)
      PROVE  lastMail' = lastMail
  BY <1>1, StartDoes
<1>2. ASSUME NEW h \in Threads, Runs(h)
      PROVE  SignupMail(h) \/ ApproveMail(h) \/ RejectMail(h) \/ lastMail' = lastMail
  BY <1>2 DEF Runs, Insert, GiveRole, GiveTag, SignupPend, CreateEnd, SignupNotify,
              TakeOverEnd, ApproveCommit, ApproveNotify, RejectCommit, EditCommit,
              ConfirmCommit, RowGone
<1>3. CASE \/ \E h \in Threads : ThreadFails(h)
           \/ \E d \in Emails : VerifyByAdmin(d) \/ DeleteAccount(d)
           \/ Restart \/ UNCHANGED avars
  BY <1>3 DEF ThreadFails, VerifyByAdmin, DeleteAccount, Restart, avars
<1> QED
  BY <1>1, <1>2, <1>3 DEF Next

(* An approval or rejection mail is sent while it is true, whatever else   *)
(* happens between the commit and the mail (approve_user, reject_user); of *)
(* a rejection only unless an edit left the account to a confirmation,     *)
(* which may come late and undo it.                                        *)
MailIsTrue ==
    [][\A e \in pended \ early : lastMail'[e] # lastMail[e] /\ Exists(e) =>
          /\ lastMail'[e] = "approved" => row[e].status = "active"
          /\ lastMail'[e] = "rejected" /\ e \notin released => row[e].status = "rejected"]_avars

(* With one deciding administrator the mail of a decision is true when it  *)
(* is sent, although the commit is over by then (approve_user,             *)
(* reject_user): nothing else takes the decision back.                     *)
THEOREM MailsAreTrue == OneAdmin => (Spec => MailIsTrue)
<1> DEFINE True == \A e \in pended \ early : lastMail'[e] # lastMail[e] /\ Exists(e) =>
                      /\ lastMail'[e] = "approved" => row[e].status = "active"
                      /\ lastMail'[e] = "rejected" /\ e \notin released =>
                            row[e].status = "rejected"
<1>1. ASSUME Typed, Agreements, [Next]_avars
      PROVE  True
  <2>0. SUFFICES ASSUME NEW e \in pended \ early, lastMail'[e] # lastMail[e], Exists(e)
                 PROVE  /\ lastMail'[e] = "approved" => row[e].status = "active"
                        /\ lastMail'[e] = "rejected" /\ e \notin released =>
                              row[e].status = "rejected"
    OBVIOUS
  <2>1. e \in Emails /\ Settled(e) /\ Agreement(e)
    BY <1>1, <2>0 DEF Typed, TypeOK, Agreements, Settled
  <2>2. \/ \E h \in Threads : SignupMail(h) \/ ApproveMail(h) \/ RejectMail(h)
        \/ lastMail' = lastMail
    BY <1>1, MailSteps
  <2>3. PICK h \in Threads : SignupMail(h) \/ ApproveMail(h) \/ RejectMail(h)
    BY <2>0, <2>2
  <2>4. \A what : Mail(thread[h].who, what) => thread[h].who = e /\ lastMail'[e] = what
    BY <1>1, <2>0, <2>1 DEF Mail, Typed, TypeOK
  <2>5. CASE SignupMail(h)
    BY <2>4, <2>5 DEF SignupMail
  <2>6. CASE ApproveMail(h)
    <3>1. At(h, "approved") /\ thread[h].who = e /\ lastMail'[e] = "approved"
      BY <2>4, <2>6 DEF ApproveMail
    <3> QED
      BY <2>1, <3>1 DEF Agreement, DecisionsAreCurrent, At
  <2>7. CASE RejectMail(h)
    <3>1. At(h, "rejected") /\ thread[h].who = e /\ lastMail'[e] = "rejected"
      BY <2>4, <2>7 DEF RejectMail
    <3> QED
      BY <2>1, <3>1 DEF Agreement, DecisionsAreCurrent, At
  <2> QED
    BY <2>3, <2>5, <2>6, <2>7
<1> SUFFICES ASSUME OneAdmin PROVE Spec => MailIsTrue
  OBVIOUS
<1>2. Spec => [](Typed /\ Approvals /\ Agreements)
  BY AgreementsHold
<1>3. (Typed /\ Approvals /\ Agreements) /\ [Next]_avars => True
  BY <1>1
<1>4. Spec => [][Next]_avars
  BY DEF Spec
<1>5. [][True]_avars => MailIsTrue
  BY PTL DEF MailIsTrue
<1> QED
  BY <1>2, <1>3, <1>4, <1>5, PTL

-----------------------------------------------------------------------------
(* Admission: where each registration stands, and the step of Admission    *)
(* that each step of a handler is.                                         *)

Out == Admissions!Out
In  == Admissions!In

Stands(d) == Standing(d)' = Standing(d)
Silent    == lastMail' = lastMail
SameHands == \A d \in Emails : InHand(d)' = InHand(d)

(* Whoever was put to approval stands where the row says.                  *)
LEMMA StandingIs ==
    ASSUME Typed, NEW e \in Emails
    PROVE  /\ Settled(e) => Standing(e) = row[e].status /\ Standing(e) \in In \cup Out
           /\ e \notin pended \ early => Standing(e) = "unregistered"
           /\ e \in pended \ early /\ ~ Exists(e) => Standing(e) = "absent"
           /\ Standing(e) \in Out => Settled(e) /\ row[e].status # "active"
<1>1. Exists(e) => row[e].status \in Status
  BY RowTyped, RowFields DEF Typed
<1>2. ~ Exists(e) => row[e].status = "absent"
  BY RowTyped DEF Typed
<1> QED
  BY <1>1, <1>2 DEF Standing, Settled, Status, In, Out, Admissions!In, Admissions!Out

LEMMA StandsBy ==
    ASSUME NEW e, row'[e].status = row[e].status,
           e \in pended' \ early' <=> e \in pended \ early
    PROVE  Stands(e)
  BY DEF Stands, Standing

(* What a request has in hand, before and after a step of it: decisions    *)
(* are taken when they are begun and let go when they are committed or     *)
(* fail.                                                                   *)
LEMMA HandsStay ==
    ASSUME NEW h \in Threads, Others(h), thread[h].pc \notin Opening, thread'[h].pc \notin Opening
    PROVE  SameHands
  BY DEF SameHands, InHand, Others

LEMMA HandTaken ==
    ASSUME NEW h \in Threads, Others(h), thread[h].pc \notin Opening, thread'[h].pc \in Opening
    PROVE  [d \in Emails |-> InHand(d)]' =
             [[d \in Emails |-> InHand(d)] EXCEPT ![thread'[h].who] = @ \cup {thread'[h].pc}]
<1> DEFINE e == thread'[h].who
<1>1. ASSUME NEW d \in Emails
      PROVE  InHand(d)' = IF d = e THEN InHand(d) \cup {thread'[h].pc} ELSE InHand(d)
  <2>1. ASSUME NEW pc
        PROVE  pc \in InHand(d)' <=> pc \in InHand(d) \/ (d = e /\ pc = thread'[h].pc)
    BY DEF InHand, Others
  <2> QED
    BY <2>1
<1> QED
  BY <1>1

LEMMA HandLetGo ==
    ASSUME OneAdmin, NEW e \in Emails, Agreement(e), NEW h \in Threads, Others(h),
           thread[h].pc \in Opening, thread[h].who = e, thread'[h].pc \notin Opening
    PROVE  /\ thread[h].pc \in InHand(e)
           /\ [d \in Emails |-> InHand(d)]' =
                [[d \in Emails |-> InHand(d)] EXCEPT ![e] = @ \ {thread[h].pc}]
<1>1. \A g \in Threads : thread[g].pc \in Opening => thread[g].pc # "idle" /\ Decides(g)
  BY DEF Opening, Decides, Deciding
<1>2. ASSUME NEW g \in Threads, thread[g].pc \in Opening, thread[g].who = e PROVE g = h
  BY <1>1, <1>2 DEF Agreement, OnlyAdminsDecide, OneAdmin
<1>3. ASSUME NEW d \in Emails
      PROVE  InHand(d)' = IF d = e THEN InHand(d) \ {thread[h].pc} ELSE InHand(d)
  <2>1. CASE d = e
    BY <1>2, <2>1 DEF InHand, Others
  <2>2. CASE d # e
    BY <2>2 DEF InHand, Others
  <2> QED
    BY <2>1, <2>2
<1> QED
  BY <1>3 DEF InHand

(* One registration moves.                                                 *)
LEMMA BecomeMaps ==
    ASSUME NEW e \in Emails, NEW from, NEW to, Standing(e) \in from, Standing(e)' = to,
           \A d \in Emails : d # e => Stands(d)
    PROVE  Admissions!Become(e, from, to)
<1>1. [d \in Emails |-> Standing(d)]' = [[d \in Emails |-> Standing(d)] EXCEPT ![e] = to]
  BY DEF Stands
<1> QED
  BY <1>1 DEF Admissions!Become

LEMMA SameStanding ==
    ASSUME \A d \in Emails : Stands(d)
    PROVE  UNCHANGED [d \in Emails |-> Standing(d)]
  BY DEF Stands

LEMMA SameInHand == SameHands => UNCHANGED [d \in Emails |-> InHand(d)]
  BY DEF SameHands

LEMMA StandMaps ==
    ASSUME \A d \in Emails : Stands(d), Silent, SameHands, UNCHANGED released
    PROVE  UNCHANGED Admissions!mvars
  BY SameStanding, SameInHand DEF Admissions!mvars, Silent

(* Handlers that start, or make an account, and the administrator who      *)
(* vouches for one, leave everybody where they stand.                      *)
LEMMA ReadersLeaveStanding ==
    ASSUME Typed, \A e \in Emails : Approval(e), NEW d \in Emails,
           \/ \E h \in Threads, e \in Emails : Starts(h, e)
           \/ \E h \in Threads : Insert(h) /\ row' # row
           \/ \E h \in Threads : (GiveRole(h) \/ GiveTag(h)) /\ Exists(thread[h].who)
           \/ \E h \in Threads : CreateEnd(h) /\ Exists(thread[h].who)
           \/ \E e \in Emails : VerifyByAdmin(e)
    PROVE  Stands(d)
<1>1. CASE \E h \in Threads, e \in Emails : Starts(h, e)
  <2>1. PICK h \in Threads, e \in Emails : Starts(h, e)
    BY <1>1
  <2>2. /\ UNCHANGED <<row, pended>> /\ early' \in {early, early \cup {e}}
        /\ e \in early' => e \in early \/ ~ NotMade(e)
    BY <2>1, StartDoes
  <2>3. e \in pended => NotMade(e)
    BY DEF Approval
  <2>4. d \in pended' \ early' <=> d \in pended \ early
    BY <2>2, <2>3
  <2> QED
    BY <2>2, <2>4, StandsBy
<1>2. CASE \E h \in Threads : Insert(h) /\ row' # row
  <2>1. PICK h \in Threads : Insert(h) /\ row' # row
    BY <1>2
  <2>2. PICK e \in Emails : e = thread[h].who
    BY <2>1, InsertDoes
  <2>3. /\ ~ Exists(e) /\ e \notin gone /\ UNCHANGED <<pended, early>>
        /\ row' = [row EXCEPT ![e] = Fresh]
    BY <2>1, <2>2, InsertDoes
  <2>4. e \notin pended
    BY <2>3 DEF Approval
  <2>5. d # e => row'[d] = row[d]
    BY <2>3 DEF Typed, TypeOK
  <2> QED
    BY <2>3, <2>4, <2>5 DEF Stands, Standing
<1>3. CASE \E h \in Threads : (GiveRole(h) \/ GiveTag(h)) /\ Exists(thread[h].who)
  <2>1. PICK h \in Threads : (GiveRole(h) \/ GiveTag(h)) /\ Exists(thread[h].who)
    BY <1>3
  <2>2. row'[d].status = row[d].status /\ UNCHANGED <<pended, early>>
    BY <2>1, RoleAndTagDo
  <2> QED
    BY <2>2, StandsBy
<1>4. CASE \E h \in Threads : CreateEnd(h) /\ Exists(thread[h].who)
  <2>1. PICK h \in Threads : CreateEnd(h) /\ Exists(thread[h].who)
    BY <1>4
  <2>2. PICK new \in Row : Writes(h, new)
    BY <2>1, CreateEndDoes
  <2>3. PICK e \in Emails : e = thread[h].who
    BY <2>2 DEF Writes
  <2>4. /\ d # e => row'[d] = row[d]
        /\ At(h, "tagged") /\ UNCHANGED <<pended, early>>
    BY <2>1, <2>2, <2>3, CreateEndDoes DEF Writes
  <2>5. BeingMade(h, e)
    BY <2>3, <2>4 DEF BeingMade, At
  <2>6. e \notin pended
    BY <2>5 DEF Approval, NotMade
  <2> QED
    BY <2>4, <2>6 DEF Stands, Standing
<1>5. CASE \E e \in Emails : VerifyByAdmin(e)
  <2>1. row'[d].status = row[d].status /\ UNCHANGED <<pended, early>>
    BY <1>5, VerifyDoes
  <2> QED
    BY <2>1, StandsBy
<1> QED
  BY <1>1, <1>2, <1>3, <1>4, <1>5

(* A decision is taken in hand, or another handler starts.                 *)
LEMMA StartMaps ==
    ASSUME Typed, \A e \in Emails : Approval(e), NEW h \in Threads, NEW d \in Emails,
           Starts(h, d)
    PROVE  \/ \E e \in Emails, what \in Admissions!Work : Admissions!Take(e, what)
           \/ UNCHANGED Admissions!mvars
<1>1. /\ Others(h) /\ ~ Busy(h) /\ thread'[h].who = d /\ Silent /\ UNCHANGED released
      /\ thread'[h].pc \in {"approving", "rejecting"} => row[d].status # "active"
  BY StartDoes DEF Silent, post
<1>2. thread[h].pc \notin Opening
  BY <1>1 DEF Busy, Opening
<1>3. \A e \in Emails : Stands(e)
  BY ReadersLeaveStanding
<1>4. CASE thread'[h].pc \notin Opening
  BY <1>1, <1>2, <1>3, <1>4, HandsStay, StandMaps
<1>5. CASE thread'[h].pc \in Opening
  <2> DEFINE what == thread'[h].pc
  <2>1. what # "editing" => Standing(d) \notin In
    BY <1>1, <1>5 DEF Opening, Standing, In, Admissions!In
  <2>2. [e \in Emails |-> InHand(e)]' =
          [[e \in Emails |-> InHand(e)] EXCEPT ![d] = @ \cup {what}]
    BY <1>1, <1>2, <1>5, HandTaken
  <2>3. UNCHANGED [e \in Emails |-> Standing(e)]
    BY <1>3, SameStanding
  <2>4. what \in Admissions!Work
    BY <1>5 DEF Opening, Admissions!Work
  <2> HIDE DEF what
  <2>5. Admissions!Take(d, what)
    BY <1>1, <2>1, <2>2, <2>3 DEF Admissions!Take, Silent, In
  <2> QED
    BY <2>4, <2>5
<1> QED
  BY <1>4, <1>5

(* A confirmation moves those only whom an edit left to it.                *)
LEMMA ConfirmMaps ==
    ASSUME Typed, \A e \in Emails : Approval(e) /\ Agreement(e), NEW h \in Threads,
           ConfirmCommit(h), Exists(thread[h].who)
    PROVE  \/ \E e \in Emails : Admissions!Confirm(e)
           \/ UNCHANGED Admissions!mvars
<1>1. PICK new \in Row :
        /\ Writes(h, new)
        /\ new.status = IF thread[h].seen.status = "pending" THEN "active"
                        ELSE thread[h].seen.status
  BY ConfirmDoes
<1>2. PICK e \in Emails : e = thread[h].who
  BY <1>1 DEF Writes
<1>3. /\ Others(h) /\ thread[h].pc \in Confirming /\ thread'[h].pc = "idle"
      /\ UNCHANGED <<pended, early, released>> /\ Silent
      /\ Exists(e) /\ row'[e] \in Row
      /\ \A d \in Emails : d # e => row'[d] = row[d]
      /\ row'[e].status = IF new.status # thread[h].seen.status THEN new.status
                          ELSE row[e].status
  BY <1>1, <1>2, ConfirmDoes DEF Writes, Silent, post
<1>4. SameHands
  BY <1>3, HandsStay DEF Confirming, Opening
<1>5. \A d \in Emails : d # e => Stands(d)
  BY <1>3 DEF Stands, Standing
<1>6. CASE Stands(e)
  BY <1>3, <1>4, <1>5, <1>6, StandMaps
<1>7. CASE ~ Stands(e)
  <2>1. e \in pended \ early /\ row'[e].status # row[e].status
    BY <1>3, <1>7, StandsBy DEF Stands, Standing
  <2>2. thread[h].seen.status = "pending" /\ row'[e].status = "active"
    BY <1>1, <1>3, <2>1
  <2>3. e \in released
    BY <1>2, <1>3, <2>1, <2>2 DEF Agreement, PendingAreReleased
  <2>4. Standing(e) \in Out
    BY <1>3, <2>1, <2>2, StandingIs DEF Settled, In, Admissions!In
  <2>5. Standing(e)' = "active"
    BY <1>3, <2>1, <2>2 DEF Standing
  <2>6. Admissions!Become(e, Out, "active")
    BY <1>5, <2>4, <2>5, BecomeMaps
  <2>7. UNCHANGED [d \in Emails |-> InHand(d)]
    BY <1>4, SameInHand
  <2> QED
    BY <1>3, <2>3, <2>6, <2>7 DEF Admissions!Confirm, Silent, Out
<1> QED
  BY <1>6, <1>7

(* A registration is put to approval; one edited before stays aside.       *)
LEMMA PendMaps ==
    ASSUME Typed, \A e \in Emails : Approval(e) /\ Agreement(e), NEW h \in Threads,
           SignupPend(h), Exists(thread[h].who)
    PROVE  \/ \E e \in Emails : Admissions!Register(e)
           \/ UNCHANGED Admissions!mvars
<1>1. PICK new \in Row : Writes(h, new) /\ new.status = "pending_approval"
  BY PendDoes
<1>2. PICK e \in Emails : e = thread[h].who
  BY <1>1 DEF Writes
<1>3. /\ At(h, "tagged") /\ pended' = pended \cup {e} /\ early' = early /\ Silent
      /\ Others(h) /\ thread'[h].pc = "pended" /\ UNCHANGED released
      /\ \A d \in Emails : d # e => row'[d] = row[d]
      /\ row'[e].status = IF new.status # thread[h].seen.status THEN new.status
                          ELSE row[e].status
  BY <1>1, <1>2, PendDoes DEF Writes, Silent, post
<1>4. BeingMade(h, e)
  BY <1>2, <1>3 DEF BeingMade, At
<1>5. e \notin pended
  BY <1>4 DEF Approval, NotMade
<1>6. \A d \in Emails : d # e => Stands(d)
  BY <1>3 DEF Stands, Standing
<1>9. SameHands
  BY <1>3, HandsStay DEF At, Opening
<1>7. CASE e \in early
  <2>1. Stands(e)
    BY <1>3, <1>7 DEF Stands, Standing
  <2> QED
    BY <1>3, <1>6, <1>9, <2>1, StandMaps
<1>8. CASE e \notin early
  <2>1. Standing(e) = "unregistered"
    BY <1>5 DEF Standing
  <2>2. thread[h].seen.status = "active"
    BY <1>4, <1>8 DEF Agreement, MadeAreActive
  <2>3. Standing(e)' = "pending_approval"
    BY <1>1, <1>3, <1>8, <2>2 DEF Standing
  <2>4. Admissions!Become(e, {"unregistered"}, "pending_approval")
    BY <1>6, <2>1, <2>3, BecomeMaps
  <2>5. UNCHANGED [d \in Emails |-> InHand(d)]
    BY <1>9, SameInHand
  <2> QED
    BY <1>3, <2>4, <2>5 DEF Admissions!Register, Silent
<1> QED
  BY <1>7, <1>8

(* A decision falls on the registration as it stands, although it was read *)
(* before: the reading is current (Agreement). Only of one that an edit    *)
(* left to a confirmation it may have been outrun.                         *)
LEMMA DecisionMaps ==
    ASSUME OneAdmin, Typed, \A e \in Emails : Approval(e) /\ Agreement(e), NEW h \in Threads,
           DecisionCommit(h), Exists(thread[h].who)
    PROVE  \E e \in Emails : \E what \in InHand(e) :
              Admissions!Drop(e, what) \/ Admissions!Decide(e, what)
<1>1. PICK new \in Row : Writes(h, new) /\ Decided(h, new)
  BY DecisionDoes
<1>2. PICK e \in Emails : e = thread[h].who
  BY <1>1 DEF Writes
<1> DEFINE what == thread[h].pc
<1>3. /\ Others(h) /\ what \in Opening /\ what # "idle"
      /\ UNCHANGED <<pended, early>> /\ Silent
      /\ Exists(e) /\ row'[e] \in Row /\ new.status \in Status
      /\ \A d \in Emails : d # e => row'[d] = row[d]
      /\ row'[e].status = IF new.status # thread[h].seen.status THEN new.status
                          ELSE row[e].status
  BY <1>1, <1>2, DecisionDoes, RowFields DEF Writes, Silent, post, Opening
<1>4. /\ released' \in {released, released \cup {e}}
      /\ new.status # thread[h].seen.status /\ new.status = "pending" =>
            e \in released' \/ e \notin pended \ early
      /\ released' # released => new.status = "pending" /\ e \in pended \ early
      /\ what = "approving" => new.status = "active"
      /\ what = "rejecting" => new.status = "rejected"
      /\ thread'[h].pc \notin Opening
  BY <1>1, <1>2 DEF Decided, Opening
<1>5. /\ what \in InHand(e)
      /\ [d \in Emails |-> InHand(d)]' =
           [[d \in Emails |-> InHand(d)] EXCEPT ![e] = @ \ {what}]
  BY <1>2, <1>3, <1>4, HandLetGo
<1>6. \A d \in Emails : d # e => Stands(d)
  BY <1>3 DEF Stands, Standing
<1>7. CASE Stands(e) /\ released' = released
  <2>1. UNCHANGED [d \in Emails |-> Standing(d)]
    BY <1>6, <1>7, SameStanding
  <2>2. Admissions!Drop(e, what)
    BY <1>3, <1>5, <1>7, <2>1 DEF Admissions!Drop, Admissions!Finish, Silent
  <2> QED
    BY <1>5, <2>2
<1>8. CASE ~ (Stands(e) /\ released' = released)
  <2>1. Settled(e)
    BY <1>3, <1>4, <1>8 DEF Settled, Stands, Standing
  <2>2. Standing(e) = row[e].status /\ Standing(e) \in In \cup Out
    BY <2>1, StandingIs
  <2>3. Standing(e)' = row'[e].status
    BY <1>3, <2>1 DEF Standing, Settled
  <2>4. e \notin released => thread[h].seen.status = row[e].status
    BY <1>2, <1>3, <2>1 DEF Agreement, DecisionsAreCurrent
  <2>5. row'[e].status = new.status
    <3>1. CASE e \notin released
      BY <1>3, <2>4, <3>1
    <3>2. CASE e \in released
      <4>1. released' = released
        BY <1>4, <3>2
      <4> QED
        BY <1>3, <1>8, <2>2, <2>3, <4>1 DEF Stands
    <3> QED
      BY <3>1, <3>2
  <2>6. new.status \in In \cup Out
    BY <1>3 DEF Status, In, Out, Admissions!In, Admissions!Out
  <2>7. what \in {"approving", "rejecting"} => Standing(e) \in Admissions!Open(e)
    <3>1. what \in {"approving", "rejecting"} => thread[h].seen.status # "active"
      BY <1>2, <1>3 DEF Agreement, OnlyAdminsDecide
    <3> QED
      BY <2>2, <2>4, <3>1 DEF Admissions!Open, In, Out, Admissions!In
  <2>8. Admissions!Finish(e, what) /\ Silent
    BY <1>3, <1>5 DEF Admissions!Finish
  <2>9. CASE what \in {"approving", "rejecting"}
    <3>1. Admissions!Become(e, Admissions!Open(e), new.status) /\ released' = released
      BY <1>4, <1>6, <2>3, <2>5, <2>7, <2>9, BecomeMaps
    <3> QED
      BY <1>4, <1>5, <2>8, <2>9, <3>1
         DEF Admissions!Decide, Admissions!Approve, Admissions!Reject, Silent
  <2>10. CASE what = "editing"
    <3>1. Admissions!Become(e, In \cup Out, new.status)
      BY <1>6, <2>2, <2>3, <2>5, BecomeMaps
    <3>2. released' = IF new.status = "pending" THEN released \cup {e} ELSE released
      <4>1. CASE new.status # "pending"
        BY <1>4, <4>1
      <4>2. CASE new.status = "pending" /\ released' # released
        BY <1>4, <4>2
      <4>3. CASE new.status = "pending" /\ released' = released
        <5>1. new.status # thread[h].seen.status \/ e \in released
          BY <1>8, <2>2, <2>3, <2>4, <2>5, <4>3 DEF Stands
        <5> QED
          BY <1>4, <2>1, <4>3, <5>1 DEF Settled
      <4> QED
        BY <4>1, <4>2, <4>3
    <3>3. Admissions!Switch(e)
      BY <2>6, <3>1, <3>2 DEF Admissions!Switch, In, Out
    <3> QED
      BY <1>5, <2>8, <2>10, <3>3 DEF Admissions!Decide, Silent
  <2> QED
    BY <1>3, <2>9, <2>10 DEF Opening
<1> QED
  BY <1>7, <1>8

LEMMA DeleteMaps ==
    ASSUME Typed, NEW e \in Emails, DeleteAccount(e)
    PROVE  Admissions!Leave(e) \/ UNCHANGED Admissions!mvars
<1>1. /\ row' = [row EXCEPT ![e] = Absent] /\ UNCHANGED <<thread, pended, early, released>>
      /\ Silent /\ Exists(e)
  BY DEF DeleteAccount, history, post, Silent
<1>2. row'[e].status = "absent" /\ \A d \in Emails : d # e => row'[d] = row[d]
  BY <1>1 DEF Typed, TypeOK, Absent
<1>3. (\A d \in Emails : d # e => Stands(d)) /\ SameHands
  BY <1>1, <1>2 DEF Stands, Standing, SameHands, InHand
<1>4. CASE e \in pended \ early
  <2>1. Standing(e) \in In \cup Out
    BY <1>1, <1>4, StandingIs DEF Settled
  <2>2. Standing(e)' = "absent"
    BY <1>1, <1>2, <1>4 DEF Standing
  <2>3. Admissions!Become(e, In \cup Out, "absent")
    BY <1>3, <2>1, <2>2, BecomeMaps
  <2>4. UNCHANGED [d \in Emails |-> InHand(d)]
    BY <1>3, SameInHand
  <2> QED
    BY <1>1, <2>3, <2>4 DEF Admissions!Leave, In, Out, Silent
<1>5. CASE e \notin pended \ early
  <2>1. Stands(e)
    BY <1>1, <1>5 DEF Stands, Standing
  <2> QED
    BY <1>1, <1>3, <2>1, StandMaps
<1> QED
  BY <1>4, <1>5

(* The start-up code goes by is_active, and writes both columns.           *)
LEMMA RestartMaps ==
    ASSUME Typed, Restart
    PROVE  Admissions!Start
<1> DEFINE some == {e \in Emails : Rescuable(e) /\ Standing(e) \in Out}
<1>1. UNCHANGED <<pended, early, released>> /\ Silent
  BY DEF Restart, post, Silent
<1>2. ASSUME NEW e \in Emails
      PROVE  Standing(e)' = IF e \in some THEN "active" ELSE Standing(e)
  <2>1. CASE e \notin pended \ early
    <3>1. Standing(e)' = Standing(e)
      BY <1>1, <2>1 DEF Standing
    <3>2. Standing(e) \notin Out
      BY <2>1, StandingIs DEF Settled
    <3> QED
      BY <3>1, <3>2
  <2>2. CASE e \in pended \ early /\ ~ Rescuable(e)
    <3>1. row'[e] = row[e]
      BY <2>2 DEF Restart
    <3> QED
      BY <1>1, <2>2, <3>1 DEF Standing
  <2>3. CASE e \in pended \ early /\ Rescuable(e)
    <3>1. row[e] \in Row /\ Settled(e)
      BY <2>3, RowTyped DEF Typed, Rescuable, Settled
    <3>2. row'[e] = [row[e] EXCEPT !.status = "active", !.active = TRUE]
      BY <2>3 DEF Restart
    <3>3. row'[e].status = "active"
      BY <3>1, <3>2 DEF Row
    <3>4. Standing(e)' = "active"
      BY <1>1, <2>3, <3>3 DEF Standing
    <3>5. Standing(e) \in In \cup Out
      BY <3>1, StandingIs
    <3> QED
      BY <2>3, <3>4, <3>5 DEF In, Admissions!In
  <2> QED
    BY <2>1, <2>2, <2>3
<1>3. some \in SUBSET {e \in Rescued : [x \in Emails |-> Standing(x)][e] \in Out}
  BY RescuedAssumption DEF Rescuable
<1> HIDE DEF some
<1>4. [e \in Emails |-> Standing(e)]' =
        [e \in Emails |-> IF e \in some THEN "active" ELSE [x \in Emails |-> Standing(x)][e]]
  BY <1>2
<1>5. [e \in Emails |-> InHand(e)]' = [e \in Emails |-> {}]
  BY RestartDoes DEF InHand, Opening
<1> QED
  BY <1>1, <1>3, <1>4, <1>5 DEF Admissions!Start, Silent, Out

(* Handlers that only send something, or end, move nobody; what is written *)
(* about a decision is so.                                                 *)
LEMMA MailMaps ==
    ASSUME Typed, \A e \in Emails : Agreement(e), [Next]_avars, Quiet, SameHands
    PROVE  \/ \E e \in Emails, what \in {"pending", "approved", "rejected"} :
                 Admissions!Tell(e, what)
           \/ UNCHANGED Admissions!mvars
<1>1. (\A d \in Emails : Stands(d)) /\ UNCHANGED released
  BY DEF Quiet, Stands, Standing
<1>2. CASE Silent
  BY <1>1, <1>2, StandMaps
<1>3. ASSUME NEW h \in Threads, SignupMail(h) \/ ApproveMail(h) \/ RejectMail(h), ~ Silent
      PROVE  \E e \in Emails, what \in {"pending", "approved", "rejected"} :
                Admissions!Tell(e, what)
  <2>1. Busy(h)
    BY <1>3 DEF SignupMail, ApproveMail, RejectMail, At, Busy
  <2>2. PICK e \in Emails : e = thread[h].who
    BY <2>1, Fields DEF Typed
  <2>3. PICK what \in {"pending", "approved", "rejected"} :
          /\ lastMail' = [lastMail EXCEPT ![e] = what]
          /\ what = "approved" => At(h, "approved")
          /\ what = "rejected" => At(h, "rejected")
    BY <1>3, <2>2 DEF SignupMail, ApproveMail, RejectMail, Mail, Silent
  <2>6. /\ UNCHANGED [d \in Emails |-> Standing(d)]
        /\ UNCHANGED [d \in Emails |-> InHand(d)]
    BY <1>1, SameStanding, SameInHand
  <2>4. CASE Settled(e)
    <3>1. Standing(e) = row[e].status
      BY <2>4, StandingIs
    <3>2. /\ what = "approved" => row[e].status = "active"
          /\ what = "rejected" => row[e].status = "rejected" \/ e \in released
      BY <2>2, <2>3, <2>4 DEF Agreement, DecisionsAreCurrent, At
    <3>3. Admissions!Tell(e, what)
      BY <1>1, <2>3, <2>6, <3>1, <3>2 DEF Admissions!Tell, Admissions!Out
    <3> QED
      BY <3>3
  <2>5. CASE ~ Settled(e)
    <3>1. Standing(e) \in {"unregistered", "absent"}
      BY <2>5, StandingIs DEF Settled
    <3>2. Admissions!Tell(e, what)
      BY <1>1, <2>3, <2>6, <3>1 DEF Admissions!Tell, Admissions!Out
    <3> QED
      BY <3>2
  <2> QED
    BY <2>4, <2>5
<1> QED
  BY <1>2, <1>3, MailSteps DEF Silent

(* A handler that fails or finds its row deleted lets go of its decision.  *)
LEMMA EndMaps ==
    ASSUME OneAdmin, Typed, \A e \in Emails : Agreement(e), NEW h \in Threads, Ends(h),
           thread[h].pc \in Opening
    PROVE  \E e \in Emails : \E what \in InHand(e) : Admissions!Drop(e, what)
<1>1. Silent
  BY DEF Ends, TakeOverEnd, SignupNotify, ApproveNotify, RejectMail, ThreadFails, RowGone, Insert,
         CreateEnd, At, Opening, Silent, post
<1>2. Others(h) /\ thread'[h].pc = "idle" /\ Quiet
  BY EndDoes
<1>3. Busy(h) /\ thread'[h].pc \notin Opening
  BY <1>2 DEF Busy, Opening
<1>4. PICK e \in Emails : e = thread[h].who
  BY <1>3, Fields DEF Typed
<1>5. /\ thread[h].pc \in InHand(e)
      /\ [d \in Emails |-> InHand(d)]' =
           [[d \in Emails |-> InHand(d)] EXCEPT ![e] = @ \ {thread[h].pc}]
  BY <1>2, <1>3, <1>4, HandLetGo
<1>6. UNCHANGED [d \in Emails |-> Standing(d)] /\ UNCHANGED released
  BY <1>2 DEF Quiet, Standing
<1>7. Admissions!Drop(e, thread[h].pc)
  BY <1>1, <1>5, <1>6 DEF Admissions!Drop, Admissions!Finish, Silent
<1> QED
  BY <1>5, <1>7

LEMMA AdmissionStep ==
    ASSUME OneAdmin, Typed, \A e \in Emails : Approval(e) /\ Agreement(e), Next
    PROVE  [Admissions!Next]_(Admissions!mvars)
<1>0. /\ \A e \in Emails : [d \in Emails |-> InHand(d)][e] = InHand(e)
      /\ \A e \in Emails : \A what : Admissions!Take(e, what) /\ what \in InHand(e) =>
            UNCHANGED Admissions!mvars
  <2>1. ASSUME NEW e \in Emails, NEW what, Admissions!Take(e, what), what \in InHand(e)
        PROVE  UNCHANGED Admissions!mvars
    <3>1. InHand(e) \cup {what} = InHand(e)
      BY <2>1
    <3> QED
      BY <2>1, <3>1 DEF Admissions!Take, Admissions!mvars
  <2> QED
    BY <2>1
<1>1. CASE \E h \in Threads : Ends(h)
  <2>1. PICK h \in Threads : Ends(h)
    BY <1>1
  <2>2. CASE thread[h].pc \in Opening
    BY <1>0, <2>1, <2>2, EndMaps DEF Admissions!Next
  <2>3. CASE thread[h].pc \notin Opening
    <3>1. Quiet /\ SameHands
      BY <2>1, <2>3, EndDoes, HandsStay DEF Opening
    <3> QED
      BY <3>1, MailMaps DEF Admissions!Next
  <2> QED
    BY <2>2, <2>3
<1>2. CASE \E h \in Threads : SignupMail(h) \/ ApproveMail(h)
  <2>1. Quiet /\ SameHands
    BY <1>2, MailDoes, HandsStay DEF At, Opening
  <2> QED
    BY <2>1, MailMaps DEF Admissions!Next
<1>3. CASE \E h \in Threads, e \in Emails : Starts(h, e)
  BY <1>0, <1>3, StartMaps DEF Admissions!Next
<1>4. CASE \/ \E h \in Threads : Insert(h) /\ row' # row
           \/ \E h \in Threads : (GiveRole(h) \/ GiveTag(h)) /\ Exists(thread[h].who)
           \/ \E h \in Threads : CreateEnd(h) /\ Exists(thread[h].who)
           \/ \E e \in Emails : VerifyByAdmin(e)
  <2>1. \A d \in Emails : Stands(d)
    BY <1>4, ReadersLeaveStanding
  <2>2. Silent /\ UNCHANGED released
    BY <1>4, InsertDoes, RoleAndTagDo, CreateEndDoes, VerifyDoes DEF post, Silent
  <2>3. ASSUME \E e \in Emails : VerifyByAdmin(e) PROVE SameHands
    BY <2>3, VerifyDoes DEF SameHands, InHand
  <2>4. ASSUME ~ \E e \in Emails : VerifyByAdmin(e) PROVE SameHands
    <3>1. PICK h \in Threads : /\ Others(h)
                               /\ thread[h].pc \in {"inserting", "inserted", "roled", "tagged"}
                               /\ thread'[h].pc \in {"inserted", "roled", "tagged", "idle"}
      BY <1>4, <2>4, InsertDoes, RoleAndTagDo, CreateEndDoes DEF At, Making
    <3> QED
      BY <3>1, HandsStay DEF Opening
  <2>5. SameHands
    BY <2>3, <2>4
  <2> QED
    BY <2>1, <2>2, <2>5, StandMaps
<1>5. CASE \E h \in Threads : SignupPend(h) /\ Exists(thread[h].who)
  BY <1>5, PendMaps DEF Admissions!Next
<1>6. CASE \E h \in Threads : DecisionCommit(h) /\ Exists(thread[h].who)
  BY <1>0, <1>6, DecisionMaps DEF Admissions!Next
<1>7. CASE \E h \in Threads : ConfirmCommit(h) /\ Exists(thread[h].who)
  BY <1>7, ConfirmMaps DEF Admissions!Next
<1>8. CASE \E e \in Emails : DeleteAccount(e)
  BY <1>8, DeleteMaps DEF Admissions!Next
<1>9. CASE Restart
  BY <1>9, RestartMaps DEF Admissions!Next
<1> QED
  BY <1>1, <1>2, <1>3, <1>4, <1>5, <1>6, <1>7, <1>8, <1>9, Steps

(* For any members, requests, edits and failures: with one deciding        *)
(* administrator the handlers implement the admission (Admission): each    *)
(* decision falls on the account as it was found, although reading and     *)
(* commit are two steps (approve_user, reject_user, update_user,           *)
(* register_user, the start-up code).                                      *)
THEOREM ImplementsAdmission == OneAdmin => (Spec => AdmissionSpec)
<1> SUFFICES ASSUME OneAdmin PROVE Spec => AdmissionSpec
  OBVIOUS
<1>1. Spec => [](Typed /\ Approvals /\ Agreements)
  BY AgreementsHold
<1>2. Init => Admissions!Init
  BY DEF Init, Admissions!Init, Standing, InHand, Opening, Idle
<1>3. Typed /\ Approvals /\ Agreements /\ [Next]_avars
        => [Admissions!Next]_(Admissions!mvars)
  <2>1. ASSUME Typed, Approvals, Agreements, Next
        PROVE  [Admissions!Next]_(Admissions!mvars)
    BY <2>1, ByAddress, AdmissionStep DEF Agreements
  <2>2. ASSUME UNCHANGED avars
        PROVE  UNCHANGED Admissions!mvars
    <3>1. (\A d \in Emails : Stands(d)) /\ Silent /\ SameHands /\ UNCHANGED released
      BY <2>2 DEF avars, Stands, Standing, Silent, SameHands, InHand
    <3> QED
      BY <3>1, StandMaps
  <2> QED
    BY <2>1, <2>2
<1> QED
  BY <1>1, <1>2, <1>3, PTL DEF Spec, AdmissionSpec, Admissions!Spec

-----------------------------------------------------------------------------
(***************************************************************************)
(* A registration is announced.                                            *)
(***************************************************************************)

(* While nothing fails, whoever was put to approval (register_user) has    *)
(* been sent the e-mail that says so, and the administrators were told, or *)
(* the request that does so is still at it.  No deletion of the account,   *)
(* decision or other request comes between.                                *)
PendedAreAnnounced ==
    faults = 0 =>
        \A e \in pended :
            /\ lastMail[e] # "none" \/ \E h \in Threads : At(h, "pended") /\ thread[h].who = e
            /\ \/ adminTold[e]
               \/ \E h \in Threads : thread[h].pc \in {"pended", "mailed"} /\ thread[h].who = e

(* The step of a request that was not announcing anything.                 *)
LEMMA NoneLost ==
    ASSUME TypeOK, PendedAreAnnounced, NEW h \in Threads, Others(h),
           thread[h].pc \notin {"pended", "mailed"},
           faults' = 0 => /\ faults = 0
                          /\ \A e \in Emails :
                                lastMail'[e] \in {lastMail[e], "pending", "approved", "rejected"},
           UNCHANGED <<pended, adminTold>>
    PROVE  PendedAreAnnounced'
<1> SUFFICES ASSUME faults' = 0, NEW e \in pended
             PROVE  /\ \/ lastMail'[e] # "none"
                       \/ \E g \in Threads : thread'[g].pc = "pended" /\ thread'[g].who = e
                    /\ \/ adminTold[e]
                       \/ \E g \in Threads : /\ thread'[g].pc \in {"pended", "mailed"}
                                             /\ thread'[g].who = e
  BY DEF PendedAreAnnounced, At
<1>1. e \in Emails /\ faults = 0
  BY DEF TypeOK
<1>2. lastMail[e] # "none" => lastMail'[e] # "none"
  BY <1>1
<1>3. \A g \in Threads : thread[g].pc \in {"pended", "mailed"} => thread'[g] = thread[g]
  BY DEF Others
<1>4. lastMail[e] # "none" \/ \E g \in Threads : thread[g].pc = "pended" /\ thread[g].who = e
  BY <1>1 DEF PendedAreAnnounced, At
<1>5. adminTold[e] \/ \E g \in Threads : thread[g].pc \in {"pended", "mailed"} /\ thread[g].who = e
  BY <1>1 DEF PendedAreAnnounced, At
<1> QED
  BY <1>2, <1>3, <1>4, <1>5

(* What a request that creates an account keeps from step to step.         *)
LEMMA SameRequest ==
    ASSUME TypeOK, NEW h \in Threads, NEW to, thread[h].pc \in Creating, Move(h, to) \/ Go(h, to)
    PROVE  /\ thread'[h].pc = to /\ thread'[h].kind = thread[h].kind
           /\ thread'[h].who = thread[h].who
           /\ Others(h)
<1>1. thread[h] \in [pc: Creating, kind: Kind, who: Emails, seen: Row \cup {Absent}]
  BY DEF TypeOK, ThreadState, Idle, Creating, Deciding, Confirming
<1>2. PICK t : /\ t = thread[h]
               /\ t \in [pc: Creating, kind: Kind, who: Emails, seen: Row \cup {Absent}]
  BY <1>1
<1>3. CASE Move(h, to)
  <2>1. PICK r : r = row'[thread[h].who]
    OBVIOUS
  <2>2. thread' = [thread EXCEPT ![h] = [t EXCEPT !.pc = to, !.seen = r]]
    BY <1>2, <1>3, <2>1 DEF Move, TypeOK
  <2> QED
    BY <1>2, <2>2 DEF TypeOK, Others
<1>4. CASE Go(h, to)
  <2>1. thread' = [thread EXCEPT ![h] = [t EXCEPT !.pc = to]]
    BY <1>2, <1>4 DEF Go, TypeOK
  <2> QED
    BY <1>2, <2>1 DEF TypeOK, Others
<1> QED
  BY <1>3, <1>4

LEMMA FaultShows == TypeOK /\ Fault => faults' > faults /\ faults' # 0
  BY FaultsAssumption DEF TypeOK, Fault

LEMMA AnnouncedStep == Typed /\ PendedAreAnnounced /\ [Next]_avars => PendedAreAnnounced'
<1> SUFFICES ASSUME Typed, PendedAreAnnounced, [Next]_avars PROVE PendedAreAnnounced'
  OBVIOUS
<1>0. TypeOK
  BY DEF Typed
<1> DEFINE Kept(e) == /\ lastMail'[e] # "none"
                         \/ \E h \in Threads : At(h, "pended")' /\ thread'[h].who = e
                      /\ \/ adminTold'[e]
                         \/ \E h \in Threads : thread'[h].pc \in {"pended", "mailed"}
                                               /\ thread'[h].who = e
<1>a. (faults' = 0 => \A e \in pended' : Kept(e)) => PendedAreAnnounced'
  BY DEF PendedAreAnnounced, At
<1>1. CASE \/ UNCHANGED avars \/ \E e \in Emails : VerifyByAdmin(e) \/ DeleteAccount(e)
  <2>1. UNCHANGED <<thread, lastMail, adminTold, pended, faults>>
    BY <1>1 DEF avars, VerifyByAdmin, DeleteAccount, post, history
  <2> QED
    BY <2>1 DEF PendedAreAnnounced, At
<1>2. CASE Restart \/ \E h \in Threads : ThreadFails(h)
  BY <1>0, <1>2, <1>a, FaultShows DEF Restart, ThreadFails
<1>3. CASE \E h \in Threads, e \in Emails : Starts(h, e)
  <2>1. PICK h \in Threads, e \in Emails : Starts(h, e)
    BY <1>3
  <2>2. Others(h) /\ ~ Busy(h) /\ UNCHANGED <<post, pended, faults>>
    BY <2>1, StartDoes
  <2> QED
    BY <1>0, <2>2, NoneLost DEF post, Busy
<1>4. ASSUME NEW h \in Threads, Runs(h) PROVE PendedAreAnnounced'
  <2>1. CASE SignupMail(h)
    <3>1. PICK w : w = thread[h].who
      OBVIOUS
    <3>2. /\ At(h, "pended") /\ Go(h, "mailed") /\ UNCHANGED <<adminTold, pended>>
          /\ \/ lastMail' = [lastMail EXCEPT ![w] = "pending"] /\ UNCHANGED faults
             \/ Fault
      BY <2>1, <3>1 DEF SignupMail, Mail, history
    <3>3. thread'[h].pc = "mailed" /\ thread'[h].who = w /\ Others(h)
      BY <1>0, <3>1, <3>2, SameRequest DEF At, Creating
    <3>4. ASSUME faults' = 0, NEW e \in pended PROVE Kept(e)
      <4>1. faults = 0 /\ lastMail' = [lastMail EXCEPT ![w] = "pending"] /\ e \in Emails
        BY <1>0, <3>2, <3>4, FaultShows DEF TypeOK
      <4>2. CASE e = w
        <5>1. lastMail'[e] = "pending"
          BY <1>0, <4>1, <4>2 DEF TypeOK
        <5> QED
          BY <3>3, <4>2, <5>1
      <4>3. CASE e # w
        <5>1. lastMail'[e] = lastMail[e] /\ thread[h].who # e
          BY <1>0, <3>1, <4>1, <4>3 DEF TypeOK
        <5>2. \A g \in Threads : thread[g].who = e => thread'[g] = thread[g]
          BY <3>3, <5>1 DEF Others
        <5> QED
          BY <3>2, <4>1, <5>1, <5>2 DEF PendedAreAnnounced, At
      <4> QED
        BY <4>2, <4>3
    <3> QED
      BY <1>a, <3>2, <3>4
  <2>2. CASE SignupNotify(h)
    <3>1. PICK w : w = thread[h].who
      OBVIOUS
    <3>2. /\ At(h, "mailed") /\ Stop(h) /\ UNCHANGED <<lastMail, pended, faults>>
          /\ adminTold' = [adminTold EXCEPT ![w] = TRUE]
      BY <2>2, <3>1 DEF SignupNotify, history
    <3>3. Others(h)
      BY <1>0, <3>2, Stopped DEF Others
    <3>4. ASSUME faults' = 0, NEW e \in pended PROVE Kept(e)
      <4>1. faults = 0 /\ e \in Emails
        BY <1>0, <3>2, <3>4 DEF TypeOK
      <4>2. \A g \in Threads : thread[g].pc = "pended" => thread'[g] = thread[g]
        BY <3>2, <3>3 DEF Others, At
      <4>3. CASE e = w
        <5>1. adminTold'[e] = TRUE
          BY <1>0, <3>2, <4>1, <4>3 DEF TypeOK
        <5> QED
          BY <3>2, <4>1, <4>2, <5>1 DEF PendedAreAnnounced, At
      <4>4. CASE e # w
        <5>1. adminTold'[e] = adminTold[e] /\ thread[h].who # e
          BY <1>0, <3>1, <3>2, <4>1, <4>4 DEF TypeOK
        <5>2. \A g \in Threads : thread[g].who = e => thread'[g] = thread[g]
          BY <3>3, <5>1 DEF Others
        <5> QED
          BY <3>2, <4>1, <4>2, <5>1, <5>2 DEF PendedAreAnnounced, At
      <4> QED
        BY <4>3, <4>4
    <3> QED
      BY <1>a, <3>2, <3>4
  <2>3. CASE SignupPend(h) /\ Exists(thread[h].who)
    <3>1. PICK w : w = thread[h].who
      OBVIOUS
    <3>2. /\ Others(h) /\ At(h, "tagged") /\ thread'[h].who = w /\ thread'[h].pc = "pended"
          /\ pended' = pended \cup {w} /\ UNCHANGED <<post, faults>>
      BY <2>3, <3>1, PendDoes
    <3>3. \A g \in Threads : thread[g].pc \in {"pended", "mailed"} => thread'[g] = thread[g]
      BY <3>2 DEF Others, At
    <3>4. ASSUME faults' = 0, NEW e \in pended' PROVE Kept(e)
      <4>1. CASE e = w
        BY <3>2, <4>1 DEF At
      <4>2. CASE e # w
        BY <3>2, <3>3, <3>4, <4>2 DEF PendedAreAnnounced, post, At
      <4> QED
        BY <4>1, <4>2
    <3> QED
      BY <1>a, <3>4
  <2>4. CASE ApproveMail(h) \/ RejectMail(h)
    <3>1. /\ thread[h].pc \in {"approved", "rejected"} /\ UNCHANGED <<pended, adminTold>>
          /\ \E what \in {"approved", "rejected"} : Mail(thread[h].who, what)
          /\ Go(h, "approval_mailed") \/ Stop(h)
      BY <2>4 DEF ApproveMail, RejectMail, At, history
    <3>2. Others(h)
      BY <1>0, <3>1 DEF Go, Stop, TypeOK, Others
    <3>3. faults' = 0 => /\ faults = 0
                         /\ \A e \in Emails :
                               lastMail'[e] \in {lastMail[e], "pending", "approved", "rejected"}
      BY <1>0, <3>1, FaultShows DEF Mail, TypeOK
    <3> QED
      BY <1>0, <3>1, <3>2, <3>3, NoneLost
  <2>5. CASE Ends(h) /\ ~ (SignupNotify(h) \/ RejectMail(h) \/ ThreadFails(h))
    <3>1. /\ thread[h].pc \notin {"pended", "mailed"} /\ UNCHANGED <<lastMail, adminTold>>
          /\ faults' = 0 => faults = 0
      BY <1>0, <2>5, FaultShows DEF Ends, TakeOverEnd, ApproveNotify, RowGone, Insert,
         CreateEnd, At, post, Making, Opening, Confirming
    <3> QED
      BY <1>0, <2>5, <3>1, EndDoes, NoneLost DEF Quiet
  <2>6. CASE \/ Insert(h) /\ row' # row
             \/ (GiveRole(h) \/ GiveTag(h)) /\ Exists(thread[h].who)
    <3>1. /\ thread[h].pc \in Creating \ {"pended", "mailed"}
          /\ \E to : Move(h, to)
          /\ UNCHANGED <<post, pended>> /\ (faults' = 0 => faults = 0)
      BY <1>0, <2>6, FaultShows DEF Insert, GiveRole, GiveTag, RowGone, At, history, Creating
    <3> QED
      BY <1>0, <3>1, SameRequest, NoneLost DEF post
  <2>7. CASE /\ CreateEnd(h) \/ DecisionCommit(h) \/ ConfirmCommit(h)
             /\ Exists(thread[h].who)
    <3>1. /\ thread[h].pc \notin {"pended", "mailed"} /\ Others(h)
          /\ UNCHANGED <<post, pended, faults>>
      BY <2>7, CreateEndDoes, DecisionDoes, ConfirmDoes DEF At, Opening, Confirming
    <3> QED
      BY <1>0, <3>1, NoneLost DEF post
  <2> QED
    BY <1>2, <1>4, <2>1, <2>2, <2>3, <2>4, <2>5, <2>6, <2>7 DEF Runs, Ends, DecisionCommit,
       GiveRole, GiveTag, SignupPend, ApproveCommit, RejectCommit, EditCommit,
       ConfirmCommit, Making, Opening, Confirming
<1> QED
  BY <1>1, <1>2, <1>3, <1>4 DEF Next

THEOREM RegistrationsAreAnnounced == Spec => []PendedAreAnnounced
<1>1. Init => PendedAreAnnounced
  BY DEF Init, PendedAreAnnounced
<1>2. Spec => []Typed
  BY TypeInit, TypeStep, PTL DEF Spec
<1> QED
  BY <1>1, <1>2, AnnouncedStep, PTL DEF Spec

(* How a sign-up goes on once its row is there: by its role, its           *)
(* membership id, the row put to approval, the e-mail, and the             *)
(* administrators' notices, each in its turn.                              *)
SigningUp(h) == thread[h].pc \in Creating \ {"inserting"} /\ thread[h].kind = "signup"

Follows(h) ==
    /\ <<thread[h].pc, thread'[h].pc>> \in
          {<<"inserted", "roled">>, <<"roled", "tagged">>, <<"tagged", "pended">>,
           <<"pended", "mailed">>}
    /\ thread'[h].kind = "signup" /\ thread'[h].who = thread[h].who

(* A sign-up that is under way goes on in this order, whatever other       *)
(* requests do to its row, until the administrators are told; it ends      *)
(* earlier only if its account was deleted or something failed. With the   *)
(* fairness of FairSpec, this is what makes RegistrationIsAnnounced true.  *)
SignUpGoesOn ==
    [][\A h \in Threads : SigningUp(h) =>
          \/ thread'[h] = thread[h]
          \/ Follows(h)
          \/ At(h, "mailed") /\ adminTold'[thread[h].who]
          \/ thread[h].who \in gone
          \/ faults' > faults]_avars

(* A request moves no request but itself.                                  *)
LEMMA RunsAlone ==
    ASSUME TypeOK, NEW g \in Threads, Runs(g)
    PROVE  Others(g)
<1>1. Stop(g) \/ \E to : Move(g, to) \/ Go(g, to)
  <2>1. CASE \/ Insert(g) \/ GiveRole(g) \/ GiveTag(g) \/ SignupPend(g) \/ CreateEnd(g)
             \/ SignupMail(g) \/ SignupNotify(g) \/ TakeOverEnd(g)
    BY <2>1 DEF Insert, GiveRole, GiveTag, SignupPend, CreateEnd, SignupMail, SignupNotify,
       TakeOverEnd, RowGone
  <2>2. CASE \/ ApproveCommit(g) \/ ApproveMail(g) \/ ApproveNotify(g)
             \/ RejectCommit(g) \/ RejectMail(g) \/ EditCommit(g) \/ ConfirmCommit(g)
    BY <2>2 DEF ApproveCommit, ApproveMail, ApproveNotify, RejectCommit, RejectMail, EditCommit,
       ConfirmCommit, RowGone
  <2> QED
    BY <2>1, <2>2 DEF Runs
<1> QED
  BY <1>1 DEF Stop, Move, Go, TypeOK, Others

(* Its own steps.                                                          *)
LEMMA SignUpStep ==
    ASSUME Typed, Approvals, NEW h \in Threads, SigningUp(h), Runs(h)
    PROVE  \/ Follows(h)
           \/ At(h, "mailed") /\ adminTold'[thread[h].who]
           \/ thread[h].who \in gone
           \/ faults' > faults
<1>0. TypeOK /\ thread[h].pc \in Creating /\ Busy(h)
  BY DEF Typed, SigningUp, Creating, Busy
<1>1. PICK w \in Emails : w = thread[h].who
  BY <1>0, Fields
<1>2. \A pc \in Making : RowGone(h, pc) => w \in gone
  BY <1>1 DEF RowGone, At, Making, Approvals, MadeAsActive, BeingMade
<1>3. ~ (\/ Insert(h) \/ CreateEnd(h) \/ TakeOverEnd(h) \/ ApproveCommit(h) \/ ApproveMail(h)
         \/ ApproveNotify(h) \/ RejectCommit(h) \/ RejectMail(h) \/ EditCommit(h)
         \/ ConfirmCommit(h))
  BY DEF SigningUp, Creating, Confirming, Insert, CreateEnd, TakeOverEnd, ApproveCommit,
         ApproveMail, ApproveNotify, RejectCommit, RejectMail, EditCommit, ConfirmCommit,
         RowGone, At
<1>4. CASE GiveRole(h)
  <2>1. CASE At(h, "inserted") /\ Move(h, "roled")
    BY <1>0, <2>1, SameRequest DEF Follows, SigningUp, At
  <2> QED
    BY <1>1, <1>2, <1>4, <2>1 DEF GiveRole, Making
<1>5. CASE GiveTag(h)
  <2>1. CASE At(h, "roled") /\ Move(h, "tagged")
    BY <1>0, <2>1, SameRequest DEF Follows, SigningUp, At
  <2> QED
    BY <1>1, <1>2, <1>5, <2>1 DEF GiveTag, Making
<1>6. CASE SignupPend(h)
  <2>1. CASE At(h, "tagged") /\ Move(h, "pended")
    BY <1>0, <2>1, SameRequest DEF Follows, SigningUp, At
  <2> QED
    BY <1>1, <1>2, <1>6, <2>1 DEF SignupPend, Making
<1>7. CASE SignupMail(h)
  <2>1. At(h, "pended") /\ Go(h, "mailed")
    BY <1>7 DEF SignupMail
  <2> QED
    BY <1>0, <2>1, SameRequest DEF Follows, SigningUp, At
<1>8. CASE SignupNotify(h)
  <2>1. At(h, "mailed") /\ adminTold' = [adminTold EXCEPT ![w] = TRUE]
    BY <1>1, <1>8 DEF SignupNotify
  <2>2. adminTold'[w] = TRUE
    BY <1>0, <2>1 DEF TypeOK
  <2> QED
    BY <1>1, <2>1, <2>2
<1> HIDE DEF Creating, Making
<1>9. GiveRole(h) \/ GiveTag(h) \/ SignupPend(h) \/ SignupMail(h) \/ SignupNotify(h)
  BY <1>3 DEF Runs
<1> QED
  BY <1>4, <1>5, <1>6, <1>7, <1>8, <1>9

THEOREM SignUpsGoOn == Spec => SignUpGoesOn
<1> DEFINE GoesOn == \A h \in Threads : SigningUp(h) =>
                        \/ thread'[h] = thread[h]
                        \/ Follows(h)
                        \/ At(h, "mailed") /\ adminTold'[thread[h].who]
                        \/ thread[h].who \in gone
                        \/ faults' > faults
<1>1. Typed /\ Approvals /\ [Next]_avars => [GoesOn]_avars
  <2> SUFFICES ASSUME Typed, Approvals, Next, NEW h \in Threads, SigningUp(h)
               PROVE  \/ thread'[h] = thread[h]
                      \/ Follows(h)
                      \/ At(h, "mailed") /\ adminTold'[thread[h].who]
                      \/ thread[h].who \in gone
                      \/ faults' > faults
    OBVIOUS
  <2>0. TypeOK
    BY DEF Typed
  <2>1. CASE \E g \in Threads, e \in Emails : Starts(g, e)
    <3>1. PICK g \in Threads : Others(g) /\ ~ Busy(g)
      BY <2>1, StartDoes
    <3>2. Busy(h)
      BY DEF SigningUp, Creating, Busy
    <3> QED
      BY <3>1, <3>2 DEF Others
  <2>2. CASE Restart \/ \E g \in Threads : ThreadFails(g)
    BY <2>0, <2>2, FaultShows DEF Restart, ThreadFails
  <2>3. CASE \E e \in Emails : VerifyByAdmin(e) \/ DeleteAccount(e)
    BY <2>3 DEF VerifyByAdmin, DeleteAccount
  <2>4. CASE \E g \in Threads : Runs(g)
    <3>1. PICK g \in Threads : Runs(g)
      BY <2>4
    <3>2. CASE g = h
      BY <3>1, <3>2, SignUpStep
    <3>3. CASE g # h
      BY <2>0, <3>1, <3>3, RunsAlone DEF Others
    <3> QED
      BY <3>2, <3>3
  <2> QED
    BY <2>1, <2>2, <2>3, <2>4 DEF Next
<1>2. Spec => [](Typed /\ Approvals)
  BY TypeInit, TypeStep, ApprovalsInit, ApprovalsStep, PTL DEF Spec
<1> QED
  BY <1>1, <1>2, PTL DEF Spec, SignUpGoesOn
=============================================================================
