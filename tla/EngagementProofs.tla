-------------------------- MODULE EngagementProofs --------------------------
(***************************************************************************)
(* The registration counter, for every number of members, requests,        *)
(* capacities and seats. It keeps its promises inside the composition: the *)
(* announcements next to it, and the deletions they share, only make steps *)
(* that Events allows. The views of announcements keep theirs too.         *)
(***************************************************************************)
EXTENDS Engagement, TLAPS, FiniteSetTheorems

(* What a registration in flight knows.  The row it read may be stale, but *)
(* as long as no organiser rewrote the numbers it passed the capacity      *)
(* check against the capacity that still holds and it read no more seats   *)
(* than were booked.                                                       *)
SeenIsBounded ==
    \A h \in Threads : At(h, "booking") /\ Held /\ ~edited =>
        /\ thread[h].seen.capacity = event.capacity
        /\ thread[h].seen.total + thread[h].seats <= event.capacity
        /\ Seats \subseteq Nat => thread[h].seen.total <= booked

(* Without an overlap it is the only one and what it read is still so.     *)
SeenIsFresh ==
    \A h \in Threads : At(h, "booking") /\ Held /\ ~edited /\ ~overlapped =>
        /\ thread[h].seen.total = event.total
        /\ regs[thread[h].who] = 0
        /\ \A o \in Threads : At(o, "booking") => o = h

Books ==
    /\ TypeOK
    /\ SequentialIsExact
    /\ CounterNeverAhead
    /\ NoOrphanRegistration
    /\ SeenIsBounded
    /\ SeenIsFresh

(* An UPDATE leaves a row, and a column that was not changed as it was.    *)
LEMMA WriteRow ==
    ASSUME NEW seen \in EventRow, NEW new \in EventRow, event \in EventRow,
           Write(seen, new)
    PROVE  /\ event' \in EventRow
           /\ event'.status \in {"upcoming", "past"}
           /\ event'.capacity = IF new.capacity # seen.capacity THEN new.capacity
                                                                 ELSE event.capacity
           /\ event'.total = IF new.total # seen.total THEN new.total ELSE event.total
  BY DEF Write, EventRow, Column

(* A row is not the value that stands for none.                            *)
LEMMA RowIsHeld == NoEvent \notin EventRow
  BY DEF NoEvent, EventRow

LEMMA InitBooks == Init => Books
  <1> SUFFICES ASSUME Init PROVE Books
    OBVIOUS
  <1>0. event \in EventRow /\ event.total = 0 /\ event.capacity \in Nat
    <2>1. PICK c \in Capacities : event = [status |-> "upcoming", capacity |-> c, total |-> 0]
      BY DEF Init
    <2>2. c \in Nat
      BY CapacitiesAssumption DEF CapacitiesAssumption
    <2> QED
      BY <2>1, <2>2 DEF EventRow
  <1>1. TypeOK
    <2>1. thread \in [Threads -> ThreadState]
      BY DEF Init, ThreadState
    <2>2. regs \in [Members -> Nat] /\ booked \in Int
      BY DEF Init
    <2>3. overlapped \in BOOLEAN /\ edited \in BOOLEAN /\ members \subseteq Members
      BY Zenon DEF Init
    <2> QED
      BY <1>0, <2>1, <2>2, <2>3, Zenon DEF TypeOK
  <1>2. \A h \in Threads : ~At(h, "booking")
    BY DEF Init, At, Idle
  <1> QED
    BY <1>0, <1>1, <1>2 DEF Init, Books, SequentialIsExact, CounterNeverAhead,
        NoOrphanRegistration, SeenIsBounded, SeenIsFresh

-----------------------------------------------------------------------------
(* One lemma per action.                                                   *)

LEMMA HeldRow == TypeOK /\ Held => event \in EventRow
  BY DEF TypeOK, Held

LEMMA InFlight ==
    ASSUME TypeOK, NEW h \in Threads
    PROVE  /\ At(h, "booking") => /\ thread[h].who \in Members
                                 /\ thread[h].seats \in Seats
                                 /\ thread[h].seats \in Int
                                 /\ thread[h].seen \in EventRow
           /\ At(h, "editing") => /\ thread[h].new \in EventRow
                                 /\ thread[h].seen \in EventRow
  <1>1. thread[h] \in ThreadState
    BY DEF TypeOK
  <1>2. CASE thread[h] = Idle
    BY <1>2 DEF Idle, At
  <1>3. CASE thread[h] \in [pc: {"booking"}, who: Members, seats: Seats, seen: EventRow]
    BY <1>3, SeatsAssumption DEF At, SeatsAssumption
  <1>4. CASE thread[h] \in [pc: {"editing"}, new: EventRow, seen: EventRow]
    BY <1>4 DEF At
  <1> QED
    BY <1>1, <1>2, <1>3, <1>4 DEF ThreadState

LEMMA RegisterReadBooks ==
    ASSUME Books, NEW h \in Threads, NEW m \in members, NEW n \in Seats,
           RegisterRead(h, m, n)
    PROVE  Books'
  <1> USE DEF RegisterRead, Books
  <1>1. event \in EventRow /\ m \in Members /\ n \in Int
    BY HeldRow, SeatsAssumption DEF TypeOK, SeatsAssumption
  <1>2. TypeOK'
    BY <1>1 DEF TypeOK, ThreadState
  <1>3. thread'[h] = [pc |-> "booking", who |-> m, seats |-> n, seen |-> event]
    BY DEF TypeOK
  <1>4. \A o \in Threads : o # h => thread'[o] = thread[o]
    BY DEF TypeOK
  <1>5. SeenIsBounded'
    BY <1>1, <1>3, <1>4 DEF SeenIsBounded, MayBook, CounterNeverAhead, At, Held,
        EventRow
  <1>6. SeenIsFresh'
    <2> SUFFICES ASSUME ~overlapped', ~edited, Held,
                        NEW o \in Threads, At(o, "booking")'
                 PROVE  /\ thread'[o].seen.total = event.total
                        /\ regs[thread'[o].who] = 0
                        /\ \A q \in Threads : At(q, "booking")' => q = o
      BY DEF SeenIsFresh, Held
    <2>1. \A q \in Threads : q # h => ~At(q, "booking")'
      BY <1>4 DEF At, TypeOK
    <2> QED
      BY <2>1, <1>3 DEF MayBook
  <1>7. /\ SequentialIsExact'
        /\ CounterNeverAhead'
        /\ NoOrphanRegistration'
    BY DEF SequentialIsExact, CounterNeverAhead, NoOrphanRegistration, Held, TypeOK
  <1> QED
    BY <1>2, <1>5, <1>6, <1>7

LEMMA RegisterCommitBooks ==
    ASSUME Books, NEW h \in Threads, RegisterCommit(h)
    PROVE  Books'
  <1> USE DEF Books
  <1> DEFINE t == thread[h]
             new == [t.seen EXCEPT !.total = @ + t.seats]
  <1>1. /\ At(h, "booking")
        /\ thread' = [thread EXCEPT ![h] = Idle]
        /\ UNCHANGED <<members, overlapped, edited>>
    BY DEF RegisterCommit, Stop
  <1>2. /\ t.who \in Members /\ t.seats \in Seats /\ t.seats \in Int
        /\ t.seen \in EventRow
    BY <1>1, InFlight
  <1>3. /\ new \in EventRow
        /\ new.total = t.seen.total + t.seats
        /\ new.capacity = t.seen.capacity
        /\ t.seen.total \in Int
    BY <1>2 DEF EventRow
  <1>4. \A o \in Threads : /\ o = h => thread'[o] = Idle
                           /\ o # h => thread'[o] = thread[o]
    BY <1>1 DEF TypeOK
  <1>5. \A o \in Threads : At(o, "booking")' => o # h /\ At(o, "booking")
    BY <1>4 DEF At, Idle
  <1>6. CASE /\ Held /\ t.who \in members
             /\ Write(t.seen, new)
             /\ regs' = [regs EXCEPT ![t.who] = @ + 1]
             /\ booked' = booked + t.seats
    <2>1. event \in EventRow
      BY <1>6, HeldRow
    <2>2. /\ event' \in EventRow
          /\ event'.capacity = event.capacity
          /\ event'.total = IF t.seats # 0 THEN t.seen.total + t.seats ELSE event.total
          /\ Held'
      <3>1. /\ event' \in EventRow
            /\ event'.capacity = event.capacity
            /\ event'.total = IF new.total # t.seen.total THEN new.total ELSE event.total
        BY <1>6, <2>1, <1>2, <1>3, WriteRow
      <3> QED
        BY <3>1, <1>2, <1>3, RowIsHeld DEF Held
    <2>3. TypeOK'
      BY <1>1, <1>2, <1>6, <2>2 DEF TypeOK, ThreadState
    <2>4. CounterNeverAhead'
      BY <1>1, <1>2, <1>3, <1>6, <2>1, <2>2
         DEF CounterNeverAhead, SeenIsBounded, Held, EventRow, TypeOK
    <2>5. SequentialIsExact'
      <3> SUFFICES ASSUME ~overlapped, ~edited
                   PROVE  /\ event'.total = booked'
                          /\ booked' <= event'.capacity
                          /\ \A m \in Members : regs'[m] <= 1
        BY <1>1 DEF SequentialIsExact
      <3>1. t.seen.total = event.total /\ regs[t.who] = 0
        BY <1>1, <1>6 DEF SeenIsFresh
      <3>2. event.total = booked /\ \A m \in Members : regs[m] <= 1
        BY <1>6 DEF SequentialIsExact
      <3>3. t.seen.total + t.seats <= event.capacity
        BY <1>1, <1>6 DEF SeenIsBounded
      <3>4. event'.total = booked'
        BY <1>2, <1>3, <1>6, <2>2, <3>1, <3>2 DEF TypeOK
      <3>5. booked' <= event'.capacity
        BY <1>6, <2>2, <3>1, <3>2, <3>3
      <3>6. \A m \in Members : regs'[m] <= 1
        BY <1>2, <1>6, <3>1, <3>2 DEF TypeOK
      <3> QED
        BY <3>4, <3>5, <3>6
    <2>6. NoOrphanRegistration'
      BY <1>1, <1>2, <1>6, <2>2 DEF NoOrphanRegistration, TypeOK
    <2>7. SeenIsBounded'
      BY <1>1, <1>2, <1>4, <1>5, <1>6, <2>2, InFlight
         DEF SeenIsBounded, Held, EventRow, TypeOK
    <2>8. SeenIsFresh'
      BY <1>1, <1>5, <1>6 DEF SeenIsFresh, Held
    <2> QED
      BY <2>3, <2>4, <2>5, <2>6, <2>7, <2>8
  <1>7. CASE UNCHANGED <<event, regs, booked>>
    <2>1. TypeOK'
      BY <1>1, <1>7 DEF TypeOK, ThreadState
    <2>2. /\ SequentialIsExact'
          /\ CounterNeverAhead'
          /\ NoOrphanRegistration'
      BY <1>1, <1>7 DEF SequentialIsExact, CounterNeverAhead, NoOrphanRegistration, Held
    <2>3. SeenIsBounded' /\ SeenIsFresh'
      BY <1>1, <1>4, <1>5, <1>7 DEF SeenIsBounded, SeenIsFresh, Held
    <2> QED
      BY <2>1, <2>2, <2>3
  <1> QED
    BY <1>6, <1>7 DEF RegisterCommit

LEMMA UpdateReadBooks ==
    ASSUME Books, NEW h \in Threads, Held, NEW new \in Wanted, UpdateRead(h, new)
    PROVE  Books'
  <1> USE DEF Books, UpdateRead
  <1>1. event \in EventRow
    BY HeldRow
  <1>2. new \in EventRow
    BY <1>1, CapacitiesAssumption DEF Wanted, EventRow, CapacitiesAssumption
  <1>3. TypeOK'
    BY <1>1, <1>2 DEF TypeOK, ThreadState
  <1>4. \A o \in Threads : At(o, "booking")' => At(o, "booking") /\ thread'[o] = thread[o]
    BY DEF At, TypeOK
  <1>5. SeenIsBounded' /\ SeenIsFresh'
    BY <1>4 DEF SeenIsBounded, SeenIsFresh, Held
  <1>6. /\ SequentialIsExact'
        /\ CounterNeverAhead'
        /\ NoOrphanRegistration'
    BY DEF SequentialIsExact, CounterNeverAhead, NoOrphanRegistration, Held
  <1> QED
    BY <1>3, <1>5, <1>6

LEMMA UpdateCommitBooks ==
    ASSUME Books, NEW h \in Threads, UpdateCommit(h)
    PROVE  Books'
  <1> USE DEF Books
  <1> DEFINE t == thread[h]
  <1>1. /\ At(h, "editing")
        /\ thread' = [thread EXCEPT ![h] = Idle]
        /\ UNCHANGED <<members, regs, booked, overlapped>>
    BY DEF UpdateCommit, Stop
  <1>2. t.new \in EventRow /\ t.seen \in EventRow
    BY <1>1, InFlight
  <1>3. \A o \in Threads : At(o, "booking")' => At(o, "booking") /\ thread'[o] = thread[o]
    BY <1>1 DEF At, Idle, TypeOK
  <1>4. CASE /\ Held
             /\ Write(t.seen, t.new)
             /\ edited' = (edited \/ t.new.total # t.seen.total
                                  \/ t.new.capacity # t.seen.capacity)
    <2>1. event \in EventRow
      BY <1>4, HeldRow
    <2>2. /\ event' \in EventRow
          /\ Held'
          /\ ~edited' => /\ ~edited
                         /\ event'.capacity = event.capacity
                         /\ event'.total = event.total
      BY <1>2, <1>4, <2>1, WriteRow, RowIsHeld DEF Held
    <2>3. TypeOK'
      BY <1>1, <1>4, <2>2 DEF TypeOK, ThreadState
    <2>4. /\ SequentialIsExact'
          /\ CounterNeverAhead'
          /\ NoOrphanRegistration'
      BY <1>1, <1>4, <2>2 DEF SequentialIsExact, CounterNeverAhead, NoOrphanRegistration
    <2>5. SeenIsBounded' /\ SeenIsFresh'
      BY <1>1, <1>3, <1>4, <2>2 DEF SeenIsBounded, SeenIsFresh
    <2> QED
      BY <2>3, <2>4, <2>5
  <1>5. CASE UNCHANGED <<event, edited>>
    <2>1. TypeOK'
      BY <1>1, <1>5 DEF TypeOK, ThreadState
    <2>2. /\ SequentialIsExact'
          /\ CounterNeverAhead'
          /\ NoOrphanRegistration'
      BY <1>1, <1>5 DEF SequentialIsExact, CounterNeverAhead, NoOrphanRegistration, Held
    <2>3. SeenIsBounded' /\ SeenIsFresh'
      BY <1>1, <1>3, <1>5 DEF SeenIsBounded, SeenIsFresh, Held
    <2> QED
      BY <2>1, <2>2, <2>3
  <1> QED
    BY <1>4, <1>5 DEF UpdateCommit

LEMMA ThreadFailsBooks ==
    ASSUME Books, NEW h \in Threads, ThreadFails(h)
    PROVE  Books'
  <1> USE DEF Books, ThreadFails, Stop
  <1>1. TypeOK'
    BY DEF TypeOK, ThreadState
  <1>2. \A o \in Threads : At(o, "booking")' => At(o, "booking") /\ thread'[o] = thread[o]
    BY DEF At, Idle, TypeOK
  <1>3. SeenIsBounded' /\ SeenIsFresh'
    BY <1>2 DEF SeenIsBounded, SeenIsFresh, Held
  <1> QED
    BY <1>1, <1>3 DEF SequentialIsExact, CounterNeverAhead, NoOrphanRegistration, Held

(* Without the event nothing is promised of the counter.                   *)
LEMMA EventGoneBooks ==
    ASSUME Books, EventGone, members' \subseteq members, UNCHANGED thread
    PROVE  Books'
  <1> USE DEF Books, EventGone
  <1>1. TypeOK' /\ ~Held'
    <2>1. regs' \in [Members -> Nat] /\ booked' \in Int
      OBVIOUS
    <2>2. overlapped' \in BOOLEAN /\ edited' \in BOOLEAN
      BY Zenon
    <2>3. members' \subseteq Members /\ thread' \in [Threads -> ThreadState']
      BY DEF TypeOK, ThreadState
    <2>4. event' \in EventRow' \cup {NoEvent'} /\ ~Held'
      BY Zenon DEF Held, NoEvent
    <2> QED
      BY <2>1, <2>2, <2>3, <2>4, Zenon DEF TypeOK
  <1>2. \A m \in Members : regs'[m] = 0
    OBVIOUS
  <1> QED
    BY <1>1, <1>2 DEF SequentialIsExact, CounterNeverAhead, NoOrphanRegistration,
        SeenIsBounded, SeenIsFresh

LEMMA DeleteMemberBooks ==
    ASSUME Books, NEW m \in members, DeleteMember(m)
    PROVE  Books'
  <1> USE DEF Books
  <1>1. members' = members \ {m} /\ UNCHANGED thread
    BY DEF DeleteMember
  <1>2. CASE EventGone
    BY <1>1, <1>2, EventGoneBooks
  <1>3. CASE /\ regs' = [regs EXCEPT ![m] = 0]
             /\ UNCHANGED <<event, booked, overlapped, edited>>
    <2>1. TypeOK'
      BY <1>1, <1>3 DEF TypeOK, ThreadState
    <2>2. \A q \in Members : regs'[q] = IF q = m THEN 0 ELSE regs[q]
      BY <1>3 DEF TypeOK
    <2>3. \A h \in Threads : At(h, "booking") => thread[h].who \in Members
      BY InFlight
    <2>4. SeenIsBounded' /\ SeenIsFresh'
      BY <1>1, <1>3, <2>2, <2>3 DEF SeenIsBounded, SeenIsFresh, Held, At
    <2>5. SequentialIsExact' /\ CounterNeverAhead'
      BY <1>3, <2>2 DEF SequentialIsExact, CounterNeverAhead, Held
    <2>6. NoOrphanRegistration'
      BY <1>1, <1>3, <2>2 DEF NoOrphanRegistration, Held
    <2> QED
      BY <2>1, <2>4, <2>5, <2>6
  <1> QED
    BY <1>2, <1>3 DEF DeleteMember, MemberGone

LEMMA StutterBooks == Books /\ UNCHANGED evars => Books'
  BY DEF Books, evars, TypeOK, ThreadState, SequentialIsExact, CounterNeverAhead,
      NoOrphanRegistration, SeenIsBounded, SeenIsFresh, Held, At

LEMMA NextBooks == Books /\ [Next]_evars => Books'
  <1> SUFFICES ASSUME Books, Next PROVE Books'
    BY StutterBooks
  <1>1. ASSUME NEW h \in Threads, Handle(h) PROVE Books'
    BY <1>1, RegisterReadBooks, RegisterCommitBooks, UpdateReadBooks,
        UpdateCommitBooks, ThreadFailsBooks DEF Handle
  <1>2. CASE DeleteEvent
    BY <1>2, EventGoneBooks DEF DeleteEvent
  <1>3. ASSUME NEW m \in members, DeleteMember(m) PROVE Books'
    BY <1>3, DeleteMemberBooks
  <1> QED
    BY <1>1, <1>2, <1>3 DEF Next

-----------------------------------------------------------------------------
(* The values stay what they are (update_event and the others).            *)
THEOREM TypeCorrect == Spec => []TypeOK
  <1>1. Books => TypeOK
    BY DEF Books
  <1> QED
    BY <1>1, InitBooks, NextBooks, PTL DEF Spec

(* As long as registrations do not overlap and nobody rewrites the numbers *)
(* every seat is counted, within the capacity, once per member.            *)
THEOREM SequentialBooking == Spec => []SequentialIsExact
  <1>1. Books => SequentialIsExact
    BY DEF Books
  <1> QED
    BY <1>1, InitBooks, NextBooks, PTL DEF Spec

(* However registrations overlap, the counter stays within the capacity,   *)
(* and within the seats booked.                                            *)
THEOREM CounterIsBounded == Spec => []CounterNeverAhead
  <1>1. Books => CounterNeverAhead
    BY DEF Books
  <1> QED
    BY <1>1, InitBooks, NextBooks, PTL DEF Spec

(* No registration survives its event or its member.                       *)
THEOREM RegistrationsHaveOwners == Spec => []NoOrphanRegistration
  <1>1. Books => NoOrphanRegistration
    BY DEF Books
  <1> QED
    BY <1>1, InitBooks, NextBooks, PTL DEF Spec

-----------------------------------------------------------------------------
LEMMA StepImplements == [AllNext]_allVars => [Next]_evars
  <1>1. CASE EventStep
    BY <1>1 DEF EventStep, Next
  <1>2. CASE AnnouncementStep
    <2>1. UNCHANGED members
      BY <1>2 DEF AnnouncementStep, A!Handle, A!ViewRead, A!ViewCommit,
          A!ThreadFails, A!DeleteAnnouncement
    <2> QED
      BY <1>2, <2>1 DEF AnnouncementStep, ownVars, evars
  <1>3. ASSUME NEW m \in members, DeleteAccount(m) PROVE Next
    BY <1>3 DEF DeleteAccount, Next
  <1>4. CASE UNCHANGED allVars
    BY <1>4 DEF allVars, ownVars, evars
  <1> QED
    BY <1>1, <1>2, <1>3, <1>4 DEF AllNext

(* Whatever runs beside it, an event behaves as Events says.               *)
THEOREM EngagementImplementsEvents == AllSpec => Spec
  <1>1. AllInit => Init
    BY DEF AllInit
  <1> QED
    BY <1>1, StepImplements, PTL DEF AllSpec, Spec

(* Registrations that do not overlap are counted exactly, beside any other *)
(* traffic.                                                                *)
THEOREM BookingBesideOthers == AllSpec => []SequentialIsExact
  BY EngagementImplementsEvents, SequentialBooking, PTL

(* Overlapping ones never take the counter above the capacity or above the *)
(* seats booked, beside any other traffic.                                 *)
THEOREM CounterBesideOthers == AllSpec => []CounterNeverAhead
  BY EngagementImplementsEvents, CounterIsBounded, PTL

-----------------------------------------------------------------------------
(***************************************************************************)
(* Announcements keep theirs: whatever events do beside them, the counter  *)
(* and the views of the announcement behave as Announcements says.         *)
(***************************************************************************)
LEMMA AnnouncementsImplemented == [AllNext]_allVars => [A!Next]_(A!nvars)
  <1>1. CASE AnnouncementStep
    BY <1>1 DEF AnnouncementStep, A!Next
  <1>2. CASE EventStep
    <2>1. UNCHANGED members
      BY <1>2 DEF EventStep, Handle, RegisterRead, UpdateRead, RegisterCommit,
          UpdateCommit, ThreadFails, DeleteEvent
    <2> QED
      BY <1>2, <2>1 DEF EventStep, announcementVars, A!nvars
  <1>3. ASSUME NEW m \in members, DeleteAccount(m) PROVE A!Next
    BY <1>3 DEF DeleteAccount, DeleteMember, A!DeleteMember, A!Next
  <1>4. CASE UNCHANGED allVars
    BY <1>4 DEF allVars, announcementVars, A!nvars
  <1> QED
    BY <1>1, <1>2, <1>3, <1>4 DEF AllNext

(* Announcements counts with the same Cardinality.                         *)
LEMMA OneCardinality == \A S : A!Cardinality(S) = Cardinality(S)
  BY DEF A!Cardinality, Cardinality

(* What a request for a first view has read is at most what was recorded,  *)
(* and as long as no two overlap it is alone and what it read is current.  *)
(* A member that was ever recorded has a record, or is gone.               *)
ViewsBooked ==
    /\ IsFiniteSet(everViewed)
    /\ ViewsCountMembersOnce
    /\ ~ posted => views = 0 /\ everViewed = {}
    /\ everViewed \cap members \subseteq viewed
    /\ posted => \A h \in Threads : A!At(h, "viewing") =>
         /\ viewing[h].seen <= Cardinality(everViewed)
         /\ ~ viewsOverlapped => /\ viewing[h].seen = views
                                 /\ \A o \in Threads : A!At(o, "viewing") => o = h

ViewsKept == A!TypeOK /\ A!NoOrphanView /\ ViewsBooked

LEMMA ViewsInit == AllInit => ViewsKept
  <1> SUFFICES ASSUME AllInit PROVE ViewsKept
    OBVIOUS
  <1>1. /\ members = Members /\ posted = TRUE /\ views = 0 /\ viewed = {} /\ everViewed = {}
        /\ viewsOverlapped = FALSE /\ viewing = [h \in Threads |-> A!Idle]
    BY DEF AllInit, A!Init
  <1>2. A!TypeOK /\ A!NoOrphanView
    BY <1>1 DEF A!TypeOK, A!NoOrphanView, A!ThreadState
  <1>3. \A h \in Threads : ~ A!At(h, "viewing")
    BY <1>1 DEF A!At, A!Idle
  <1>4. ViewsBooked
    BY <1>1, <1>3, FS_EmptySet, OneCardinality
       DEF ViewsBooked, ViewsCountMembersOnce, A!ViewsCountMembersOnce
  <1> QED
    BY <1>2, <1>4 DEF ViewsKept

(* A request that ends without a commit leaves the books as they are.      *)
LEMMA ViewStops ==
    ASSUME ViewsKept, NEW h \in Threads, A!Stop(h),
           UNCHANGED <<members, posted, views, viewed, everViewed, viewsOverlapped>>
    PROVE  ViewsKept'
  <1>1. /\ viewing' \in [Threads -> A!ThreadState]
        /\ \A o \in Threads : A!At(o, "viewing")' =>
              A!At(o, "viewing") /\ viewing'[o] = viewing[o]
    BY DEF ViewsKept, A!TypeOK, A!Stop, A!At, A!Idle, A!ThreadState
  <1>2. A!TypeOK' /\ A!NoOrphanView'
    BY <1>1 DEF ViewsKept, A!TypeOK, A!NoOrphanView
  <1>3. ViewsBooked'
    BY <1>1 DEF ViewsKept, ViewsBooked, ViewsCountMembersOnce, A!ViewsCountMembersOnce
  <1> QED
    BY <1>2, <1>3 DEF ViewsKept

LEMMA ViewsStep == ViewsKept /\ [A!Next]_(A!nvars) => ViewsKept'
  <1> SUFFICES ASSUME ViewsKept, [A!Next]_(A!nvars) PROVE ViewsKept'
    OBVIOUS
  <1> USE OneCardinality DEF ViewsCountMembersOnce, A!ViewsCountMembersOnce
  <1>1. ASSUME NEW h \in Threads, NEW m \in members, A!ViewRead(h, m) PROVE ViewsKept'
    <2>1. /\ viewing[h] = A!Idle /\ posted
          /\ viewing' = [viewing EXCEPT ![h] = [pc |-> "viewing", who |-> m, seen |-> views]]
          /\ viewsOverlapped' = (viewsOverlapped \/ \E o \in Threads : A!At(o, "viewing"))
          /\ UNCHANGED <<members, posted, views, viewed, everViewed>>
      BY <1>1 DEF A!ViewRead
    <2>2. [pc |-> "viewing", who |-> m, seen |-> views] \in A!ThreadState
      BY DEF ViewsKept, A!TypeOK, A!ThreadState
    <2>3. A!TypeOK' /\ A!NoOrphanView'
      BY <2>1, <2>2 DEF ViewsKept, A!TypeOK, A!NoOrphanView
    <2>4. /\ viewing'[h].seen = views
          /\ \A o \in Threads : o # h => viewing'[o] = viewing[o]
          /\ ~ A!At(h, "viewing")
      BY <2>1 DEF ViewsKept, A!TypeOK, A!At, A!Idle
    <2>5. ~ viewsOverlapped' => ~ viewsOverlapped /\ \A o \in Threads : ~ A!At(o, "viewing")
      BY <2>1
    <2>6. views <= Cardinality(everViewed)
      BY DEF ViewsKept, ViewsBooked
    <2>7. ASSUME NEW o \in Threads, A!At(o, "viewing")'
          PROVE  /\ viewing'[o].seen <= Cardinality(everViewed)
                 /\ ~ viewsOverlapped' =>
                      /\ viewing'[o].seen = views
                      /\ \A g \in Threads : A!At(g, "viewing")' => g = o
      <3>1. \A g \in Threads : g # h => (A!At(g, "viewing")' <=> A!At(g, "viewing"))
        BY <2>4 DEF A!At
      <3>2. CASE o = h
        BY <2>4, <2>5, <2>6, <3>1, <3>2
      <3>3. CASE o # h
        BY <2>1, <2>4, <2>5, <2>7, <3>1, <3>3 DEF ViewsKept, ViewsBooked
      <3> QED
        BY <3>2, <3>3
    <2>8. ViewsBooked'
      BY <2>1, <2>5, <2>7 DEF ViewsKept, ViewsBooked
    <2> QED
      BY <2>3, <2>8 DEF ViewsKept
  <1>2. ASSUME NEW h \in Threads, A!ViewCommit(h) PROVE ViewsKept'
    <2> DEFINE m == viewing[h].who
    <2>1. A!At(h, "viewing") /\ A!Stop(h) /\ UNCHANGED <<members, posted, viewsOverlapped>>
      BY <1>2 DEF A!ViewCommit
    <2>2. CASE ~ A!Recordable(m)
      BY <1>2, <2>1, <2>2, ViewStops DEF A!ViewCommit
    <2>3. CASE A!Recordable(m)
      <3>1. /\ posted /\ m \in members /\ m \notin viewed
            /\ views' = viewing[h].seen + 1
            /\ viewed' = viewed \cup {m} /\ everViewed' = everViewed \cup {m}
        BY <1>2, <2>3 DEF A!ViewCommit, A!Recordable
      <3>2. /\ viewing[h].seen \in Nat /\ members \subseteq Members
            /\ viewing' \in [Threads -> A!ThreadState]
            /\ \A o \in Threads : A!At(o, "viewing")' =>
                  /\ A!At(o, "viewing") /\ o # h /\ viewing'[o] = viewing[o]
        BY <2>1 DEF ViewsKept, A!TypeOK, A!Stop, A!At, A!Idle, A!ThreadState
      <3>3. A!TypeOK' /\ A!NoOrphanView'
        BY <2>1, <3>1, <3>2 DEF ViewsKept, A!TypeOK, A!NoOrphanView
      <3>4. m \notin everViewed /\ IsFiniteSet(everViewed)
        BY <3>1 DEF ViewsKept, ViewsBooked
      <3>5. /\ IsFiniteSet(everViewed')
            /\ Cardinality(everViewed') = Cardinality(everViewed) + 1
            /\ Cardinality(everViewed) \in Nat
        BY <3>1, <3>4, FS_AddElement, FS_CardinalityType
      <3>6. /\ viewing[h].seen <= Cardinality(everViewed)
            /\ ~ viewsOverlapped => /\ viewing[h].seen = Cardinality(everViewed)
                                    /\ \A o \in Threads : A!At(o, "viewing") => o = h
        BY <2>1, <3>1 DEF ViewsKept, ViewsBooked
      <3>7. /\ views' <= Cardinality(everViewed')
            /\ ~ viewsOverlapped => views' = Cardinality(everViewed')
        BY <3>1, <3>2, <3>5, <3>6
      <3>8. ASSUME NEW o \in Threads, A!At(o, "viewing")'
            PROVE  viewsOverlapped /\ viewing'[o].seen <= Cardinality(everViewed')
        <4>1. A!At(o, "viewing") /\ o # h /\ viewing'[o] = viewing[o]
          BY <3>2, <3>8
        <4>2. viewing[o].seen <= Cardinality(everViewed) /\ viewing[o].seen \in Nat
          BY <3>1, <4>1 DEF ViewsKept, ViewsBooked, A!TypeOK, A!ThreadState, A!At, A!Idle
        <4> QED
          BY <3>5, <3>6, <4>1, <4>2
      <3>9. (everViewed \cap members \subseteq viewed)'
        BY <2>1, <3>1 DEF ViewsKept, ViewsBooked
      <3>10. ViewsBooked'
        BY <2>1, <3>1, <3>5, <3>7, <3>8, <3>9 DEF ViewsBooked
      <3> QED
        BY <3>3, <3>10 DEF ViewsKept
    <2> QED
      BY <2>2, <2>3
  <1>3. ASSUME NEW h \in Threads, A!ThreadFails(h) PROVE ViewsKept'
    BY <1>3, ViewStops DEF A!ThreadFails
  <1>4. ASSUME A!AnnouncementGone, members' \subseteq members, UNCHANGED viewing PROVE ViewsKept'
    <2>1. /\ posted' = FALSE /\ views' = 0 /\ viewed' = {} /\ everViewed' = {}
          /\ viewsOverlapped' = FALSE
      BY <1>4 DEF A!AnnouncementGone
    <2>2. A!TypeOK' /\ A!NoOrphanView'
      BY <1>4, <2>1 DEF ViewsKept, A!TypeOK, A!NoOrphanView
    <2>3. IsFiniteSet(everViewed') /\ Cardinality(everViewed') = 0
      BY <2>1, FS_EmptySet
    <2>4. ViewsCountMembersOnce'
      BY <2>1, <2>3
    <2>5. ViewsBooked'
      BY <2>1, <2>3, <2>4 DEF ViewsBooked
    <2> QED
      BY <2>2, <2>5 DEF ViewsKept
  <1>5. CASE A!DeleteAnnouncement
    BY <1>4, <1>5 DEF A!DeleteAnnouncement
  <1>6. ASSUME NEW m \in members, A!DeleteMember(m) PROVE ViewsKept'
    <2>1. members' = members \ {m} /\ A!MemberGone(m) /\ UNCHANGED viewing
      BY <1>6 DEF A!DeleteMember
    <2>2. CASE A!AnnouncementGone
      BY <1>4, <2>1, <2>2
    <2>3. CASE viewed' = viewed \ {m} /\ UNCHANGED <<posted, views, everViewed, viewsOverlapped>>
      <3>1. A!TypeOK' /\ A!NoOrphanView'
        BY <2>1, <2>3 DEF ViewsKept, A!TypeOK, A!NoOrphanView
      <3>2. \A o \in Threads : A!At(o, "viewing")' <=> A!At(o, "viewing")
        BY <2>1 DEF A!At
      <3>3. ViewsBooked'
        BY <2>1, <2>3, <3>2 DEF ViewsKept, ViewsBooked
      <3> QED
        BY <3>1, <3>3 DEF ViewsKept
    <2> QED
      BY <2>1, <2>2, <2>3 DEF A!MemberGone
  <1>7. CASE UNCHANGED A!nvars
    BY <1>7 DEF A!nvars, ViewsKept, A!TypeOK, A!NoOrphanView, ViewsBooked, A!At
  <1> QED
    BY <1>1, <1>2, <1>3, <1>5, <1>6, <1>7 DEF A!Next, A!Handle

LEMMA ViewsHold == AllSpec => []ViewsKept
  BY ViewsInit, ViewsStep, AnnouncementsImplemented, PTL DEF AllSpec

(* Rows and requests of events and announcements keep their types, side by *)
(* side and through the deletions they share.                              *)
THEOREM AllTypesCorrect == AllSpec => []AllTypeOK
  <1>1. ViewsKept => A!TypeOK
    BY DEF ViewsKept
  <1>2. A!TypeOK /\ TypeOK => AllTypeOK
    BY DEF AllTypeOK
  <1> QED
    BY <1>1, <1>2, ViewsHold, EngagementImplementsEvents, TypeCorrect, PTL

(* "Unique view recorded" (record_announcement_view): the counter of views *)
(* is never above the number of members that viewed, and equals it as long *)
(* as no two first views overlap.                                          *)
THEOREM ViewsAreCountedOnce == AllSpec => []ViewsCountMembersOnce
  <1>1. ViewsKept => ViewsCountMembersOnce
    BY DEF ViewsKept, ViewsBooked
  <1> QED
    BY <1>1, ViewsHold, PTL

(* Neither a registration nor a view survives what it belongs to, whatever *)
(* was in flight when that was deleted (delete_user, delete_event,         *)
(* delete_announcement).                                                   *)
THEOREM NothingIsOrphaned == AllSpec => []NoOrphans
  <1>1. ViewsKept /\ NoOrphanRegistration => NoOrphans
    BY DEF ViewsKept, NoOrphans
  <1> QED
    BY <1>1, ViewsHold, EngagementImplementsEvents, RegistrationsHaveOwners, PTL
=============================================================================
