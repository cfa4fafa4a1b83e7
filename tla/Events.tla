------------------------------- MODULE Events -------------------------------
(***************************************************************************)
(* One event and the registrations for it (api/routes/events.py).  The     *)
(* handlers are "def" functions in the thread pool: each reads the row of  *)
(* the event, decides, and commits.  register_for_event adds to the        *)
(* counter in Python and writes the sum it computed, so two registrations  *)
(* that overlap lose one of the two additions.                             *)
(*                                                                         *)
(* Events do not influence one another: one is enough.  Reading the event  *)
(* and looking for an earlier registration are two queries modelled as one *)
(* step: a registration committed between them only makes the second fail, *)
(* which changes nothing.                                                  *)
(*                                                                         *)
(* A definition placed directly above another of the same parameters is a  *)
(* faulty variant of it that no action uses.                               *)
(***************************************************************************)
EXTENDS Integers

CONSTANTS
    Members,    \* accounts that may register
    Host,       \* the one that created the event
    Threads,    \* requests in flight
    Seats,      \* attendee counts asked for (not validated by the code)
    Capacities  \* capacities an organiser may set

ASSUME SeatsAssumption == Seats \subseteq Int
ASSUME CapacitiesAssumption == Capacities \subseteq Nat
ASSUME HostAssumption == Host \in Members

VARIABLES
    members,    \* accounts that exist
    event,      \* the row of the event, or NoEvent
    regs,       \* number of registrations of each member
    thread,     \* the handler of each request and what it read
    booked,     \* history: seats of all registrations ever committed
    overlapped, \* history: two registrations were in flight together
    edited      \* history: an organiser changed the counter or the capacity

evars == <<members, event, regs, thread, booked, overlapped, edited>>

NoEvent == [status |-> "none"]
Column == {"status", "capacity", "total"}
EventRow == [status: {"upcoming", "past"}, capacity: Nat, total: Int]

Idle == [pc |-> "idle"]
ThreadState == {Idle}
    \cup [pc: {"booking"}, who: Members, seats: Seats, seen: EventRow]
    \cup [pc: {"editing"}, new: EventRow, seen: EventRow]

TypeOK ==
    /\ members \subseteq Members
    /\ event \in EventRow \cup {NoEvent}
    /\ regs \in [Members -> Nat]
    /\ thread \in [Threads -> ThreadState]
    /\ booked \in Int
    /\ overlapped \in BOOLEAN
    /\ edited \in BOOLEAN

Init ==
    /\ members = Members
    /\ event \in [status: {"upcoming"}, capacity: Capacities, total: {0}]
    /\ regs = [m \in Members |-> 0]
    /\ thread = [h \in Threads |-> Idle]
    /\ booked = 0
    /\ overlapped = FALSE
    /\ edited = FALSE

-----------------------------------------------------------------------------
Held == event # NoEvent
Stop(h) == thread' = [thread EXCEPT ![h] = Idle]
At(h, pc) == thread[h].pc = pc

(* The UPDATE writes the columns that differ from what was read.           *)
WriteWhole(seen, new) == event' = new
Write(seen, new) ==
    event' = [c \in Column |-> IF new[c] # seen[c] THEN new[c] ELSE event[c]]

-----------------------------------------------------------------------------
(* register_for_event.                                                     *)

MayBookWhileFree(m, n) ==
    /\ event.status # "past"
    /\ regs[m] = 0
    /\ event.total < event.capacity
MayBook(m, n) ==
    /\ event.status # "past"
    /\ regs[m] = 0
    /\ event.total + n <= event.capacity

RegisterRead(h, m, n) ==
    /\ thread[h] = Idle
    /\ Held /\ MayBook(m, n)
    /\ thread' = [thread EXCEPT ![h] = [pc |-> "booking", who |-> m, seats |-> n,
                                        seen |-> event]]
    /\ overlapped' = (overlapped \/ \E o \in Threads : At(o, "booking"))
    /\ UNCHANGED <<members, event, regs, booked, edited>>

(* The event's UPDATE and the registration's INSERT are one transaction:   *)
(* if the event or the member is gone neither happens.                     *)
RegisterCommit(h) ==
    /\ At(h, "booking")
    /\ LET t == thread[h]
           new == [t.seen EXCEPT !.total = @ + t.seats] IN
        \/ /\ Held /\ t.who \in members
           /\ Write(t.seen, new)
           /\ regs' = [regs EXCEPT ![t.who] = @ + 1]
           /\ booked' = booked + t.seats
        \/ /\ ~Held \/ t.who \notin members
           /\ UNCHANGED <<event, regs, booked>>
    /\ Stop(h)
    /\ UNCHANGED <<members, overlapped, edited>>

-----------------------------------------------------------------------------
(* update_event: fields that the request leaves out keep what was read.    *)

UpdateRead(h, new) ==
    /\ thread[h] = Idle
    /\ Held
    /\ thread' = [thread EXCEPT ![h] = [pc |-> "editing", new |-> new, seen |-> event]]
    /\ UNCHANGED <<members, event, regs, booked, overlapped, edited>>

UpdateCommit(h) ==
    /\ At(h, "editing")
    /\ LET t == thread[h] IN
        \/ /\ Held
           /\ Write(t.seen, t.new)
           /\ edited' = (edited \/ t.new.total # t.seen.total
                                \/ t.new.capacity # t.seen.capacity)
        \/ ~Held /\ UNCHANGED <<event, edited>>
    /\ Stop(h)
    /\ UNCHANGED <<members, regs, booked, overlapped>>

(* What an organiser asks for.  Bound: one column in a request (columns    *)
(* are written independently), a counter only to start afresh.             *)
Wanted == {[event EXCEPT !.status = s] : s \in {"upcoming", "past"}}
     \cup {[event EXCEPT !.capacity = c] : c \in Capacities}
     \cup {[event EXCEPT !.total = 0]}

-----------------------------------------------------------------------------
(* delete_event: the registrations go with it, and the history ends.       *)
EventGone ==
    /\ event' = NoEvent
    /\ regs' = [m \in Members |-> 0]
    /\ booked' = 0
    /\ overlapped' = FALSE
    /\ edited' = FALSE

DeleteEvent ==
    /\ Held
    /\ EventGone
    /\ UNCHANGED <<members, thread>>

(* A deleted account takes its registrations with it, and the events it    *)
(* created; the counter of other events keeps the seats.                   *)
MemberGoneUncascaded(m) == UNCHANGED <<event, regs, booked, overlapped, edited>>
MemberGoneOnce(m) ==
    /\ regs' = [regs EXCEPT ![m] = @ - 1]
    /\ UNCHANGED <<event, booked, overlapped, edited>>
MemberGone(m) ==
    \/ m = Host /\ EventGone
    \/ /\ m # Host
       /\ regs' = [regs EXCEPT ![m] = 0]
       /\ UNCHANGED <<event, booked, overlapped, edited>>

DeleteMember(m) ==
    /\ m \in members
    /\ members' = members \ {m}
    /\ MemberGone(m)
    /\ UNCHANGED thread

(* A handler fails, or the process restarts, before the commit.            *)
ThreadFails(h) ==
    /\ thread[h] # Idle
    /\ Stop(h)
    /\ UNCHANGED <<members, event, regs, booked, overlapped, edited>>

Handle(h) ==
    \/ \E m \in members, n \in Seats : RegisterRead(h, m, n)
    \/ Held /\ \E new \in Wanted : UpdateRead(h, new)
    \/ RegisterCommit(h) \/ UpdateCommit(h) \/ ThreadFails(h)

Next ==
    \/ \E h \in Threads : Handle(h)
    \/ DeleteEvent
    \/ \E m \in members : DeleteMember(m)

Spec == Init /\ [][Next]_evars

-----------------------------------------------------------------------------
(* Properties.                                                             *)

(* register_for_event keeps its books as long as no two registrations      *)
(* overlap and no organiser rewrites them: every seat is counted, the      *)
(* seats fit the capacity, and a member has one registration.  Edits of    *)
(* other columns and deletions of members, at any moment, do not break it. *)
SequentialIsExact ==
    Held /\ ~overlapped /\ ~edited =>
        /\ event.total = booked
        /\ booked <= event.capacity
        /\ \A m \in Members : regs[m] <= 1

(* Overlapping registrations lose additions but never invent one: the      *)
(* counter stays within the capacity and, as long as the numbers asked for *)
(* are not negative, within the seats that were really booked.             *)
CounterNeverAhead ==
    Held /\ ~edited =>
        /\ event.total <= event.capacity
        /\ Seats \subseteq Nat => event.total <= booked

(* No registration survives its event or its member, whatever was in       *)
(* flight when they were deleted.                                          *)
NoOrphanRegistration ==
    \A m \in Members : regs[m] > 0 => Held /\ m \in members

(* events.py:232, "You are already registered for this event": a member    *)
(* has at most one registration.                                           *)
OneRegistrationEach == \A m \in Members : regs[m] <= 1
=============================================================================
