---------------------------- MODULE Announcements ----------------------------
(***************************************************************************)
(* One announcement and the members that viewed it                         *)
(* (api/routes/announcements.py).  record_announcement_view looks for an   *)
(* earlier view, then inserts one and adds to a counter in Python, in one  *)
(* transaction; the key of a view is (announcement, member), so the second *)
(* of two concurrent views of a member fails and its addition with it.     *)
(*                                                                         *)
(* update_announcement writes none of the columns kept here.               *)
(*                                                                         *)
(* A definition placed directly above another of the same parameters is a  *)
(* faulty variant of it that no action uses.                               *)
(***************************************************************************)
EXTENDS Naturals, FiniteSets

CONSTANTS
    Members,    \* accounts that may view
    Author,     \* the one that created the announcement
    Threads     \* requests in flight

VARIABLES
    members,    \* accounts that exist
    posted,     \* the announcement exists
    views,      \* its counter
    viewed,     \* members with a view record
    thread,     \* the handler of each request and the counter it read
    everViewed, \* history: members whose view was ever recorded
    overlapped  \* history: two first views were in flight together

nvars == <<members, posted, views, viewed, thread, everViewed, overlapped>>

Idle == [pc |-> "idle"]
ThreadState == {Idle} \cup [pc: {"viewing"}, who: Members, seen: Nat]

TypeOK ==
    /\ members \subseteq Members
    /\ posted \in BOOLEAN
    /\ views \in Nat
    /\ viewed \in SUBSET Members
    /\ thread \in [Threads -> ThreadState]
    /\ everViewed \in SUBSET Members
    /\ overlapped \in BOOLEAN

Init ==
    /\ members = Members
    /\ posted = TRUE
    /\ views = 0
    /\ viewed = {}
    /\ thread = [h \in Threads |-> Idle]
    /\ everViewed = {}
    /\ overlapped = FALSE

-----------------------------------------------------------------------------
At(h, pc) == thread[h].pc = pc
Stop(h) == thread' = [thread EXCEPT ![h] = Idle]

ViewRead(h, m) ==
    /\ thread[h] = Idle
    /\ posted
    /\ m \notin viewed
    /\ thread' = [thread EXCEPT ![h] = [pc |-> "viewing", who |-> m, seen |-> views]]
    /\ overlapped' = (overlapped \/ \E o \in Threads : At(o, "viewing"))
    /\ UNCHANGED <<members, posted, views, viewed, everViewed>>

(* The row of the announcement, the member and the key of the view are     *)
(* checked by the transaction that writes the counter and the view.        *)
Recordable(m) == posted /\ m \in members /\ m \notin viewed

ViewCommitCountsFirst(h) ==
    /\ At(h, "viewing")
    /\ LET m == thread[h].who IN
        /\ posted
        /\ views' = thread[h].seen + 1
        /\ viewed' = IF Recordable(m) THEN viewed \cup {m} ELSE viewed
        /\ everViewed' = IF Recordable(m) THEN everViewed \cup {m} ELSE everViewed
    /\ Stop(h)
    /\ UNCHANGED <<members, posted, overlapped>>
ViewCommit(h) ==
    /\ At(h, "viewing")
    /\ LET m == thread[h].who IN
        \/ /\ Recordable(m)
           /\ views' = thread[h].seen + 1
           /\ viewed' = viewed \cup {m}
           /\ everViewed' = everViewed \cup {m}
        \/ /\ ~Recordable(m)
           /\ UNCHANGED <<views, viewed, everViewed>>
    /\ Stop(h)
    /\ UNCHANGED <<members, posted, overlapped>>

(* The views go with the announcement, and the history ends.               *)
AnnouncementGone ==
    /\ posted' = FALSE
    /\ views' = 0
    /\ viewed' = {}
    /\ everViewed' = {}
    /\ overlapped' = FALSE

DeleteAnnouncement ==
    /\ posted
    /\ AnnouncementGone
    /\ UNCHANGED <<members, thread>>

(* A deleted account takes its views with it, and its announcements; the   *)
(* counter of other announcements keeps the view.                          *)
MemberGone(m) ==
    \/ m = Author /\ AnnouncementGone
    \/ /\ m # Author
       /\ viewed' = viewed \ {m}
       /\ UNCHANGED <<posted, views, everViewed, overlapped>>

DeleteMember(m) ==
    /\ m \in members
    /\ members' = members \ {m}
    /\ MemberGone(m)
    /\ UNCHANGED thread

ThreadFails(h) ==
    /\ thread[h] # Idle
    /\ Stop(h)
    /\ UNCHANGED <<members, posted, views, viewed, everViewed, overlapped>>

Handle(h) ==
    \/ \E m \in members : ViewRead(h, m)
    \/ ViewCommit(h) \/ ThreadFails(h)

Next ==
    \/ \E h \in Threads : Handle(h)
    \/ DeleteAnnouncement
    \/ \E m \in members : DeleteMember(m)

Spec == Init /\ [][Next]_nvars

-----------------------------------------------------------------------------
(* Properties.                                                             *)

(* "Unique view recorded": the counter never exceeds the number of members *)
(* that viewed, however many views of one member are in flight, and equals *)
(* it as long as no two first views overlap.                               *)
ViewsCountMembersOnce ==
    /\ views <= Cardinality(everViewed)
    /\ ~overlapped => views = Cardinality(everViewed)

(* No view record survives its announcement or its member.                 *)
NoOrphanView == viewed # {} => posted /\ viewed \subseteq members
=============================================================================
