------------------------------ MODULE Admission ------------------------------
(***************************************************************************)
(* What becomes of a registration, without handlers, columns or sessions:  *)
(* an administrator takes it in hand and decides, and nobody else does,    *)
(* except that a decision may leave it to a confirmation of the person.    *)
(* One who is active is neither approved nor rejected but edited, and what *)
(* is written to somebody about a decision is so at that time.             *)
(***************************************************************************)

CONSTANTS
    People,     \* those who may register
    Rescued     \* those whom every start lets in

VARIABLES
    standing,   \* of each registration, "unregistered" or "absent" once deleted
    hand,       \* what administrators have in hand for each of them
    told,       \* the last mail to each of them
    released    \* those whom an edit left to their own confirmation

mvars == <<standing, hand, told, released>>

Out == {"pending_approval", "pending", "rejected", "deactivated"}
In  == {"active"}
Work == {"approving", "rejecting", "editing"}

Init ==
    /\ standing = [p \in People |-> "unregistered"]
    /\ hand = [p \in People |-> {}]
    /\ told = [p \in People |-> "none"]
    /\ released = {}

Become(p, from, to) ==
    /\ standing[p] \in from
    /\ standing' = [standing EXCEPT ![p] = to]

Register(p) == /\ Become(p, {"unregistered"}, "pending_approval")
               /\ UNCHANGED <<hand, told, released>>
Leave(p)    == /\ Become(p, In \cup Out, "absent")
               /\ UNCHANGED <<hand, told, released>>

Take(p, what) ==
    /\ what # "editing" => standing[p] \notin In
    /\ hand' = [hand EXCEPT ![p] = @ \cup {what}]
    /\ UNCHANGED <<standing, told, released>>

Finish(p, what) == hand' = [hand EXCEPT ![p] = @ \ {what}]
Drop(p, what)   == Finish(p, what) /\ UNCHANGED <<standing, told, released>>

\* Whoever was ever left to confirm may do so late, in the midst of another
\* decision, which then falls on an active account (or is lost: Drop).
Open(p) == IF p \in released THEN In \cup Out ELSE Out

Approve(p) == Become(p, Open(p), "active") /\ UNCHANGED released
Reject(p)  == Become(p, Open(p), "rejected") /\ UNCHANGED released
Switch(p)  == \E to \in In \cup Out :
    /\ Become(p, In \cup Out, to)
    /\ released' = IF to = "pending" THEN released \cup {p} ELSE released

Decide(p, what) ==
    /\ Finish(p, what)
    /\ \/ what = "approving" /\ Approve(p)
       \/ what = "rejecting" /\ Reject(p)
       \/ what = "editing" /\ Switch(p)
    /\ UNCHANGED told

Confirm(p) == /\ p \in released /\ Become(p, Out, "active")
              /\ UNCHANGED <<hand, told, released>>

\* A start lets the rescued in, unless they count as in already.
Start ==
    /\ \E some \in SUBSET {p \in Rescued : standing[p] \in Out} :
          standing' = [p \in People |-> IF p \in some THEN "active" ELSE standing[p]]
    /\ hand' = [p \in People |-> {}]
    /\ UNCHANGED <<told, released>>

\* Invited accounts, and those that were deleted, may be told otherwise.
Tell(p, what) ==
    /\ what = "approved" => standing[p] \notin Out
    /\ what = "rejected" => \/ standing[p] \in {"rejected", "unregistered", "absent"}
                            \/ p \in released
    /\ told' = [told EXCEPT ![p] = what]
    /\ UNCHANGED <<standing, hand, released>>

Next ==
    \/ \E p \in People :
          \/ Register(p) \/ Leave(p) \/ Confirm(p)
          \/ \E what \in Work \ hand[p] : Take(p, what)
          \/ \E what \in hand[p] : Drop(p, what) \/ Decide(p, what)
          \/ \E what \in {"pending", "approved", "rejected"} : Tell(p, what)
    \/ Start

Spec == Init /\ [][Next]_mvars
=============================================================================
