---------------------------- MODULE PaymentLedger ----------------------------
(***************************************************************************)
(* What the payment records promise, without handlers, sessions or the     *)
(* network: each entry moves along one path, decided once, an online entry *)
(* is completed only for money taken, and money is taken only against an   *)
(* entry of the books (or of a member who has since been deleted).         *)
(***************************************************************************)
EXTENDS Naturals

CONSTANTS Users, Slips, MaxSecond

VARIABLES entry, present, taken

lvars == <<entry, present, taken>>

Online  == Users \X (0..MaxSecond)
Manual  == Users \X Slips
Payment == Online \cup Manual
Owner(p) == p[1]

Init ==
    /\ entry = [p \in Payment |-> "absent"]
    /\ present = Users
    /\ taken = {}

Move(p, from, to) ==
    /\ entry[p] = from
    /\ entry' = [entry EXCEPT ![p] = to]
    /\ UNCHANGED <<present, taken>>

Open(p)   == Owner(p) \in present /\ Move(p, "absent", "pending")
Settle(p) == p \in taken /\ Move(p, "pending", "completed")
File(p)   == Owner(p) \in present /\ Move(p, "absent", "pending_verification")
Record(p) == Owner(p) \in present /\ Move(p, "absent", "completed")
Decide(p) == \E d \in {"completed", "rejected"} : Move(p, "pending_verification", d)

Take(p) ==
    /\ entry[p] \in {"pending", "completed"} \/ Owner(p) \notin present
    /\ taken' = taken \cup {p}
    /\ UNCHANGED <<entry, present>>

Forget(u) ==
    /\ u \in present
    /\ present' = present \ {u}
    /\ entry' = [p \in Payment |-> IF Owner(p) = u THEN "absent" ELSE entry[p]]
    /\ UNCHANGED taken

Next ==
    \/ \E p \in Online : Open(p) \/ Settle(p) \/ Take(p)
    \/ \E p \in Manual : File(p) \/ Record(p) \/ Decide(p)
    \/ \E u \in Users : Forget(u)

Spec == Init /\ [][Next]_lvars
=============================================================================
