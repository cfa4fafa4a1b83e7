------------------------------- MODULE MCDues -------------------------------
(* Titles, and what payers write, in the small instances of Dues.           *)
EXTENDS Dues

CONSTANTS t1, t2, t3

(* t2 holds a bar: the dashboard reads t3 in its place.                     *)
BarInT2 == [t \in {t1, t2, t3} |-> IF t = t2 THEN t3 ELSE t]

(* A list: all views read its first name.  The second is cut by the         *)
(* dashboard, which reads t3 for it, and hidden from the member list by the *)
(* date of a transfer.  A single title is read like the last of a list.     *)
TwoDues == {[list |-> TRUE, names |-> <<t1, t2>>]}
NoPurpose == {}
=============================================================================
