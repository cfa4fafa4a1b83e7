------------------------------ MODULE MCPayments ------------------------------
(* Small instances of Payments: who runs where.                             *)
EXTENDS Payments

(* The deployed image starts one process: one event loop for every task.    *)
OneLoop == [t \in Tasks |-> "loop"]

(* Two processes, as while one deployment replaces another: a loop each.    *)
LoopEach == [t \in Tasks |-> t]
=============================================================================
