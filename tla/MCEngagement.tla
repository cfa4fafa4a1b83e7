---------------------------- MODULE MCEngagement ----------------------------
(* Model-checking definitions for Engagement.  The properties are          *)
(* invariants and no action names a thread, so threads are symmetric.      *)
EXTENDS Engagement, TLC

AnyThread == Permutations(Threads)
=============================================================================
