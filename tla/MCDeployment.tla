---------------------------- MODULE MCDeployment ----------------------------
(***************************************************************************)
(* Deployment on the four databases it may begin with: an empty one; one   *)
(* of the product at the revision of the copilot hub; one of an earlier    *)
(* release of the association's server; one whose version is a revision    *)
(* that has no file any more.                                              *)
(***************************************************************************)
EXTENDS Deployment

AllOrigins == {"empty", "hub", "alumni", "orphan"}
=============================================================================
