----------------------------- MODULE MCAccounts -----------------------------
(* The bodies of PATCH /users/{id} in the runs: the status is set alone, to *)
(* what a confirmation turns into active or to any other text, or is_active *)
(* is; or an account is switched off in both columns.                       *)
EXTENDS Accounts

SomeEdits == [status: {"pending", "deactivated"}] \cup [active: {FALSE}]
OneEdit   == {[status |-> "deactivated", active |-> FALSE]}
=============================================================================
