------------------------------ MODULE MCRoles ------------------------------
(* A small instance of Roles: one built-in role and one that requests may  *)
(* create, two permissions.                                                *)
EXTENDS Roles, TLC

CONSTANTS sa, c, root, m, assign, other, t1, t2

OneBuiltIn == "super_admin" :> sa
SeededOnce == "super_admin" :> {assign}
AtMostOne == {{}, {assign}, {other}}
Interchangeable == Permutations({t1, t2})
=============================================================================
