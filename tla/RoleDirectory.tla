---------------------------- MODULE RoleDirectory ----------------------------
(***************************************************************************)
(* What the directory of roles promises, without requests, rows or         *)
(* sessions: each operation happens at once.  It does exactly what it is   *)
(* asked, and whoever it did not ask about notices nothing; where it was   *)
(* mixed with another about the same role or member, what was there may    *)
(* stay beside what was asked, until the next that is not mixed.           *)
(***************************************************************************)

CONSTANTS Members, Root, RoleIds, BuiltIn, Names, SystemNames, RootName, UniqueNames,
          Permissions, Seeded

VARIABLES
    title,      \* name of each role, "unused" or "gone"
    grants,     \* permissions of each role
    holds,      \* roles of each member
    mixed,      \* roles that may grant more than was asked
    disturbed   \* members that may hold more than was asked, or have lost a deleted role

dvars == <<title, grants, holds, mixed, disturbed>>

IsBuiltIn(r) == \E n \in SystemNames : BuiltIn[n] = r
Defaults(role, r) == UNION {Seeded[n] : n \in {s \in SystemNames : role[s] = r}}

Init ==
    /\ title = [r \in RoleIds |->
                  IF IsBuiltIn(r) THEN CHOOSE n \in SystemNames : BuiltIn[n] = r ELSE "unused"]
    /\ grants = [r \in RoleIds |-> Defaults(BuiltIn, r)]
    /\ holds = [m \in Members |-> IF m = Root THEN {BuiltIn[RootName]} ELSE {}]
    /\ mixed = {}
    /\ disturbed = {}

Exists(r) == title[r] \in Names
Free(r, n) == UniqueNames => \A x \in RoleIds \ {r} : title[x] # n

Name(r, n) ==
    /\ Free(r, n)
    /\ title' = [title EXCEPT ![r] = n]
    /\ UNCHANGED <<grants, holds, mixed, disturbed>>

Create(r, n) == title[r] = "unused" /\ Name(r, n)

Rename(r, n) == Exists(r) /\ ~IsBuiltIn(r) /\ Name(r, n)

\* The permissions of r are perms, or those and some of the earlier ones.
SetGrants(r, perms) ==
    /\ Exists(r)
    /\ \/ /\ grants' = [grants EXCEPT ![r] = perms]
          /\ mixed' = mixed \ {r}
       \/ /\ \E more \in SUBSET grants[r] : grants' = [grants EXCEPT ![r] = perms \cup more]
          /\ mixed' = mixed \cup {r}
    /\ UNCHANGED <<title, holds, disturbed>>

\* Nobody loses a role by its deletion whose roles were not mixed.
Delete(r) ==
    /\ Exists(r) /\ ~IsBuiltIn(r)
    /\ \A m \in Members : r \in holds[m] => m \in disturbed
    /\ title' = [title EXCEPT ![r] = "gone"]
    /\ grants' = [grants EXCEPT ![r] = {}]
    /\ holds' = [m \in Members |-> holds[m] \ {r}]
    /\ UNCHANGED <<mixed, disturbed>>

Assign(m, roles) ==
    /\ \A r \in roles : Exists(r)
    /\ \/ /\ holds' = [holds EXCEPT ![m] = roles]
          /\ disturbed' = disturbed \ {m}
       \/ /\ \E more \in SUBSET holds[m] : holds' = [holds EXCEPT ![m] = roles \cup more]
          /\ disturbed' = disturbed \cup {m}
    /\ UNCHANGED <<title, grants, mixed>>

\* A start gives the defaults back and takes nothing.
Start ==
    \E role \in [SystemNames -> RoleIds] :
       /\ \A n \in SystemNames : title[role[n]] = n
       /\ grants' = [r \in RoleIds |-> grants[r] \cup Defaults(role, r)]
       /\ holds' = [holds EXCEPT ![Root] = @ \cup {role[RootName]}]
       /\ UNCHANGED <<title, mixed, disturbed>>

Next ==
    \/ \E r \in RoleIds :
          \/ \E n \in Names : Create(r, n) \/ Rename(r, n)
          \/ \E perms \in SUBSET Permissions : SetGrants(r, perms)
          \/ Delete(r)
    \/ \E m \in Members, roles \in SUBSET RoleIds : Assign(m, roles)
    \/ Start

Spec == Init /\ [][Next]_dvars
=============================================================================
