-------------------------- MODULE MigrationsProofs --------------------------
(***************************************************************************)
(* What the statements and revisions of the migrations keep, make and take *)
(* back of the facts a server depends on, for any schema, and the order of *)
(* the revisions. What a recursive function gives (Run, Lineage, Replayed) *)
(* is shown by induction on its argument, as a set of numbers that holds 0 *)
(* and every successor.                                                    *)
(***************************************************************************)
EXTENDS Deployment, TLAPS, WellFoundedInduction, FiniteSetTheorems

(* A set of numbers that holds 0 and the successor of each of its members  *)
(* holds them all.                                                         *)
LEMMA SetInduction ==
    ASSUME NEW T, T \subseteq Nat, 0 \in T, \A n \in T : n + 1 \in T
    PROVE  T = Nat
<1> DEFINE U == Nat \ T
<1> SUFFICES ASSUME U # {} PROVE FALSE
  OBVIOUS
<1>1. IsWellFoundedOn(OpToRel(<, Nat), Nat)
  BY NatLessThanWellFounded
<1>2. PICK x \in U : \A y \in U : ~ (<<y, x>> \in OpToRel(<, Nat))
  <2> HIDE DEF U
  <2>1. U \subseteq Nat
    BY DEF U
  <2> QED
    BY <1>1, <2>1, WFMin
<1>3. \A y \in U : ~ (y < x)
  BY <1>2 DEF OpToRel
<1>4. x # 0
  OBVIOUS
<1>5. x - 1 \in Nat /\ x - 1 < x
  BY <1>4
<1>6. x - 1 \in T
  BY <1>3, <1>5
<1> QED
  BY <1>5, <1>6

-----------------------------------------------------------------------------
(* after is what the statements ops make of S, one after the other.        *)
Traces(after, ops, S, n) ==
  after = [i \in 0..n |-> IF i = 0 THEN {S} ELSE Executed(ops[i], after[i - 1])]

(* There are such stages for any statements, whatever they are.            *)
LEMMA TraceExists ==
    ASSUME NEW ops, NEW S
    PROVE  \A n \in Nat : \E after : Traces(after, ops, S, n)
<1> DEFINE T == {n \in Nat : \E after : Traces(after, ops, S, n)}
<1>1. 0 \in T
  <2>1. Traces([i \in 0..0 |-> {S}], ops, S, 0)
    BY DEF Traces
  <2> QED
    BY <2>1
<1>2. ASSUME NEW n \in T PROVE n + 1 \in T
  <2>1. PICK g : Traces(g, ops, S, n)
    OBVIOUS
  <2> DEFINE h == [i \in 0..(n + 1) |-> IF i <= n THEN g[i] ELSE Executed(ops[n + 1], g[n])]
  <2>2. \A i \in 0..(n + 1) : h[i] = IF i = 0 THEN {S} ELSE Executed(ops[i], h[i - 1])
    <3> TAKE i \in 0..(n + 1)
    <3>1. CASE i = 0
      BY <2>1, <3>1 DEF Traces
    <3>2. CASE i \in 1..n
      <4>1. i # 0 /\ h[i] = g[i] /\ h[i - 1] = g[i - 1]
        BY <3>2
      <4>2. i \in 0..n
        BY <3>2
      <4>3. g[i] = Executed(ops[i], g[i - 1])
        <5> HIDE DEF h
        <5> QED
          BY <2>1, <4>1, <4>2 DEF Traces
      <4> QED
        BY <4>1, <4>3
    <3>3. CASE i = n + 1
      BY <3>3
    <3> QED
      BY <3>1, <3>2, <3>3
  <2>3. h = [i \in 0..(n + 1) |-> h[i]]
    OBVIOUS
  <2>4. Traces(h, ops, S, n + 1)
    <3> HIDE DEF h
    <3> QED
      BY <2>2, <2>3 DEF Traces
  <2> QED
    BY <2>4
<1>3. T = Nat
  <2> HIDE DEF T
  <2>1. T \subseteq Nat
    BY DEF T
  <2> QED
    BY <1>1, <1>2, <2>1, SetInduction
<1> QED
  BY <1>3

(* Run, one statement after the other.                                     *)
Stages(after, ops, S) ==
  /\ after[0] = {S}
  /\ \A i \in 1..Len(ops) : after[i] = Executed(ops[i], after[i - 1])
  /\ Run(ops, S) = after[Len(ops)]

(* Run ends with the last of its stages.                                   *)
LEMMA RunStages ==
    ASSUME NEW ops, NEW S, Len(ops) \in Nat
    PROVE  \E after : Stages(after, ops, S)
<1> DEFINE h == CHOOSE x : Traces(x, ops, S, Len(ops))
<1>1. Traces(h, ops, S, Len(ops))
  BY TraceExists
<1>2. Run(ops, S) = h[Len(ops)]
  BY DEF Run, Traces
<1>3. \A i \in 0..Len(ops) : h[i] = IF i = 0 THEN {S} ELSE Executed(ops[i], h[i - 1])
  <2> HIDE DEF h
  <2> QED
    BY <1>1 DEF Traces
<1> HIDE DEF h
<1>4. h[0] = {S} /\ \A i \in 1..Len(ops) : h[i] = Executed(ops[i], h[i - 1])
  BY <1>3
<1> QED
  BY <1>2, <1>4 DEF Stages

(* No statement changes nothing.                                           *)
LEMMA RunEmpty == \A S : Run(<<>>, S) = {S}
<1> TAKE S
<1>1. Len(<<>>) = 0
  OBVIOUS
<1>2. PICK after : Stages(after, <<>>, S)
  BY <1>1, RunStages
<1> QED
  BY <1>1, <1>2 DEF Stages

(* One transaction leads to one schema at most.                            *)
LEMMA RunDeterministic ==
    ASSUME NEW ops, NEW S, Len(ops) \in Nat, NEW A \in Run(ops, S), NEW B \in Run(ops, S)
    PROVE  A = B
<1>1. PICK after : Stages(after, ops, S)
  BY RunStages
<1> DEFINE T == {n \in Nat : n <= Len(ops) => \A X, Y \in after[n] : X = Y}
<1>2. 0 \in T
  BY <1>1 DEF Stages
<1>3. ASSUME NEW n \in T PROVE n + 1 \in T
  <2> SUFFICES ASSUME n + 1 <= Len(ops), NEW X \in after[n + 1], NEW Y \in after[n + 1]
               PROVE  X = Y
    OBVIOUS
  <2>1. after[n + 1] = Executed(ops[n + 1], after[n])
    BY <1>1 DEF Stages
  <2>2. \A V, W \in after[n] : V = W
    OBVIOUS
  <2> QED
    BY <2>1, <2>2 DEF Executed
<1>4. T = Nat
  <2> HIDE DEF T
  <2>1. T \subseteq Nat
    BY DEF T
  <2> QED
    BY <1>2, <1>3, <2>1, SetInduction
<1> QED
  BY <1>1, <1>4 DEF Stages

-----------------------------------------------------------------------------
(* Facts that no statement takes along with another one.                   *)
Solid(F) == \A f \in F : f[1] \notin {"fk", "index"}

Keeps(o, F) == \A S : F \cap S \subseteq Effect(o, S)

(* The tables that seed_rbac needs, with the columns it selects: each has  *)
(* them all, or is not there.                                              *)
RoleColumns ==
  [role           |-> {"id", "name", "description"},
   permission     |-> {"id", "name", "description"},
   userrole       |-> {"id", "user_id", "role_id"},
   rolepermission |-> {"id", "role_id", "permission_id", "allowed"}]

RoleNames == {"role", "permission", "userrole", "rolepermission"}

RolesWhole(S) == \A t \in RoleNames : Table(t) \in S => Columns(t, RoleColumns[t]) \subseteq S

KeepsRoles(o) == \A S : RolesWhole(S) => RolesWhole(Effect(o, S))

Gentle(o, F) == Keeps(o, F) /\ KeepsRoles(o)

(* What a statement loses is what it removes, facts of tables it drops,     *)
(* references and indexes.                                                 *)
LEMMA LostFacts ==
    ASSUME NEW o, NEW S, NEW f
    PROVE  /\ f \in Lost(o, S) => f \in o.gone \/ f[2] \in o.drops \/ IsFk(f) \/ f[1] = "index"
           /\ f \in S /\ f[2] \in o.drops => f \in Lost(o, S)
<1> DEFINE Dropped == UNION {{g \in S : g[2] = t \/ (IsFk(g) /\ g[5] = t)} : t \in o.drops}
           Along   == UNION {{g \in S : (g[1] = "index" /\ c = Column(g[2], g[3]))
                                  \/ (IsFk(g) /\ c = Column(g[2], g[4]))} : c \in o.gone}
<1>1. Lost(o, S) = o.gone \cup Dropped \cup Along
  BY DEF Lost
<1>2. f \in Dropped => f[2] \in o.drops \/ IsFk(f)
  <2> SUFFICES ASSUME f \in Dropped PROVE f[2] \in o.drops \/ IsFk(f)
    OBVIOUS
  <2>1. PICK t \in o.drops : f \in {g \in S : g[2] = t \/ (IsFk(g) /\ g[5] = t)}
    OBVIOUS
  <2> QED
    BY <2>1
<1>3. f \in Along => IsFk(f) \/ f[1] = "index"
  <2> SUFFICES ASSUME f \in Along PROVE IsFk(f) \/ f[1] = "index"
    OBVIOUS
  <2>1. PICK c \in o.gone : f \in {g \in S : (g[1] = "index" /\ c = Column(g[2], g[3]))
                                         \/ (IsFk(g) /\ c = Column(g[2], g[4]))}
    OBVIOUS
  <2> QED
    BY <2>1
<1>4. f \in S /\ f[2] \in o.drops => f \in Dropped
  OBVIOUS
<1> QED
  BY <1>1, <1>2, <1>3, <1>4

(* What a statement keeps: facts it neither removes nor drops with their   *)
(* table.                                                                  *)
LEMMA KeepsIf ==
    ASSUME NEW F, Solid(F), NEW o, o.rename = <<>>, o.gone \cap F = {},
           \A f \in F : f[2] \notin o.drops
    PROVE  Keeps(o, F)
<1> SUFFICES ASSUME NEW S, NEW f \in F \cap S PROVE f \in Effect(o, S)
  BY DEF Keeps
<1>1. f \notin Lost(o, S)
  BY LostFacts DEF Solid, IsFk
<1> QED
  BY <1>1 DEF Effect

(* It keeps the tables of the roles whole if it takes none of their        *)
(* columns, and makes them with all of them.                               *)
LEMMA KeepsRolesIf ==
    ASSUME NEW o, o.rename = <<>>,
           \A t \in RoleNames : /\ o.gone \cap Columns(t, RoleColumns[t]) = {}
                                /\ Table(t) \in o.made
                                     => Columns(t, RoleColumns[t]) \subseteq o.made
    PROVE  KeepsRoles(o)
<1> SUFFICES ASSUME NEW S, RolesWhole(S), NEW t \in RoleNames, Table(t) \in Effect(o, S),
                    NEW c \in RoleColumns[t]
             PROVE  Column(t, c) \in Effect(o, S)
  BY DEF KeepsRoles, RolesWhole, Columns
<1>1. CASE Table(t) \in o.made
  BY <1>1 DEF Columns, Effect
<1>2. CASE Table(t) \notin o.made
  <2>1. Table(t) \in S /\ Table(t) \notin Lost(o, S)
    BY <1>2 DEF Effect
  <2>2. t \notin o.drops
    BY <2>1, LostFacts DEF Table
  <2>3. Column(t, c) \in S /\ Column(t, c) \notin o.gone
    BY <2>1 DEF RolesWhole, Columns
  <2>4. Column(t, c) \notin Lost(o, S)
    BY <2>2, <2>3, LostFacts DEF Column, IsFk
  <2> QED
    BY <2>3, <2>4 DEF Effect
<1> QED
  BY <1>1, <1>2

AllGentle(ops, F) == Len(ops) \in Nat /\ \A i \in 1..Len(ops) : Gentle(ops[i], F)

(* What each statement of a transaction keeps, the transaction keeps.      *)
LEMMA RunKeeps ==
    ASSUME NEW ops, NEW F, AllGentle(ops, F), NEW S, NEW A \in Run(ops, S)
    PROVE  F \cap S \subseteq A /\ (RolesWhole(S) => RolesWhole(A))
<1> DEFINE Ok(X) == F \cap S \subseteq X /\ (RolesWhole(S) => RolesWhole(X))
<1>1. PICK after : Stages(after, ops, S)
  BY RunStages DEF AllGentle
<1> DEFINE T == {n \in Nat : n <= Len(ops) => \A X \in after[n] : Ok(X)}
<1>2. 0 \in T
  BY <1>1 DEF Stages
<1>3. ASSUME NEW n \in T PROVE n + 1 \in T
  <2> SUFFICES ASSUME n + 1 <= Len(ops), NEW X \in after[n + 1] PROVE Ok(X)
    OBVIOUS
  <2>1. after[n + 1] = Executed(ops[n + 1], after[n]) /\ n + 1 \in 1..Len(ops)
    BY <1>1 DEF Stages, AllGentle
  <2>2. PICK Y \in after[n] : X = Effect(ops[n + 1], Y)
    BY <2>1 DEF Executed
  <2>3. Ok(Y) /\ Gentle(ops[n + 1], F)
    BY <2>1, <2>2 DEF AllGentle
  <2> QED
    BY <2>2, <2>3 DEF Gentle, Keeps, KeepsRoles
<1>4. T = Nat
  <2> HIDE DEF T
  <2>1. T \subseteq Nat
    BY DEF T
  <2> QED
    BY <1>2, <1>3, <2>1, SetInduction
<1> QED
  BY <1>1, <1>4 DEF Stages, AllGentle

(* What a statement leaves there for certain, and the ones after it keep,  *)
(* is there at the end, and at each statement in between.                  *)
LEMMA StagesMake ==
    ASSUME NEW ops, Len(ops) \in Nat, NEW S, NEW after, Stages(after, ops, S), NEW F,
           NEW k \in 1..Len(ops), NEW m \in k..Len(ops),
           \A B : ~ Refused(ops[k], B) => F \subseteq Effect(ops[k], B),
           \A i \in (k + 1)..m : Keeps(ops[i], F)
    PROVE  \A A \in after[m] : F \subseteq A
<1> DEFINE T == {n \in Nat : n >= k /\ n <= m => \A X \in after[n] : F \subseteq X}
<1>1. 0 \in T
  OBVIOUS
<1>2. ASSUME NEW n \in T PROVE n + 1 \in T
  <2> SUFFICES ASSUME n + 1 >= k, n + 1 <= m, NEW X \in after[n + 1] PROVE F \subseteq X
    OBVIOUS
  <2>1. after[n + 1] = Executed(ops[n + 1], after[n])
    BY DEF Stages
  <2>2. PICK Y \in after[n] : X = Effect(ops[n + 1], Y) /\ ~ Refused(ops[n + 1], Y)
    BY <2>1 DEF Executed
  <2>3. CASE n + 1 = k
    BY <2>2, <2>3
  <2>4. CASE n >= k
    BY <2>2, <2>4 DEF Keeps
  <2> QED
    BY <2>3, <2>4
<1>3. T = Nat
  <2> HIDE DEF T
  <2>1. T \subseteq Nat
    BY DEF T
  <2> QED
    BY <1>1, <1>2, <2>1, SetInduction
<1> QED
  BY <1>3

(* In particular at the end.                                               *)
LEMMA RunMakes ==
    ASSUME NEW ops, Len(ops) \in Nat, NEW F, NEW k \in 1..Len(ops),
           \A B : ~ Refused(ops[k], B) => F \subseteq Effect(ops[k], B),
           \A i \in (k + 1)..Len(ops) : Keeps(ops[i], F),
           NEW S, NEW A \in Run(ops, S)
    PROVE  F \subseteq A
<1>1. PICK after : Stages(after, ops, S)
  BY RunStages
<1>2. \A X \in after[Len(ops)] : F \subseteq X
  BY <1>1, StagesMake
<1> QED
  BY <1>1, <1>2 DEF Stages

-----------------------------------------------------------------------------
(* What a server needs of "user", and the payments taken.                  *)
UserFacts == Columns("user", UserColumnsOfModel) \cup {KeyIsUuid("user")}
Facts     == UserFacts \cup {Rows("payment")}

(* None of them is a reference or an index, so none goes along with a      *)
(* column.                                                                 *)
LEMMA FactsAreSolid ==
    ASSUME NEW F \in SUBSET Facts
    PROVE  Solid(F) /\ \A f \in F : f[2] \in {"user", "payment"}
BY DEF Facts, UserFacts, Solid, Columns, Column, KeyIsUuid, Rows

(* A statement that neither renames a column nor drops a table, removes    *)
(* only references, indexes and constraints, and makes no table.           *)
Mild(o) ==
  /\ o.rename = <<>> /\ o.drops = {}
  /\ \A f \in o.gone : f[1] \in {"fk", "index", "unique"}
  /\ \A t : Table(t) \notin o.made

(* Such a statement keeps the facts and the tables of the roles.           *)
LEMMA MildIsGentle ==
    ASSUME NEW F, Solid(F), \A f \in F : f[1] # "unique", NEW o, Mild(o)
    PROVE  Gentle(o, F)
<1>1. Keeps(o, F)
  <2>1. o.gone \cap F = {}
    BY DEF Mild, Solid
  <2> QED
    BY <2>1, KeepsIf DEF Mild
<1>2. KeepsRoles(o)
  <2>1. \A t \in RoleNames : o.gone \cap Columns(t, RoleColumns[t]) = {}
    BY DEF Mild, Columns, Column
  <2> QED
    BY <2>1, KeepsRolesIf DEF Mild
<1> QED
  BY <1>1, <1>2 DEF Gentle

(* The statements that are mild whatever their arguments.                  *)
LEMMA MildStatements ==
    /\ \A t, cs : Mild(AddColumns(t, cs)) /\ Mild(AddRequired(t, cs)) /\ Mild(EnsureColumns(t, cs))
    /\ \A t, cs : Mild(Alter(t, cs)) /\ Mild(Inspect(t)) /\ Mild(Uuid(t)) /\ Mild(Insert(t))
    /\ \A t, cs : Mild(CreateIndexes(t, cs)) /\ Mild(EnsureIndexes(t, cs))
    /\ \A t, cs : Mild(DropIndexes(t, cs)) /\ Mild(DiscardIndexes(t, cs))
    /\ \A t, n, cs : Mild(CreateNamedIndex(t, n, cs))
    /\ \A t, c : Mild(Reindex(t, c)) /\ Mild(AddUnique(t, c)) /\ Mild(DropUnique(t, c))
    /\ \A t, r : Mild(Refer(t, r)) /\ Mild(DropRef(t, r)) /\ Mild(DiscardRef(t, r))
    /\ \A t, rs : Mild(DropRefs(t, rs))
    /\ \A t : Mild(DropUnnamed(t))
<1> USE DEF Mild, Nothing, Table
<1>1. \A t, cs : Mild(AddColumns(t, cs)) /\ Mild(AddRequired(t, cs)) /\ Mild(EnsureColumns(t, cs))
  BY DEF AddColumns, AddRequired, EnsureColumns, Columns, Column
<1>2. \A t, cs : Mild(Alter(t, cs)) /\ Mild(Inspect(t)) /\ Mild(Uuid(t)) /\ Mild(Insert(t))
  BY DEF Alter, Inspect, Uuid, Insert, KeyIsUuid, Rows
<1>3. \A t, cs : Mild(CreateIndexes(t, cs)) /\ Mild(EnsureIndexes(t, cs))
  BY DEF CreateIndexes, EnsureIndexes, Indexes, Index
<1>4. \A t, cs : Mild(DropIndexes(t, cs)) /\ Mild(DiscardIndexes(t, cs))
  BY DEF DropIndexes, DiscardIndexes, Indexes, Index
<1>5. \A t, n, cs : Mild(CreateNamedIndex(t, n, cs))
  BY DEF CreateNamedIndex, Index
<1>6. \A t, c : Mild(Reindex(t, c)) /\ Mild(AddUnique(t, c)) /\ Mild(DropUnique(t, c))
  BY DEF Reindex, AddUnique, DropUnique, Unique
<1>7. \A t, rs : Mild(DropRefs(t, rs))
  BY DEF DropRefs, Refs, Fk
<1>8. \A t, r : Mild(Refer(t, r)) /\ Mild(DropRef(t, r)) /\ Mild(DiscardRef(t, r))
  <2>1. \A t, r : Mild(Refer(t, r)) /\ Mild(DiscardRef(t, r))
    BY DEF Refer, DiscardRef, Fk
  <2>2. \A t, r : Mild(DropRef(t, r))
    BY <1>7 DEF DropRef
  <2> QED
    BY <2>1, <2>2
<1>9. \A t : Mild(DropUnnamed(t))
  BY DEF DropUnnamed
<1> QED
  BY <1>1, <1>2, <1>3, <1>4, <1>5, <1>6, <1>7, <1>8, <1>9

(* Those that are gentle where they do not touch what is kept.             *)
LEMMA GentleStatements ==
    ASSUME NEW F, Solid(F)
    PROVE  /\ \A t, cols, refs, idx :
                t \notin RoleNames => Gentle(CreateTable(t, cols, refs, idx), F)
           /\ \A t, idx : (\A f \in F : f[2] # t) => Gentle(DropTable(t, idx), F)
           /\ \A ts : (\A f \in F : f[2] \notin ts) => Gentle(Sweep(ts), F)
           /\ \A t, cs :
                Columns(t, cs) \cap F = {} /\ (t \in RoleNames => cs \cap RoleColumns[t] = {})
                  => Gentle(DropColumns(t, cs), F) /\ Gentle(DiscardColumns(t, cs), F)
           /\ \A t : KeyIsUuid(t) \notin F => Gentle(Serial(t), F)
           /\ \A t, a, b :
                Column(t, a) \notin F /\ t \notin RoleNames => Gentle(RenameColumn(t, a, b), F)
<1>1. ASSUME NEW t, NEW cols, NEW refs, NEW idx, t \notin RoleNames
      PROVE  Gentle(CreateTable(t, cols, refs, idx), F)
  <2> DEFINE o == CreateTable(t, cols, refs, idx)
  <2>1. o.rename = <<>> /\ o.gone = {} /\ o.drops = {}
    BY DEF CreateTable, Nothing
  <2>2. \A u : Table(u) \in o.made => u = t
    BY DEF CreateTable, Nothing, Table, Columns, Column, Refs, Fk, Indexes, Index
  <2> HIDE DEF o
  <2>3. Keeps(o, F)
    BY <2>1, KeepsIf
  <2>4. KeepsRoles(o)
    BY <1>1, <2>1, <2>2, KeepsRolesIf
  <2>5. Gentle(o, F)
    BY <2>3, <2>4 DEF Gentle
  <2> QED
    BY <2>5 DEF o
<1>2. ASSUME NEW ts, \A f \in F : f[2] \notin ts, NEW o, o.rename = <<>>, o.gone = {}, o.drops = ts,
             o.made = {}
      PROVE  Gentle(o, F)
  <2>1. Keeps(o, F)
    BY <1>2, KeepsIf
  <2>2. KeepsRoles(o)
    BY <1>2, KeepsRolesIf
  <2> QED
    BY <2>1, <2>2 DEF Gentle
<1>3. \A t, idx : (\A f \in F : f[2] # t) => Gentle(DropTable(t, idx), F)
  <2> TAKE t, idx
  <2> HAVE \A f \in F : f[2] # t
  <2>1. /\ DropTable(t, idx).rename = <<>> /\ DropTable(t, idx).gone = {}
        /\ DropTable(t, idx).drops = {t} /\ DropTable(t, idx).made = {}
    BY DEF DropTable, Nothing
  <2> QED
    BY <2>1, <1>2
<1>4. \A ts : (\A f \in F : f[2] \notin ts) => Gentle(Sweep(ts), F)
  <2> TAKE ts
  <2> HAVE \A f \in F : f[2] \notin ts
  <2>1. /\ Sweep(ts).rename = <<>> /\ Sweep(ts).gone = {}
        /\ Sweep(ts).drops = ts /\ Sweep(ts).made = {}
    BY DEF Sweep, Nothing
  <2> QED
    BY <2>1, <1>2
<1>5. ASSUME NEW t, NEW cs, Columns(t, cs) \cap F = {},
             t \in RoleNames => cs \cap RoleColumns[t] = {},
             NEW o, o.rename = <<>>, o.gone = Columns(t, cs), o.drops = {}, o.made = {}
      PROVE  Gentle(o, F)
  <2>1. Keeps(o, F)
    BY <1>5, KeepsIf
  <2>2. \A u \in RoleNames : o.gone \cap Columns(u, RoleColumns[u]) = {}
    BY <1>5 DEF Columns, Column
  <2>3. KeepsRoles(o)
    BY <1>5, <2>2, KeepsRolesIf
  <2> QED
    BY <2>1, <2>3 DEF Gentle
<1>6. \A t, cs : Columns(t, cs) \cap F = {} /\ (t \in RoleNames => cs \cap RoleColumns[t] = {})
                   => Gentle(DropColumns(t, cs), F) /\ Gentle(DiscardColumns(t, cs), F)
  <2> TAKE t, cs
  <2> HAVE Columns(t, cs) \cap F = {} /\ (t \in RoleNames => cs \cap RoleColumns[t] = {})
  <2>1. /\ DropColumns(t, cs).rename = <<>> /\ DropColumns(t, cs).gone = Columns(t, cs)
        /\ DropColumns(t, cs).drops = {} /\ DropColumns(t, cs).made = {}
    BY DEF DropColumns, Nothing
  <2>2. /\ DiscardColumns(t, cs).rename = <<>> /\ DiscardColumns(t, cs).gone = Columns(t, cs)
        /\ DiscardColumns(t, cs).drops = {} /\ DiscardColumns(t, cs).made = {}
    BY DEF DiscardColumns, Nothing
  <2> QED
    BY <2>1, <2>2, <1>5
<1>7. \A t : KeyIsUuid(t) \notin F => Gentle(Serial(t), F)
  <2> TAKE t
  <2> HAVE KeyIsUuid(t) \notin F
  <2> DEFINE o == Serial(t)
  <2>1. o.rename = <<>> /\ o.gone = {KeyIsUuid(t)} /\ o.drops = {} /\ o.made = {}
    BY DEF Serial, Nothing
  <2> HIDE DEF o
  <2>2. Keeps(o, F)
    BY <2>1, KeepsIf
  <2>3. \A u \in RoleNames : o.gone \cap Columns(u, RoleColumns[u]) = {}
    BY <2>1 DEF KeyIsUuid, Columns, Column
  <2>4. KeepsRoles(o)
    BY <2>1, <2>3, KeepsRolesIf
  <2>5. Gentle(o, F)
    BY <2>2, <2>4 DEF Gentle
  <2> QED
    BY <2>5 DEF o
<1>8. ASSUME NEW t, NEW a, NEW b, Column(t, a) \notin F, t \notin RoleNames
      PROVE  Gentle(RenameColumn(t, a, b), F)
  <2> DEFINE o == RenameColumn(t, a, b)
             New(f) == IF f = Column(t, a) THEN Column(t, b)
                       ELSE IF IsFk(f) /\ f[2] = t /\ f[4] = a THEN Fk(t, f[3], b, f[5])
                       ELSE f
  <2>1. o.rename = <<t, a, b>>
    BY DEF RenameColumn, Nothing
  <2>2. \A S : Effect(o, S) = {New(f) : f \in S}
    <3>1. o.rename # <<>> /\ o.rename[1] = t /\ o.rename[2] = a /\ o.rename[3] = b
      BY <2>1
    <3> QED
      BY <3>1 DEF Effect, Renamed
  <2> HIDE DEF o
  <2>3. ASSUME NEW S, NEW f \in S, f # Column(t, a), ~ IsFk(f) PROVE f \in Effect(o, S)
    BY <2>2, <2>3
  <2>4. Keeps(o, F)
    BY <1>8, <2>3 DEF Keeps, Solid, IsFk
  <2>5. ASSUME NEW S, RolesWhole(S), NEW u \in RoleNames, Table(u) \in Effect(o, S)
        PROVE  Columns(u, RoleColumns[u]) \subseteq Effect(o, S)
    <3>1. PICK f \in S : Table(u) = New(f)
      BY <2>2, <2>5
    <3>2. f = Table(u)
      BY <3>1 DEF Table, Column, Fk
    <3>3. Columns(u, RoleColumns[u]) \subseteq S
      BY <2>5, <3>2 DEF RolesWhole
    <3>4. \A g \in Columns(u, RoleColumns[u]) : g # Column(t, a) /\ ~ IsFk(g)
      BY <1>8 DEF Columns, Column, IsFk
    <3> QED
      BY <2>3, <3>3, <3>4
  <2>6. KeepsRoles(o)
    BY <2>5 DEF KeepsRoles, RolesWhole
  <2>7. Gentle(o, F)
    BY <2>4, <2>6 DEF Gentle
  <2> QED
    BY <2>7 DEF o
<1> QED
  BY <1>1, <1>3, <1>4, <1>6, <1>7, <1>8

-----------------------------------------------------------------------------
(* The statements of the migrations, for what a server needs of "user" and *)
(* for the payments.                                                       *)
KeptBy(F) ==
  /\ \A t, cs : /\ Gentle(AddColumns(t, cs), F) /\ Gentle(AddRequired(t, cs), F)
                /\ Gentle(EnsureColumns(t, cs), F) /\ Gentle(Alter(t, cs), F)
                /\ Gentle(CreateIndexes(t, cs), F) /\ Gentle(EnsureIndexes(t, cs), F)
                /\ Gentle(DropIndexes(t, cs), F) /\ Gentle(DiscardIndexes(t, cs), F)
  /\ \A t : Gentle(Inspect(t), F) /\ Gentle(Uuid(t), F) /\ Gentle(Insert(t), F)
  /\ \A t, n, cs : Gentle(CreateNamedIndex(t, n, cs), F)
  /\ \A t, c : Gentle(Reindex(t, c), F) /\ Gentle(AddUnique(t, c), F) /\ Gentle(DropUnique(t, c), F)
  /\ \A t, r : Gentle(Refer(t, r), F) /\ Gentle(DropRef(t, r), F) /\ Gentle(DiscardRef(t, r), F)
  /\ \A t, rs : Gentle(DropRefs(t, rs), F)
  /\ \A t : Gentle(DropUnnamed(t), F)
  /\ \A t, cols, refs, idx : t \notin {"role", "permission", "userrole", "rolepermission"}
                               => Gentle(CreateTable(t, cols, refs, idx), F)
  /\ \A t, idx : t \notin {"user", "payment"} => Gentle(DropTable(t, idx), F)
  /\ \A ts : "user" \notin ts /\ "payment" \notin ts => Gentle(Sweep(ts), F)
  /\ \A t, cs : t \notin {"user", "role", "permission", "userrole", "rolepermission"}
                  => Gentle(DropColumns(t, cs), F) /\ Gentle(DiscardColumns(t, cs), F)
  /\ Gentle(DropColumns("role", {"organization_id"}), F)
  /\ Gentle(DiscardColumns("role", {"organization_id"}), F)
  /\ \A cs : Columns("user", cs) \cap F = {}
               => Gentle(DropColumns("user", cs), F) /\ Gentle(DiscardColumns("user", cs), F)
  /\ \A t, a, b : t \notin {"user", "role", "permission", "userrole", "rolepermission"}
                    => Gentle(RenameColumn(t, a, b), F)

(* Any of those facts are kept by all statements on other tables, and by   *)
(* the mild ones.                                                          *)
LEMMA KeptByStatements ==
    ASSUME NEW F \in SUBSET Facts
    PROVE  KeptBy(F)
<1>1. Solid(F) /\ (\A f \in F : f[1] # "unique") /\ \A f \in F : f[2] \in {"user", "payment"}
  BY FactsAreSolid DEF Facts, UserFacts, Columns, Column, KeyIsUuid, Rows
<1>2. \A o : Mild(o) => Gentle(o, F)
  BY <1>1, MildIsGentle
<1>3. \A t, cs : t # "user" => Columns(t, cs) \cap F = {}
  BY DEF Facts, UserFacts, Columns, Column, KeyIsUuid, Rows
<1>4. \A t, a : t # "user" => Column(t, a) \notin F
  BY DEF Facts, UserFacts, Columns, Column, KeyIsUuid, Rows
<1>5. "user" \notin RoleNames /\ {"organization_id"} \cap RoleColumns["role"] = {}
  BY DEF RoleNames, RoleColumns
<1>6. /\ \A t, cs : t \notin {"user"} \cup RoleNames
                  => Gentle(DropColumns(t, cs), F) /\ Gentle(DiscardColumns(t, cs), F)
      /\ Gentle(DropColumns("role", {"organization_id"}), F)
      /\ Gentle(DiscardColumns("role", {"organization_id"}), F)
      /\ \A cs : Columns("user", cs) \cap F = {}
               => Gentle(DropColumns("user", cs), F) /\ Gentle(DiscardColumns("user", cs), F)
  BY <1>1, <1>3, <1>5, GentleStatements
<1>7. /\ \A t, cols, refs, idx : t \notin RoleNames => Gentle(CreateTable(t, cols, refs, idx), F)
      /\ \A t, a, b : t \notin {"user"} \cup RoleNames => Gentle(RenameColumn(t, a, b), F)
  BY <1>1, <1>4, GentleStatements
<1>8. /\ \A t, idx : t \notin {"user", "payment"} => Gentle(DropTable(t, idx), F)
      /\ \A ts : "user" \notin ts /\ "payment" \notin ts => Gentle(Sweep(ts), F)
  BY <1>1, GentleStatements
<1> QED
  BY <1>2, <1>6, <1>7, <1>8, MildStatements DEF KeptBy, RoleNames

(* A table of the roles is made with all the columns they need.            *)
LEMMA RoleTablesMade ==
    ASSUME NEW F, Solid(F), NEW t \in RoleNames, NEW cols, NEW refs, NEW idx,
           RoleColumns[t] \subseteq cols \cup idx \cup {r[2] : r \in refs}
    PROVE  Gentle(CreateTable(t, cols, refs, idx), F)
<1> DEFINE o == CreateTable(t, cols, refs, idx)
<1>1. o.rename = <<>> /\ o.gone = {} /\ o.drops = {}
  BY DEF CreateTable, Nothing
<1>2. \A u : Table(u) \in o.made => u = t
  BY DEF CreateTable, Nothing, Table, Columns, Column, Refs, Fk, Indexes, Index
<1>3. Columns(t, RoleColumns[t]) \subseteq o.made
  BY DEF CreateTable, Nothing, Columns
<1> HIDE DEF o
<1>4. Keeps(o, F)
  BY <1>1, KeepsIf
<1>5. KeepsRoles(o)
  BY <1>1, <1>2, <1>3, KeepsRolesIf
<1>6. Gentle(o, F)
  BY <1>4, <1>5 DEF Gentle
<1> QED
  BY <1>6 DEF o

(* One list of statements after another.                                   *)
LEMMA GentleJoin ==
    ASSUME NEW a, NEW b, NEW F, AllGentle(a, F), AllGentle(b, F)
    PROVE  AllGentle(a \o b, F)
BY DEF AllGentle

(* Statements under an inspector's test.                                   *)
LEMMA GentleIfTested ==
    ASSUME NEW ops, NEW F, AllGentle(ops, F), NEW S, NEW fact
    PROVE  AllGentle(Unless(S, fact, ops), F) /\ AllGentle(Given(S, fact, ops), F)
<1>1. AllGentle(<<>>, F)
  BY DEF AllGentle
<1> QED
  BY <1>1 DEF Unless, Given

(* The upgrades of the product's revisions keep the facts: those without a *)
(* test,                                                                   *)
LEMMA GentleProductUpgrades ==
    ASSUME NEW F \in SUBSET Facts
    PROVE  /\ AllGentle(Up_e241, F) /\ AllGentle(Up_9c0a, F) /\ AllGentle(Up_1a31, F)
           /\ AllGentle(Up_add_rbac_tables, F) /\ AllGentle(Up_drop_item_table, F)
           /\ AllGentle(Up_add_ai_chat_001, F) /\ AllGentle(Up_add_dashboard_models, F)
           /\ AllGentle(Up_8825, F) /\ AllGentle(Up_add_enhanced_projects, F)
           /\ AllGentle(Up_add_user_settings_fields, F) /\ AllGentle(Up_9351, F)
           /\ AllGentle(Up_add_tag_number_to_user, F) /\ AllGentle(Up_b695, F)
           /\ AllGentle(Up_add_notifications_v2, F) /\ AllGentle(Up_dcca, F)
           /\ AllGentle(Up_add_timezone_user, F) /\ AllGentle(Up_8a96, F) /\ AllGentle(Up_9b12, F)
           /\ AllGentle(Up_8376, F) /\ AllGentle(Up_b29c, F) /\ AllGentle(Up_0cd2, F)
           /\ AllGentle(Up_15ac, F) /\ AllGentle(Up_f96d, F) /\ AllGentle(Up_add_org_id_to_role, F)
           /\ AllGentle(Up_refactor_wallet, F) /\ AllGentle(Up_2cb8, F)
           /\ AllGentle(Up_eb29, F) /\ AllGentle(Up_7f80, F)
           /\ AllGentle(Up_a53f, F) /\ AllGentle(Up_a2d1, F) /\ AllGentle(Up_36eb, F)
<1>0. KeptBy(F)
  BY KeptByStatements
<1> USE DEF AllGentle
<1>1. AllGentle(Up_e241, F) /\ AllGentle(Up_9c0a, F) /\ AllGentle(Up_1a31, F)
  BY <1>0 DEF KeptBy, Up_e241, Up_9c0a, Up_1a31
<1>2. AllGentle(Up_add_rbac_tables, F)
  <2>1. /\ Gentle(CreateTable("role", {"id", "description"}, {}, {"name"}), F)
        /\ Gentle(CreateTable("permission", {"id", "description"}, {}, {"name"}), F)
    BY FactsAreSolid, RoleTablesMade DEF RoleNames, RoleColumns
  <2>2. Gentle(CreateTable("userrole", {"id"},
                 {By("role_id", "role"), By("user_id", "user")}, {}), F)
    <3>1. RoleColumns["userrole"]
            \subseteq {"id"} \cup {}
                        \cup {r[2] : r \in {By("role_id", "role"), By("user_id", "user")}}
      BY DEF RoleColumns, By
    <3> QED
      BY <3>1, FactsAreSolid, RoleTablesMade DEF RoleNames
  <2>3. Gentle(CreateTable("rolepermission", {"id", "allowed"}, {By("permission_id", "permission"),
                 By("role_id", "role")}, {}), F)
    <3>1. RoleColumns["rolepermission"]
            \subseteq {"id", "allowed"} \cup {}
                   \cup {r[2] : r \in {By("permission_id", "permission"), By("role_id", "role")}}
      BY DEF RoleColumns, By
    <3> QED
      BY <3>1, FactsAreSolid, RoleTablesMade DEF RoleNames
  <2> QED
    BY <1>0, <2>1, <2>2, <2>3 DEF KeptBy, Up_add_rbac_tables
<1>3. /\ AllGentle(Up_drop_item_table, F) /\ AllGentle(Up_add_ai_chat_001, F)
      /\ AllGentle(Up_add_dashboard_models, F)
  BY <1>0 DEF KeptBy, Up_drop_item_table, Up_add_ai_chat_001, Up_add_dashboard_models
<1>4. AllGentle(Up_8825, F) /\ AllGentle(Up_add_user_settings_fields, F)
  BY <1>0 DEF KeptBy, Up_8825, Up_add_user_settings_fields
<1>5. AllGentle(Up_add_enhanced_projects, F)
  BY <1>0 DEF KeptBy, Up_add_enhanced_projects
<1>6. AllGentle(Up_9351, F) /\ AllGentle(Up_add_tag_number_to_user, F) /\ AllGentle(Up_b695, F)
  BY <1>0 DEF KeptBy, Up_9351, Up_add_tag_number_to_user, Up_b695
<1>7. AllGentle(Up_add_notifications_v2, F) /\ AllGentle(Up_dcca, F)
  BY <1>0 DEF KeptBy, Up_add_notifications_v2, Up_dcca
<1>8. AllGentle(Up_add_timezone_user, F) /\ AllGentle(Up_8a96, F) /\ AllGentle(Up_9b12, F)
  BY <1>0 DEF KeptBy, Up_add_timezone_user, Up_8a96, Up_9b12
<1>9. AllGentle(Up_8376, F) /\ AllGentle(Up_b29c, F) /\ AllGentle(Up_0cd2, F)
  BY <1>0 DEF KeptBy, Up_8376, Up_b29c, Up_0cd2
<1>10. AllGentle(Up_15ac, F) /\ AllGentle(Up_add_org_id_to_role, F)
  BY <1>0 DEF KeptBy, Up_15ac, Up_add_org_id_to_role
<1>11. AllGentle(Up_f96d, F)
  BY <1>0 DEF KeptBy, Up_f96d
<1>12. AllGentle(Up_refactor_wallet, F) /\ AllGentle(Up_2cb8, F)
  BY <1>0 DEF KeptBy, Up_refactor_wallet, Up_2cb8
<1>13. AllGentle(Up_eb29, F) /\ AllGentle(Up_7f80, F) /\ AllGentle(Up_a53f, F)
  BY <1>0 DEF KeptBy, Up_eb29, Up_7f80, Up_a53f
<1>14. AllGentle(Up_a2d1, F) /\ AllGentle(Up_36eb, F)
  BY <1>0 DEF KeptBy, Up_a2d1, Up_36eb
<1> HIDE DEF AllGentle
<1> QED
  BY <1>1, <1>2, <1>3, <1>4, <1>5, <1>6, <1>7, <1>8, <1>9, <1>10, <1>11, <1>12, <1>13, <1>14

(* those with one,                                                         *)
LEMMA GentleTestedUpgrades ==
    ASSUME NEW F \in SUBSET Facts, NEW S
    PROVE  /\ AllGentle(Up_b066(S), F) /\ AllGentle(Up_fix_credit_transfer_cascade(S), F)
           /\ AllGentle(Up_ff95(S), F) /\ AllGentle(Up_3f33(S), F) /\ AllGentle(Up_6e60(S), F)
           /\ AllGentle(Up_f4b8f2(S), F) /\ AllGentle(Up_f4b8f3(S), F)
<1>0. KeptBy(F)
  BY KeptByStatements
<1>1. AllGentle(Up_b066(S), F)
  <2>1. AllGentle(HubChanges, F)
    BY <1>0 DEF AllGentle, KeptBy, HubChanges
  <2>2. AllGentle(ProductChanges, F)
    BY <1>0 DEF AllGentle, KeptBy, ProductChanges
  <2>3. AllGentle(<< AddColumns("user", {"username"}), CreateIndexes("user", {"username"}) >>, F)
    BY <1>0 DEF AllGentle, KeptBy
  <2>4. AllGentle(<< EnsureColumns("user",
             {"phone_number", "dial_code", "auth_provider", "address", "postcode", "city",
              "country", "credits", "status", "last_login"}),
          Alter("user", {"tag_number", "created_at", "updated_at"}) >>, F)
    BY <1>0 DEF AllGentle, KeptBy
  <2>5. AllGentle(UserColumns(S), F)
    BY <2>3, <2>4, GentleIfTested, GentleJoin DEF UserColumns
  <2> QED
    BY <2>1, <2>2, <2>5, GentleJoin DEF Up_b066
<1>2. AllGentle(Up_fix_credit_transfer_cascade(S), F)
  BY <1>0 DEF AllGentle, KeptBy, Up_fix_credit_transfer_cascade, NameTransferRefs
<1>3. AllGentle(Up_ff95(S), F)
  <2>1. AllGentle(<< CreateTable("wallet", {}, {}, {"owner_id", "owner_type"}) >>, F)
    BY <1>0 DEF AllGentle, KeptBy
  <2>2. AllGentle(<< CreateTable("wallet_transaction", {},
              {By("created_by", "user"), By("wallet_id", "wallet")},
              {"created_at", "idempotency_key", "transaction_type", "wallet_id"}) >>, F)
    BY <1>0 DEF AllGentle, KeptBy
  <2>3. AllGentle(<< EnsureColumns("copilot_message", {"agent_steps"}),
          EnsureColumns("workspace_credit_transaction", {"tokens"}) >>, F)
    BY <1>0 DEF AllGentle, KeptBy
  <2> QED
    BY <2>1, <2>2, <2>3, GentleIfTested, GentleJoin DEF Up_ff95
<1>4. AllGentle(Up_3f33(S), F)
  <2>1. \A t : AllGentle(OwnedByOrganization(S, t), F)
    <3> TAKE t
    <3>1. AllGentle(<< AddColumns(t, {"organization_id"}), CreateIndexes(t, {"organization_id"}),
                       Refer(t, By("organization_id", "organization")) >>, F)
      BY <1>0 DEF AllGentle, KeptBy
    <3> QED
      BY <3>1, GentleIfTested DEF OwnedByOrganization
  <2>2. ASSUME NEW t, NEW refs, Len(refs) \in Nat, DOMAIN refs = 1..Len(refs)
        PROVE  AllGentle(Renew(S, t, refs), F)
    <3>1. AllGentle([i \in DOMAIN refs |-> DiscardRef(t, refs[i])], F)
      BY <1>0, <2>2 DEF AllGentle, KeptBy
    <3>2. AllGentle([i \in DOMAIN refs |-> Refer(t, refs[i])], F)
      BY <1>0, <2>2 DEF AllGentle, KeptBy
    <3> QED
      BY <3>1, <3>2, GentleIfTested, GentleJoin DEF Renew
  <2>3. \A t, a : AllGentle(Renew(S, t, << a >>), F)
    BY <2>2
  <2>4. \A t, a, b : AllGentle(Renew(S, t, << a, b >>), F)
    BY <2>2
  <2> QED
    BY <2>1, <2>3, <2>4, GentleJoin DEF Up_3f33
<1>5. AllGentle(Up_6e60(S), F)
  <2>1. AllGentle(HubSchema, F)
    BY <1>0 DEF AllGentle, KeptBy, HubSchema
  <2>2. AllGentle(HubSchemaUse, F)
    BY <1>0 DEF AllGentle, KeptBy, HubSchemaUse
  <2>3. AllGentle(<< CreateTable("platform_settings", {}, {By("updated_by", "user")}, {}),
                     Insert("platform_settings") >>, F)
    BY <1>0 DEF AllGentle, KeptBy
  <2>4. AllGentle(<< CreateTable("security_event", {},
                       {By("assigned_to_id", "user"), By("user_id", "user")},
                       {"created_at", "severity", "status", "type"}) >>, F)
    BY <1>0 DEF AllGentle, KeptBy
  <2> QED
    BY <2>1, <2>2, <2>3, <2>4, GentleIfTested, GentleJoin DEF Up_6e60
<1>6. AllGentle(Up_f4b8f2(S), F)
  <2>1. \A cs : AllGentle(<< EnsureColumns("user", cs) >>, F)
    BY <1>0 DEF AllGentle, KeptBy
  <2>2. \A c : AllGentle(IndexIfPresent(S, c), F)
    <3> TAKE c
    <3>1. AllGentle(<< EnsureIndexes("user", {c}) >>, F)
      BY <1>0 DEF AllGentle, KeptBy
    <3> QED
      BY <3>1, GentleIfTested DEF IndexIfPresent
  <2> QED
    BY <2>1, <2>2, GentleIfTested, GentleJoin DEF Up_f4b8f2
<1>7. AllGentle(Up_f4b8f3(S), F)
  <2>1. AllGentle(<< CreateTable("audit_log", {}, {By("actor_id", "user")},
              {"action", "actor_id", "correlation_id", "organization_id", "target_id", "timestamp",
               "workspace_id"}) >>, F)
    BY <1>0 DEF AllGentle, KeptBy
  <2> QED
    BY <2>1, GentleIfTested DEF Up_f4b8f3
<1> QED
  BY <1>1, <1>2, <1>3, <1>4, <1>5, <1>6, <1>7

(* and those of the association's revisions.                               *)
LEMMA GentleAlumniUpgrades ==
    ASSUME NEW F \in SUBSET Facts
    PROVE  /\ AllGentle(Up_ab55, F) /\ AllGentle(Up_1eff, F) /\ AllGentle(Up_2ff9, F)
           /\ AllGentle(Up_2563, F) /\ AllGentle(Up_dc33, F) /\ AllGentle(Up_070c, F)
           /\ AllGentle(Up_a1b2, F)
<1>0. KeptBy(F)
  BY KeptByStatements
<1> USE DEF AllGentle
<1>1. AllGentle(Up_ab55, F)
  <2>1. "user" \notin LegacyTables /\ "payment" \notin LegacyTables
    BY DEF LegacyTables
  <2>2. Columns("user", {"tag_number", "organization_name", "account_type"}) \cap F = {}
    BY DEF Facts, UserFacts, UserColumnsOfModel, Columns, Column, KeyIsUuid, Rows
  <2> QED
    BY <1>0, <2>1, <2>2 DEF KeptBy, Up_ab55
<1>2. AllGentle(Up_1eff, F) /\ AllGentle(Up_2ff9, F) /\ AllGentle(Up_2563, F)
  BY <1>0 DEF KeptBy, Up_1eff, Up_2ff9, Up_2563
<1>3. AllGentle(Up_dc33, F) /\ AllGentle(Up_070c, F) /\ AllGentle(Up_a1b2, F)
  BY <1>0 DEF KeptBy, Up_dc33, Up_070c, Up_a1b2
<1> HIDE DEF AllGentle
<1> QED
  BY <1>1, <1>2, <1>3

-----------------------------------------------------------------------------
(* The replacement of the id of "user": a new column takes its name.       *)
LEMMA IdReplaced ==
    ASSUME NEW S, NEW A \in Run(Up_d98d, S)
    PROVE  /\ Facts \cap S \subseteq A
           /\ {Column("user", "id"), KeyIsUuid("user")} \subseteq A
           /\ RolesWhole(S) => RolesWhole(A)
<1> DEFINE Id == Column("user", "id")
           F  == Facts \ {Id}
<1>1. Len(Up_d98d) = 14
  BY DEF Up_d98d
<1>2. AllGentle(Up_d98d, F)
  <2>1. KeptBy(F)
    BY KeptByStatements
  <2>2. Gentle(RenameColumn("user", "new_id", "id"), F)
    <3>1. Column("user", "new_id") \notin F
      BY DEF Facts, UserFacts, UserColumnsOfModel, Columns, Column, KeyIsUuid, Rows
    <3> QED
      BY <3>1, FactsAreSolid, GentleStatements DEF RoleNames
  <2>3. Columns("user", {"id"}) \cap F = {}
    BY DEF Columns
  <2> HIDE DEF F, Id
  <2> QED
    BY <2>1, <2>2, <2>3 DEF KeptBy, AllGentle, Up_d98d
<1>3. F \cap S \subseteq A /\ (RolesWhole(S) => RolesWhole(A))
  BY <1>2, RunKeeps
<1>4. \A i \in 11..14 : Gentle(Up_d98d[i], {Id, KeyIsUuid("user")})
  <2>1. KeptBy({Id, KeyIsUuid("user")})
    <3>1. {Id, KeyIsUuid("user")} \in SUBSET Facts
      BY DEF Facts, UserFacts, Columns, UserColumnsOfModel
    <3> QED
      BY <3>1, KeptByStatements
  <2>2. /\ Up_d98d[11] = Uuid("user") /\ Up_d98d[12] = DropColumns("item", {"id"})
        /\ Up_d98d[13] = RenameColumn("item", "new_id", "id")
        /\ Up_d98d[14] = Refer("item", By("owner_id", "user"))
    BY DEF Up_d98d
  <2>3. /\ Gentle(Uuid("user"), {Id, KeyIsUuid("user")})
        /\ Gentle(DropColumns("item", {"id"}), {Id, KeyIsUuid("user")})
        /\ Gentle(RenameColumn("item", "new_id", "id"), {Id, KeyIsUuid("user")})
        /\ Gentle(Refer("item", By("owner_id", "user")), {Id, KeyIsUuid("user")})
    BY <2>1 DEF KeptBy
  <2>4. \A i \in 11..14 : i = 11 \/ i = 12 \/ i = 13 \/ i = 14
    OBVIOUS
  <2> QED
    BY <2>2, <2>3, <2>4
<1>5. /\ \A i \in (10 + 1)..Len(Up_d98d) : Keeps(Up_d98d[i], {Id})
      /\ \A i \in (11 + 1)..Len(Up_d98d) : Keeps(Up_d98d[i], {KeyIsUuid("user")})
      /\ 10 \in 1..Len(Up_d98d) /\ 11 \in 1..Len(Up_d98d) /\ Len(Up_d98d) \in Nat
  BY <1>1, <1>4 DEF Gentle, Keeps
<1>6. Id \in A
  <2>1. \A B : ~ Refused(Up_d98d[10], B) => {Id} \subseteq Effect(Up_d98d[10], B)
    <3> TAKE B
    <3> HAVE ~ Refused(Up_d98d[10], B)
    <3>1. Up_d98d[10] = RenameColumn("user", "new_id", "id")
      BY DEF Up_d98d
    <3>2. /\ Up_d98d[10].need = {Column("user", "new_id")}
          /\ Up_d98d[10].rename = <<"user", "new_id", "id">>
      BY <3>1 DEF RenameColumn, Nothing
    <3>3. Column("user", "new_id") \in B
      BY <3>2 DEF Refused
    <3>4. Effect(Up_d98d[10], B) = Renamed(B, "user", "new_id", "id")
      BY <3>2 DEF Effect
    <3> QED
      BY <3>3, <3>4 DEF Renamed
  <2>2. {Id} \subseteq A
    BY <1>5, <2>1, RunMakes
  <2> QED
    BY <2>2
<1>7. KeyIsUuid("user") \in A
  <2>1. \A B : {KeyIsUuid("user")} \subseteq Effect(Up_d98d[11], B)
    BY DEF Up_d98d, Uuid, Nothing, Effect
  <2>2. {KeyIsUuid("user")} \subseteq A
    BY <1>5, <2>1, RunMakes
  <2> QED
    BY <2>2
<1> QED
  BY <1>3, <1>6, <1>7

-----------------------------------------------------------------------------
(* The facts of "user" that a server needs, by the revision that makes     *)
(* them.                                                                   *)
MadeBy(r) ==
  CASE r = "e241" -> Columns("user", {"email", "is_active", "is_superuser", "full_name",
                                      "hashed_password"})
    [] r = "d98d" -> {Column("user", "id"), KeyIsUuid("user")}
    [] r = "add_user_settings_fields" ->
         Columns("user", {"first_name", "last_name", "phone", "state", "avatar", "created_at",
                          "updated_at"})
    [] r = "dcca" -> Columns("user", {"accepted_terms_at"})
    [] r = "b066" -> Columns("user", {"username", "phone_number", "dial_code", "auth_provider",
                                      "address", "postcode", "city", "country", "credits",
                                      "status", "last_login"})
    [] r = "add_timezone_user" -> Columns("user", {"timezone"})
    [] r = "a53f" -> Columns("user", {"is_verified"})
    [] r = "ab55" -> Columns("user", {"graduation_year", "profession", "membership_id"})
    [] r = "2ff9" -> Columns("user", {"nickname", "alternative_email", "gender", "fgce_set",
                                      "fgce_house"})
    [] OTHER      -> {}

(* They are all among what a server needs.                                 *)
LEMMA MadeIsOfUser == \A r : MadeBy(r) \subseteq UserFacts
<1> TAKE r
<1>1. \A cs : cs \subseteq UserColumnsOfModel => Columns("user", cs) \subseteq UserFacts
  BY DEF UserFacts, Columns
<1>2. {Column("user", "id"), KeyIsUuid("user")} \subseteq UserFacts
  BY DEF UserFacts, Columns, UserColumnsOfModel
<1> QED
  BY <1>1, <1>2 DEF MadeBy, UserColumnsOfModel

(* Nine revisions make all that a server needs of "user".                  *)
LEMMA AllIsMade ==
    ASSUME NEW R, {"e241", "d98d", "add_user_settings_fields", "dcca", "b066", "add_timezone_user",
                   "a53f", "ab55", "2ff9"} \subseteq R
    PROVE  UserFacts \subseteq UNION {MadeBy(r) : r \in R}
<1> SUFFICES ASSUME NEW f \in UserFacts PROVE \E r \in R : f \in MadeBy(r)
  OBVIOUS
<1>1. CASE f = KeyIsUuid("user")
  BY <1>1 DEF MadeBy
<1>2. CASE f # KeyIsUuid("user")
  <2>1. PICK c \in UserColumnsOfModel : f = Column("user", c)
    BY <1>2 DEF UserFacts, Columns
  <2>2. CASE c \in {"email", "is_active", "is_superuser", "full_name", "hashed_password"}
    BY <2>1, <2>2 DEF MadeBy, Columns
  <2>3. CASE c \in {"first_name", "last_name", "phone", "state", "avatar", "created_at",
                    "updated_at"}
    BY <2>1, <2>3 DEF MadeBy, Columns
  <2>4. CASE c \in {"username", "phone_number", "dial_code", "auth_provider", "address", "postcode",
                    "city", "country", "credits", "status", "last_login"}
    BY <2>1, <2>4 DEF MadeBy, Columns
  <2>5. CASE c \in {"graduation_year", "profession", "membership_id"}
    BY <2>1, <2>5 DEF MadeBy, Columns
  <2>6. CASE c \in {"nickname", "alternative_email", "gender", "fgce_set", "fgce_house"}
    BY <2>1, <2>6 DEF MadeBy, Columns
  <2>7. CASE c \in {"id", "accepted_terms_at", "timezone", "is_verified"}
    BY <2>1, <2>7 DEF MadeBy, Columns
  <2> QED
    BY <2>1, <2>2, <2>3, <2>4, <2>5, <2>6, <2>7 DEF UserColumnsOfModel
<1> QED
  BY <1>1, <1>2

(* No two revisions make the same.                                         *)
LEMMA MadeOnce == \A q, r : q # r => MadeBy(q) \cap MadeBy(r) = {}
<1> SUFFICES ASSUME NEW q, NEW r, NEW f, f \in MadeBy(q), f \in MadeBy(r) PROVE q = r
  OBVIOUS
<1>1. CASE f = KeyIsUuid("user")
  BY <1>1 DEF MadeBy, Columns, Column, KeyIsUuid
<1>2. CASE f # KeyIsUuid("user")
  <2>1. PICK c : f = Column("user", c)
    BY <1>2, MadeIsOfUser DEF UserFacts, Columns
  <2>2. \A d : Column("user", c) = Column("user", d) => c = d
    BY DEF Column
  <2>3. \A d : Column("user", d) # KeyIsUuid("user")
    BY DEF Column, KeyIsUuid
  <2> QED
    BY <2>1, <2>2, <2>3 DEF MadeBy, Columns
<1> QED
  BY <1>1, <1>2

(* What a statement makes is there after it.                               *)
LEMMA StatementsMake ==
    /\ \A t, cs, B : Columns(t, cs) \subseteq Effect(AddColumns(t, cs), B)
    /\ \A t, cs, B : Columns(t, cs) \subseteq Effect(EnsureColumns(t, cs), B)
    /\ \A t, cols, refs, idx, B :
         Columns(t, cols \cup idx) \subseteq Effect(CreateTable(t, cols, refs, idx), B)
<1>1. \A t, cs, B : Columns(t, cs) \subseteq Effect(AddColumns(t, cs), B)
  BY DEF AddColumns, Nothing, Effect
<1>2. \A t, cs, B : Columns(t, cs) \subseteq Effect(EnsureColumns(t, cs), B)
  BY DEF EnsureColumns, Nothing, Effect
<1>3. ASSUME NEW t, NEW cols, NEW refs, NEW idx, NEW B
      PROVE  Columns(t, cols \cup idx) \subseteq Effect(CreateTable(t, cols, refs, idx), B)
  <2> DEFINE o == CreateTable(t, cols, refs, idx)
  <2>1. o.rename = <<>> /\ Columns(t, cols \cup idx \cup {r[2] : r \in refs}) \subseteq o.made
    BY DEF CreateTable, Nothing
  <2>2. Columns(t, cols \cup idx) \subseteq o.made
    <3> HIDE DEF o
    <3> QED
      BY <2>1 DEF Columns
  <2> HIDE DEF o
  <2>3. Columns(t, cols \cup idx) \subseteq Effect(o, B)
    BY <2>1, <2>2 DEF Effect
  <2> QED
    BY <2>3 DEF o
<1> QED
  BY <1>1, <1>2, <1>3

(* What one statement of a gentle transaction makes is there at its end.   *)
LEMMA GentleMakes ==
    ASSUME NEW F, NEW ops, AllGentle(ops, F), NEW k \in 1..Len(ops),
           \A B : ~ Refused(ops[k], B) => F \subseteq Effect(ops[k], B),
           NEW S, NEW A \in Run(ops, S)
    PROVE  F \subseteq A
<1>1. \A i \in (k + 1)..Len(ops) : Keeps(ops[i], F)
  BY DEF AllGentle, Gentle
<1> QED
  BY <1>1, RunMakes DEF AllGentle

(* The statements of two lists joined.                                     *)
LEMMA JoinedAt ==
    ASSUME NEW a, NEW b, Len(a) \in Nat, Len(b) \in Nat
    PROVE  /\ Len(a \o b) = Len(a) + Len(b) /\ Len(a \o b) \in Nat
           /\ \A i \in 1..Len(a) : i \in 1..Len(a \o b) /\ (a \o b)[i] = a[i]
           /\ \A i \in 1..Len(b) : /\ Len(a) + i \in 1..Len(a \o b)
                                   /\ (a \o b)[Len(a) + i] = b[i]
OBVIOUS

(* Each upgrade that succeeds has made its part of "user".                 *)
LEMMA UpgradesMake ==
    ASSUME NEW r, NEW S, NEW A \in Run(UpgradeOf(r, S), S)
    PROVE  MadeBy(r) \subseteq A
<1> DEFINE F == MadeBy(r)
<1>0. F \in SUBSET Facts
  BY MadeIsOfUser DEF Facts
<1>1. CASE r = "e241"
  <2>1. UpgradeOf(r, S) = Up_e241 /\ 1 \in 1..Len(Up_e241)
    BY <1>1 DEF UpgradeOf, Up_e241
  <2>2. AllGentle(Up_e241, F)
    BY <1>0, GentleProductUpgrades
  <2>3. F = Columns("user", {"email", "is_active", "is_superuser", "full_name", "hashed_password"})
    BY <1>1 DEF MadeBy
  <2>4. \A B : F \subseteq Effect(Up_e241[1], B)
    <3> TAKE B
    <3>1. F \subseteq Columns("user", {"is_active", "is_superuser", "full_name", "id",
                                       "hashed_password"} \cup {"email"})
      BY <2>3 DEF Columns
    <3> QED
      BY <3>1, StatementsMake DEF Up_e241
  <2> QED
    BY <2>1, <2>2, <2>4, GentleMakes
<1>2. CASE r = "d98d"
  BY <1>2, IdReplaced DEF MadeBy, UpgradeOf
<1>3. CASE r = "add_user_settings_fields"
  <2>1. UpgradeOf(r, S) = Up_add_user_settings_fields /\ 1 \in 1..Len(Up_add_user_settings_fields)
    BY <1>3 DEF UpgradeOf, Up_add_user_settings_fields
  <2>2. AllGentle(Up_add_user_settings_fields, F)
    BY <1>0, GentleProductUpgrades
  <2>3. \A B : F \subseteq Effect(Up_add_user_settings_fields[1], B)
    BY <1>3, StatementsMake DEF MadeBy, Up_add_user_settings_fields
  <2> QED
    BY <2>1, <2>2, <2>3, GentleMakes
<1>4. CASE r = "dcca"
  <2>1. UpgradeOf(r, S) = Up_dcca /\ 1 \in 1..Len(Up_dcca)
    BY <1>4 DEF UpgradeOf, Up_dcca
  <2>2. AllGentle(Up_dcca, F)
    BY <1>0, GentleProductUpgrades
  <2>3. \A B : F \subseteq Effect(Up_dcca[1], B)
    <3> TAKE B
    <3>1. F \subseteq Columns("user", {"account_type", "organization_name", "accepted_terms_at"})
      BY <1>4 DEF MadeBy, Columns
    <3> QED
      BY <3>1, StatementsMake DEF Up_dcca
  <2> QED
    BY <2>1, <2>2, <2>3, GentleMakes
<1>5. CASE r = "b066"
  <2> DEFINE ops == Up_b066(S)
             More == {"phone_number", "dial_code", "auth_provider", "address", "postcode", "city",
                      "country", "credits", "status", "last_login"}
  <2>1. UpgradeOf(r, S) = ops
    BY <1>5 DEF UpgradeOf
  <2>2. F = Columns("user", {"username"} \cup More)
    BY <1>5 DEF MadeBy, Columns
  <2>3. Columns("user", More) \in SUBSET Facts /\ Columns("user", {"username"}) \in SUBSET Facts
    BY <1>0, <2>2 DEF Columns
  <2>4. AllGentle(ops, Columns("user", More)) /\ AllGentle(ops, Columns("user", {"username"}))
    BY <2>3, GentleTestedUpgrades
  <2>5. Len(HubChanges \o ProductChanges) \in Nat /\ Len(UserColumns(S)) \in Nat
    BY DEF HubChanges, ProductChanges, UserColumns, Unless
  <2>6. ASSUME NEW k \in 1..Len(UserColumns(S)), NEW G \in SUBSET Facts, AllGentle(ops, G),
               \A B : G \subseteq Effect(UserColumns(S)[k], B)
        PROVE  G \subseteq A
    <3>1. ops = HubChanges \o ProductChanges \o UserColumns(S)
      BY DEF Up_b066
    <3>2. PICK j \in 1..Len(ops) : ops[j] = UserColumns(S)[k]
      <4> DEFINE a == HubChanges \o ProductChanges
      <4>1. /\ Len(a) + k \in 1..Len(a \o UserColumns(S))
            /\ (a \o UserColumns(S))[Len(a) + k] = UserColumns(S)[k]
        <5> HIDE DEF a
        <5> QED
          BY <2>5, JoinedAt
      <4> QED
        BY <3>1, <4>1
    <3> HIDE DEF ops
    <3> QED
      BY <2>1, <2>6, <3>2, GentleMakes
  <2>7. CASE Column("user", "username") \in S
    <3>1. UserColumns(S)[1] = EnsureColumns("user", More) /\ 1 \in 1..Len(UserColumns(S))
      BY <2>7 DEF UserColumns, Unless
    <3>2. Columns("user", More) \subseteq A
      BY <2>3, <2>4, <2>6, <3>1, StatementsMake
    <3>3. Columns("user", {"username"}) \cap S \subseteq A
      BY <2>1, <2>4, RunKeeps
    <3> QED
      BY <2>2, <2>7, <3>2, <3>3 DEF Columns
  <2>8. CASE Column("user", "username") \notin S
    <3>1. /\ UserColumns(S)[1] = AddColumns("user", {"username"}) /\ 1 \in 1..Len(UserColumns(S))
          /\ UserColumns(S)[3] = EnsureColumns("user", More) /\ 3 \in 1..Len(UserColumns(S))
      BY <2>8 DEF UserColumns, Unless
    <3>2. Columns("user", More) \subseteq A
      BY <2>3, <2>4, <2>6, <3>1, StatementsMake
    <3>3. Columns("user", {"username"}) \subseteq A
      BY <2>3, <2>4, <2>6, <3>1, StatementsMake
    <3> QED
      BY <2>2, <3>2, <3>3 DEF Columns
  <2> QED
    BY <2>7, <2>8
<1>6. CASE r = "add_timezone_user"
  <2>1. UpgradeOf(r, S) = Up_add_timezone_user /\ 1 \in 1..Len(Up_add_timezone_user)
    BY <1>6 DEF UpgradeOf, Up_add_timezone_user
  <2>2. AllGentle(Up_add_timezone_user, F)
    BY <1>0, GentleProductUpgrades
  <2>3. \A B : F \subseteq Effect(Up_add_timezone_user[1], B)
    BY <1>6, StatementsMake DEF MadeBy, Up_add_timezone_user
  <2> QED
    BY <2>1, <2>2, <2>3, GentleMakes
<1>7. CASE r = "a53f"
  <2>1. UpgradeOf(r, S) = Up_a53f /\ 1 \in 1..Len(Up_a53f)
    BY <1>7 DEF UpgradeOf, Up_a53f
  <2>2. AllGentle(Up_a53f, F)
    BY <1>0, GentleProductUpgrades
  <2>3. \A B : F \subseteq Effect(Up_a53f[1], B)
    BY <1>7, StatementsMake DEF MadeBy, Up_a53f
  <2> QED
    BY <2>1, <2>2, <2>3, GentleMakes
<1>8. CASE r = "ab55"
  <2>1. UpgradeOf(r, S) = Up_ab55 /\ 6 \in 1..Len(Up_ab55)
    BY <1>8 DEF UpgradeOf, Up_ab55
  <2>2. AllGentle(Up_ab55, F)
    BY <1>0, GentleAlumniUpgrades
  <2>3. \A B : F \subseteq Effect(Up_ab55[6], B)
    BY <1>8, StatementsMake DEF MadeBy, Up_ab55
  <2> QED
    BY <2>1, <2>2, <2>3, GentleMakes
<1>9. CASE r = "2ff9"
  <2>1. UpgradeOf(r, S) = Up_2ff9 /\ 1 \in 1..Len(Up_2ff9)
    BY <1>9 DEF UpgradeOf, Up_2ff9
  <2>2. AllGentle(Up_2ff9, F)
    BY <1>0, GentleAlumniUpgrades
  <2>3. \A B : F \subseteq Effect(Up_2ff9[1], B)
    BY <1>9, StatementsMake DEF MadeBy, Up_2ff9
  <2> QED
    BY <2>1, <2>2, <2>3, GentleMakes
<1>10. CASE r \notin {"e241", "d98d", "add_user_settings_fields", "dcca", "b066",
                      "add_timezone_user", "a53f", "ab55", "2ff9"}
  BY <1>10 DEF MadeBy
<1> QED
  BY <1>1, <1>2, <1>3, <1>4, <1>5, <1>6, <1>7, <1>8, <1>9, <1>10

(* An upgrade makes its part of "user", and keeps the rest and the         *)
(* payments.                                                               *)
LEMMA UpgradesKeep ==
    ASSUME NEW r, NEW S, NEW A \in Run(UpgradeOf(r, S), S)
    PROVE  Facts \cap S \subseteq A /\ (RolesWhole(S) => RolesWhole(A))
<1>1. CASE r = "d98d"
  BY <1>1, IdReplaced DEF UpgradeOf
<1>2. CASE r # "d98d"
  <2>1. AllGentle(UpgradeOf(r, S), Facts)
    <3>1. AllGentle(<<>>, Facts)
      BY DEF AllGentle
    <3> QED
      BY <1>2, <3>1, GentleProductUpgrades, GentleTestedUpgrades, GentleAlumniUpgrades DEF UpgradeOf
  <2> QED
    BY <2>1, RunKeeps
<1> QED
  BY <1>1, <1>2

-----------------------------------------------------------------------------
(* The downgrades that do not touch "user" keep all of it: the product's,  *)
LEMMA GentleProductDowngrades ==
    ASSUME NEW F \in SUBSET Facts, NEW S
    PROVE  /\ AllGentle(Down_9c0a, F) /\ AllGentle(Down_1a31, F)
           /\ AllGentle(Down_add_rbac_tables, F)
           /\ AllGentle(Down_drop_item_table, F) /\ AllGentle(Down_add_ai_chat_001, F)
           /\ AllGentle(Down_add_dashboard_models, F) /\ AllGentle(Down_8825, F)
           /\ AllGentle(Down_add_enhanced_projects, F) /\ AllGentle(Down_9351, F)
           /\ AllGentle(Down_add_tag_number_to_user, F) /\ AllGentle(Down_b695, F)
           /\ AllGentle(Down_add_notifications_v2, F) /\ AllGentle(Down_8a96, F)
           /\ AllGentle(Down_9b12, F) /\ AllGentle(Down_8376, F) /\ AllGentle(Down_b29c, F)
           /\ AllGentle(Down_0cd2, F) /\ AllGentle(Down_15ac, F) /\ AllGentle(Down_f96d, F)
           /\ AllGentle(Down_add_org_id_to_role, F) /\ AllGentle(Down_refactor_wallet, F)
           /\ AllGentle(Down_fix_credit_transfer_cascade(S), F) /\ AllGentle(Down_2cb8, F)
           /\ AllGentle(Down_ff95, F) /\ AllGentle(Down_3f33, F) /\ AllGentle(Down_eb29, F)
           /\ AllGentle(Down_6e60, F) /\ AllGentle(Down_7f80, F) /\ AllGentle(Down_f4b8f3, F)
           /\ AllGentle(Down_a2d1, F) /\ AllGentle(Down_36eb, F)
<1>0. KeptBy(F)
  BY KeptByStatements
<1>1. Columns("user", {"tag_number"}) \cap F = {}
  BY DEF Facts, UserFacts, UserColumnsOfModel, Columns, Column, KeyIsUuid, Rows
<1> USE DEF AllGentle
<1>2. AllGentle(Down_9c0a, F) /\ AllGentle(Down_1a31, F) /\ AllGentle(Down_add_rbac_tables, F)
  BY <1>0 DEF KeptBy, Down_9c0a, Down_1a31, Down_add_rbac_tables
<1>3. /\ AllGentle(Down_drop_item_table, F) /\ AllGentle(Down_add_ai_chat_001, F)
      /\ AllGentle(Down_add_dashboard_models, F) /\ AllGentle(Down_8825, F)
  BY <1>0 DEF KeptBy, Down_drop_item_table, Down_add_ai_chat_001, Down_add_dashboard_models,
              Down_8825
<1>4. AllGentle(Down_add_enhanced_projects, F) /\ AllGentle(Down_9351, F)
  BY <1>0 DEF KeptBy, Down_add_enhanced_projects, Down_9351
<1>5. AllGentle(Down_add_tag_number_to_user, F) /\ AllGentle(Down_b695, F)
  BY <1>0, <1>1 DEF KeptBy, Down_add_tag_number_to_user, Down_b695
<1>6. AllGentle(Down_add_notifications_v2, F) /\ AllGentle(Down_8a96, F)
  BY <1>0 DEF KeptBy, Down_add_notifications_v2, Down_8a96
<1>7. AllGentle(Down_9b12, F) /\ AllGentle(Down_8376, F) /\ AllGentle(Down_b29c, F)
  BY <1>0 DEF KeptBy, Down_9b12, Down_8376, Down_b29c
<1>8. AllGentle(Down_0cd2, F) /\ AllGentle(Down_15ac, F)
  BY <1>0 DEF KeptBy, Down_0cd2, Down_15ac
<1>9. AllGentle(Down_f96d, F)
  BY <1>0 DEF KeptBy, Down_f96d
<1>10. AllGentle(Down_add_org_id_to_role, F) /\ AllGentle(Down_refactor_wallet, F)
  BY <1>0 DEF KeptBy, Down_add_org_id_to_role, Down_refactor_wallet
<1>11. AllGentle(Down_fix_credit_transfer_cascade(S), F) /\ AllGentle(Down_2cb8, F)
  BY <1>0 DEF KeptBy, Down_fix_credit_transfer_cascade, NameTransferRefs, Down_2cb8
<1>12. AllGentle(Down_ff95, F) /\ AllGentle(Down_eb29, F)
  BY <1>0 DEF KeptBy, Down_ff95, Down_eb29
<1>13. AllGentle(Down_3f33, F)
  BY <1>0 DEF KeptBy, Down_3f33
<1>14. AllGentle(Down_6e60, F) /\ AllGentle(Down_7f80, F) /\ AllGentle(Down_f4b8f3, F)
  BY <1>0 DEF KeptBy, Down_6e60, Down_7f80, Down_f4b8f3
<1>15. AllGentle(Down_a2d1, F) /\ AllGentle(Down_36eb, F)
  BY <1>0 DEF KeptBy, Down_a2d1, Down_36eb
<1> HIDE DEF AllGentle
<1> QED
  BY <1>2, <1>3, <1>4, <1>5, <1>6, <1>7, <1>8, <1>9, <1>10, <1>11, <1>12, <1>13, <1>14, <1>15

(* and the association's.                                                  *)
LEMMA GentleAlumniDowngrades ==
    ASSUME NEW F \in SUBSET Facts
    PROVE  /\ AllGentle(Down_1eff, F) /\ AllGentle(Down_2563, F) /\ AllGentle(Down_dc33, F)
           /\ AllGentle(Down_070c, F) /\ AllGentle(Down_a1b2, F)
<1>1. KeptBy(F)
  BY KeptByStatements
<1> QED
  BY <1>1 DEF AllGentle, KeptBy, Down_1eff, Down_2563, Down_dc33, Down_070c, Down_a1b2

(* The downgrades of the revisions that make a part of "user" take that    *)
(* part, and no other.                                                     *)
LEMMA UserDowngrades ==
    /\ AllGentle(Down_add_user_settings_fields, Facts \ MadeBy("add_user_settings_fields"))
    /\ AllGentle(Down_dcca, Facts \ MadeBy("dcca"))
    /\ AllGentle(Down_b066, Facts \ MadeBy("b066"))
    /\ AllGentle(Down_add_timezone_user, Facts \ MadeBy("add_timezone_user"))
    /\ AllGentle(Down_a53f, Facts \ MadeBy("a53f"))
    /\ AllGentle(Down_2ff9, Facts \ MadeBy("2ff9"))
    /\ AllGentle(Down_d98d, Facts \ MadeBy("d98d"))
<1>0. ASSUME NEW cs, NEW r, Columns("user", cs \cap UserColumnsOfModel) = MadeBy(r)
      PROVE  Columns("user", cs) \cap (Facts \ MadeBy(r)) = {}
  BY <1>0 DEF Facts, UserFacts, Columns, Column, KeyIsUuid, Rows
<1>1. \A r : KeptBy(Facts \ MadeBy(r))
  BY KeptByStatements
<1>2. AllGentle(Down_add_user_settings_fields, Facts \ MadeBy("add_user_settings_fields"))
  <2> DEFINE F == Facts \ MadeBy("add_user_settings_fields")
             cs == {"updated_at", "created_at", "avatar", "state", "phone", "last_name",
                    "first_name"}
  <2>1. Columns("user", cs \cap UserColumnsOfModel) = MadeBy("add_user_settings_fields")
    BY DEF MadeBy, UserColumnsOfModel, Columns
  <2>2. Columns("user", cs) \cap F = {} /\ KeptBy(F)
    BY <1>0, <1>1, <2>1
  <2> HIDE DEF F
  <2>3. AllGentle(Down_add_user_settings_fields, F)
    BY <2>2 DEF KeptBy, AllGentle, Down_add_user_settings_fields
  <2> QED
    BY <2>3 DEF F
<1>3. AllGentle(Down_dcca, Facts \ MadeBy("dcca"))
  <2> DEFINE F == Facts \ MadeBy("dcca")
             cs == {"accepted_terms_at", "organization_name", "account_type"}
  <2>1. Columns("user", cs \cap UserColumnsOfModel) = MadeBy("dcca")
    BY DEF MadeBy, UserColumnsOfModel, Columns
  <2>2. Columns("user", cs) \cap F = {} /\ KeptBy(F)
    BY <1>0, <1>1, <2>1
  <2> HIDE DEF F
  <2>3. AllGentle(Down_dcca, F)
    BY <2>2 DEF KeptBy, AllGentle, Down_dcca
  <2> QED
    BY <2>3 DEF F
<1>4. AllGentle(Down_b066, Facts \ MadeBy("b066"))
  <2> DEFINE F == Facts \ MadeBy("b066")
             cs == {"last_login", "status", "credits", "country", "city", "postcode",
                    "address", "auth_provider", "dial_code", "phone_number", "username"}
  <2>1. Columns("user", cs \cap UserColumnsOfModel) = MadeBy("b066")
    BY DEF MadeBy, UserColumnsOfModel, Columns
  <2>2. Columns("user", cs) \cap F = {} /\ KeptBy(F)
    BY <1>0, <1>1, <2>1
  <2> HIDE DEF F
  <2>3. AllGentle(Down_b066, F)
    BY <2>2 DEF KeptBy, AllGentle, Down_b066
  <2> QED
    BY <2>3 DEF F
<1>5. AllGentle(Down_add_timezone_user, Facts \ MadeBy("add_timezone_user"))
  <2> DEFINE F == Facts \ MadeBy("add_timezone_user")
  <2>1. Columns("user", {"timezone"} \cap UserColumnsOfModel) = MadeBy("add_timezone_user")
    BY DEF MadeBy, UserColumnsOfModel, Columns
  <2>2. Columns("user", {"timezone"}) \cap F = {} /\ KeptBy(F)
    BY <1>0, <1>1, <2>1
  <2> HIDE DEF F
  <2>3. AllGentle(Down_add_timezone_user, F)
    BY <2>2 DEF KeptBy, AllGentle, Down_add_timezone_user
  <2> QED
    BY <2>3 DEF F
<1>6. AllGentle(Down_a53f, Facts \ MadeBy("a53f"))
  <2> DEFINE F == Facts \ MadeBy("a53f")
  <2>1. Columns("user", {"is_verified"} \cap UserColumnsOfModel) = MadeBy("a53f")
    BY DEF MadeBy, UserColumnsOfModel, Columns
  <2>2. Columns("user", {"is_verified"}) \cap F = {} /\ KeptBy(F)
    BY <1>0, <1>1, <2>1
  <2> HIDE DEF F
  <2>3. AllGentle(Down_a53f, F)
    BY <2>2 DEF KeptBy, AllGentle, Down_a53f
  <2> QED
    BY <2>3 DEF F
<1>7. AllGentle(Down_2ff9, Facts \ MadeBy("2ff9"))
  <2> DEFINE F == Facts \ MadeBy("2ff9")
             cs == {"fgce_house", "fgce_set", "gender", "alternative_email", "nickname"}
  <2>1. Columns("user", cs \cap UserColumnsOfModel) = MadeBy("2ff9")
    BY DEF MadeBy, UserColumnsOfModel, Columns
  <2>2. Columns("user", cs) \cap F = {} /\ KeptBy(F)
    BY <1>0, <1>1, <2>1
  <2> HIDE DEF F
  <2>3. AllGentle(Down_2ff9, F)
    BY <2>2 DEF KeptBy, AllGentle, Down_2ff9
  <2> QED
    BY <2>3 DEF F
<1>8. AllGentle(Down_d98d, Facts \ MadeBy("d98d"))
  <2> DEFINE F == Facts \ MadeBy("d98d")
  <2>1. /\ Columns("user", {"id"}) \cap F = {} /\ KeyIsUuid("user") \notin F
        /\ Column("user", "old_id") \notin F
    BY DEF MadeBy, Facts, UserFacts, UserColumnsOfModel, Columns, Column, KeyIsUuid, Rows
  <2>2. KeptBy(F)
    BY <1>1
  <2>3. Solid(F) /\ "user" \notin RoleNames
    BY FactsAreSolid DEF RoleNames
  <2> HIDE DEF F
  <2>4. Gentle(RenameColumn("user", "old_id", "id"), F) /\ Gentle(Serial("user"), F)
    BY <2>1, <2>3, GentleStatements
  <2>5. AllGentle(Down_d98d, F)
    BY <2>1, <2>2, <2>4 DEF KeptBy, AllGentle, Down_d98d
  <2> QED
    BY <2>5 DEF F
<1> QED
  BY <1>2, <1>3, <1>4, <1>5, <1>6, <1>7, <1>8

(* A statement of a transaction that is not refused has run.               *)
LEMMA RunPasses ==
    ASSUME NEW ops, Len(ops) \in Nat, NEW S, NEW after, Stages(after, ops, S), Run(ops, S) # {},
           NEW k \in 1..Len(ops)
    PROVE  \E B \in after[k - 1] : ~ Refused(ops[k], B)
<1> DEFINE T == {n \in Nat : n <= Len(ops) => after[Len(ops) - n] # {}}
<1>1. 0 \in T
  BY DEF Stages
<1>2. ASSUME NEW n \in T PROVE n + 1 \in T
  <2> SUFFICES ASSUME n + 1 <= Len(ops) PROVE after[Len(ops) - (n + 1)] # {}
    OBVIOUS
  <2> DEFINE i == Len(ops) - n
  <2>1. i \in 1..Len(ops) /\ i - 1 = Len(ops) - (n + 1) /\ after[i] # {}
    OBVIOUS
  <2>2. after[i] = Executed(ops[i], after[i - 1])
    BY <2>1 DEF Stages
  <2> QED
    BY <2>1, <2>2 DEF Executed
<1>3. T = Nat
  <2> HIDE DEF T
  <2>1. T \subseteq Nat
    BY DEF T
  <2> QED
    BY <1>1, <1>2, <2>1, SetInduction
<1>4. after[k] # {}
  <2>1. Len(ops) - k \in Nat /\ Len(ops) - k <= Len(ops) /\ Len(ops) - (Len(ops) - k) = k
    OBVIOUS
  <2>2. Len(ops) - k \in T
    BY <1>3, <2>1
  <2> QED
    BY <2>1, <2>2
<1> QED
  BY <1>4 DEF Stages, Executed

(* The downgrade of ab55 never succeeds: one of its statements needs the   *)
(* table of the organizations, and a later one makes it.                   *)
THEOREM TransitionStays == \A S : Run(Down_ab55, S) = {}
<1> SUFFICES ASSUME NEW S, Run(Down_ab55, S) # {} PROVE FALSE
  OBVIOUS
<1> DEFINE F == {Table("organization")}
           First == AccountsBack \o UsageBack \o ProjectsBack
           m == Len(First)
<1>1. /\ Len(AccountsBack) \in Nat /\ Len(AccountsBack) >= 6
      /\ Len(UsageBack) \in Nat /\ Len(ProjectsBack) \in Nat
      /\ Len(WorkspacesBack) \in Nat /\ Len(WorkspacesBack) >= 1
  BY DEF AccountsBack, UsageBack, ProjectsBack, WorkspacesBack
<1>2. Len(First) \in Nat /\ Len(First) >= 6 /\ First[6] = AccountsBack[6]
  BY <1>1
<1>3. Down_ab55 = First \o WorkspacesBack
  BY DEF Down_ab55
<1> HIDE DEF First
<1>4. /\ Len(Down_ab55) = Len(First) + Len(WorkspacesBack)
      /\ Down_ab55[Len(First) + 1] = WorkspacesBack[1]
      /\ \A i \in 1..Len(First) : Down_ab55[i] = First[i]
  BY <1>1, <1>2, <1>3
<1>5. AllGentle(First, F)
  <2>1. Solid(F) /\ (\A f \in F : f[1] # "unique") /\ \A f \in F : f[2] = "organization"
    BY DEF Solid, Table
  <2>2. \A o : Mild(o) => Gentle(o, F)
    BY <2>1, MildIsGentle
  <2>3. /\ \A t, cols, refs, idx : t \notin {"role", "permission", "userrole", "rolepermission"}
                                     => Gentle(CreateTable(t, cols, refs, idx), F)
        /\ \A cs : Gentle(DropColumns("user", cs), F)
    <3>1. \A t, cs : Columns(t, cs) \cap F = {}
      BY DEF Columns, Column, Table
    <3> QED
      BY <2>1, <3>1, GentleStatements DEF RoleNames
  <2> HIDE DEF F
  <2>4. AllGentle(AccountsBack, F)
    BY <2>2, <2>3, MildStatements DEF AllGentle, AccountsBack
  <2>5. AllGentle(UsageBack, F)
    BY <2>2, <2>3, MildStatements DEF AllGentle, UsageBack
  <2>6. AllGentle(ProjectsBack, F)
    BY <2>2, <2>3, MildStatements DEF AllGentle, ProjectsBack
  <2> QED
    BY <2>4, <2>5, <2>6, GentleJoin DEF First
<1> HIDE DEF F, m
<1>6. /\ m \in Nat /\ m >= 6 /\ Len(Down_ab55) \in Nat /\ Len(Down_ab55) >= m + 1
       /\ Down_ab55[6] = AccountsBack[6] /\ Down_ab55[m + 1] = WorkspacesBack[1]
  BY <1>1, <1>2, <1>4 DEF m
<1>7. PICK after : Stages(after, Down_ab55, S)
  BY <1>6, RunStages
<1>8. \A i \in 1..m : Gentle(Down_ab55[i], F)
  BY <1>4, <1>5 DEF AllGentle, m
<1>9. \A B : ~ Refused(Down_ab55[6], B) => F \subseteq Effect(Down_ab55[6], B)
  <2>1. Down_ab55[6] = Refer("role", By("organization_id", "organization"))
    BY <1>6 DEF AccountsBack
  <2>2. Table("organization") \in Down_ab55[6].need
    BY <2>1 DEF Refer, Nothing, By
  <2>3. Keeps(Down_ab55[6], F)
    BY <1>6, <1>8 DEF Gentle
  <2> QED
    BY <2>2, <2>3 DEF Refused, Keeps, F
<1>10. \A i \in (6 + 1)..m : Keeps(Down_ab55[i], F)
  BY <1>6, <1>8 DEF Gentle
<1>11. \A A \in after[m] : F \subseteq A
  <2>1. 6 \in 1..Len(Down_ab55) /\ m \in 6..Len(Down_ab55) /\ Len(Down_ab55) \in Nat
    BY <1>6
  <2> QED
    BY <1>7, <1>9, <1>10, <2>1, StagesMake
<1>12. PICK B \in after[m] : ~ Refused(Down_ab55[m + 1], B)
  <2>1. m + 1 \in 1..Len(Down_ab55) /\ Len(Down_ab55) \in Nat /\ (m + 1) - 1 = m
    BY <1>6
  <2> QED
    BY <1>7, <2>1, RunPasses
<1>13. Table("organization") \in Down_ab55[m + 1].clash
  BY <1>6 DEF WorkspacesBack, CreateTable, Nothing
<1> QED
  BY <1>11, <1>12, <1>13 DEF Refused, F

(* A downgrade takes from "user" what its upgrade has made, and leaves the *)
(* rest and the payments; that of the first revision drops the table.      *)
LEMMA DowngradesKeep ==
    ASSUME NEW r, NEW S, NEW A \in Run(DowngradeOf(r, S), S)
    PROVE  /\ r # "e241" => (Facts \ MadeBy(r)) \cap S \subseteq A
           /\ r = "e241" => {Rows("payment")} \cap S \subseteq A /\ Table("user") \notin A
           /\ RolesWhole(S) => RolesWhole(A)
<1>1. CASE r = "e241"
  <2>1. DowngradeOf(r, S) = Down_e241
    BY <1>1 DEF DowngradeOf
  <2>2. AllGentle(Down_e241, {Rows("payment")})
    <3>1. KeptBy({Rows("payment")})
      BY KeptByStatements DEF Facts
    <3>2. Gentle(DropTable("user", {"email"}), {Rows("payment")})
      <4>1. {Rows("payment")} \in SUBSET Facts /\ \A f \in {Rows("payment")} : f[2] # "user"
        BY DEF Facts, Rows
      <4> HIDE DEF Rows
      <4> QED
        BY <4>1, FactsAreSolid, GentleStatements
    <3> QED
      BY <3>1, <3>2 DEF KeptBy, AllGentle, Down_e241
  <2>3. PICK after : Stages(after, Down_e241, S)
    BY <2>2, RunStages DEF AllGentle
  <2>4. Len(Down_e241) = 2 /\ Down_e241[2] = DropTable("user", {"email"})
    BY DEF Down_e241
  <2>5. PICK B : A = Effect(DropTable("user", {"email"}), B)
    BY <2>1, <2>3, <2>4 DEF Stages, Executed
  <2>6. Table("user") \notin A
    <3> DEFINE o == DropTable("user", {"email"})
    <3>1. o.drops = {"user"} /\ o.rename = <<>> /\ o.made = {}
      BY DEF DropTable, Nothing
    <3> HIDE DEF o
    <3>2. Table("user") \in B => Table("user") \in Lost(o, B)
      BY <3>1, LostFacts DEF Table
    <3>3. A = B \ Lost(o, B)
      BY <2>5, <3>1 DEF Effect, o
    <3> QED
      BY <3>2, <3>3
  <2> QED
    BY <1>1, <2>1, <2>2, <2>6, RunKeeps
<1>2. CASE r = "ab55"
  BY <1>2, TransitionStays DEF DowngradeOf
<1>3. CASE r \notin {"e241", "ab55"}
  <2>1. AllGentle(DowngradeOf(r, S), Facts \ MadeBy(r))
    <3>1. AllGentle(<<>>, Facts \ MadeBy(r)) /\ Facts \ MadeBy(r) \in SUBSET Facts
      BY DEF AllGentle
    <3> QED
      BY <1>3, <3>1, UserDowngrades, GentleProductDowngrades, GentleAlumniDowngrades DEF DowngradeOf
  <2> QED
    BY <1>3, <2>1, RunKeeps
<1> QED
  BY <1>1, <1>2, <1>3

-----------------------------------------------------------------------------
(* History names each revision once, and Latest last.                      *)
LEMMA Places ==
    /\ Len(History) \in Nat /\ DOMAIN History = 1..54 /\ Len(History) = 54
    /\ \A i, j \in 1..54 : History[i] = History[j] => i = j
    /\ History[54] = Latest
    /\ Revisions = {History[i] : i \in 1..54}
BY DEF History, Latest, Revisions

(* The revision before another in History.                                 *)
LEMMA BeforeIs ==
    /\ \A i \in 2..54 : Before(History[i]) = {History[i - 1]}
    /\ Before(History[1]) = {}
<1>1. ASSUME NEW i \in 2..54 PROVE Before(History[i]) = {History[i - 1]}
  <2>1. \A j \in 1..53 : History[j + 1] = History[i] => j = i - 1
    BY Places
  <2>2. i - 1 \in 1..53 /\ (i - 1) + 1 = i
    OBVIOUS
  <2> QED
    BY <2>1, <2>2, Places DEF Before
<1>2. Before(History[1]) = {}
  <2>1. \A j \in 1..53 : History[j + 1] # History[1]
    BY Places
  <2> QED
    BY <2>1, Places DEF Before
<1> QED
  BY <1>1, <1>2

Branching == {"e241", "add_dashboard_models", "f966", "add_tag_number_to_user", "b695",
              "merge_tag_and_copilot", "f4b8f2", "0121", "a1b2", "a828"}

(* Where the history branches and joins.                                   *)
LEMMA BranchPlaces ==
    /\ History[1] = "e241" /\ History[6] = "drop_item_table" /\ History[7] = "add_ai_chat_001"
    /\ History[8] = "add_dashboard_models" /\ History[9] = "f966"
    /\ History[12] = "add_user_settings_fields" /\ History[13] = "9351"
    /\ History[14] = "add_tag_number_to_user" /\ History[15] = "b695"
    /\ History[16] = "add_copilot_hub_tables" /\ History[17] = "merge_tag_and_copilot"
    /\ History[37] = "6e60" /\ History[38] = "7f80" /\ History[39] = "f4b8f2"
    /\ History[40] = "f4b8f3" /\ History[41] = "0121" /\ History[52] = "070c"
    /\ History[53] = "a1b2" /\ History[54] = "a828"
BY DEF History

(* `down_revision`, spelled out.                                           *)
LEMMA ParentsAre ==
    /\ DOMAIN Parents = Revisions
    /\ Parents["e241"] = {}
    /\ Parents["add_dashboard_models"] = {"drop_item_table"}
    /\ Parents["f966"] = {"add_ai_chat_001", "add_dashboard_models"}
    /\ Parents["add_tag_number_to_user"] = {"add_user_settings_fields"}
    /\ Parents["b695"] = {"9351"}
    /\ Parents["merge_tag_and_copilot"] = {"add_tag_number_to_user", "add_copilot_hub_tables"}
    /\ Parents["f4b8f2"] = {"6e60"} /\ Parents["0121"] = {"7f80", "f4b8f3"}
    /\ Parents["a1b2"] = {"0121"} /\ Parents["a828"] = {"070c", "a1b2"}
    /\ \A r \in Revisions \ Branching : Parents[r] = Before(r)
<1>1. Branching \subseteq Revisions
  BY Places, BranchPlaces DEF Branching
<1> QED
  BY <1>1 DEF Parents, Branching

(* A revision follows revisions that are earlier in History,               *)
LEMMA ParentsEarlier ==
    ASSUME NEW i \in 1..54
    PROVE  Parents[History[i]] \subseteq {History[j] : j \in 1..(i - 1)}
<1>1. CASE History[i] \in Branching
  <2>1. CASE History[i] = "e241"
    BY <2>1, ParentsAre
  <2>2. CASE History[i] = "add_dashboard_models"
    <3>1. i = 8
      BY <2>2, BranchPlaces, Places
    <3> QED
      BY <2>2, <3>1, ParentsAre, BranchPlaces
  <2>3. CASE History[i] = "f966"
    <3>1. i = 9
      BY <2>3, BranchPlaces, Places
    <3> QED
      BY <2>3, <3>1, ParentsAre, BranchPlaces
  <2>4. CASE History[i] = "add_tag_number_to_user"
    <3>1. i = 14
      BY <2>4, BranchPlaces, Places
    <3> QED
      BY <2>4, <3>1, ParentsAre, BranchPlaces
  <2>5. CASE History[i] = "b695"
    <3>1. i = 15
      BY <2>5, BranchPlaces, Places
    <3> QED
      BY <2>5, <3>1, ParentsAre, BranchPlaces
  <2>6. CASE History[i] = "merge_tag_and_copilot"
    <3>1. i = 17
      BY <2>6, BranchPlaces, Places
    <3> QED
      BY <2>6, <3>1, ParentsAre, BranchPlaces
  <2>7. CASE History[i] = "f4b8f2"
    <3>1. i = 39
      BY <2>7, BranchPlaces, Places
    <3> QED
      BY <2>7, <3>1, ParentsAre, BranchPlaces
  <2>8. CASE History[i] = "0121"
    <3>1. i = 41
      BY <2>8, BranchPlaces, Places
    <3> QED
      BY <2>8, <3>1, ParentsAre, BranchPlaces
  <2>9. CASE History[i] = "a1b2"
    <3>1. i = 53
      BY <2>9, BranchPlaces, Places
    <3> QED
      BY <2>9, <3>1, ParentsAre, BranchPlaces
  <2>10. CASE History[i] = "a828"
    <3>1. i = 54
      BY <2>10, BranchPlaces, Places
    <3> QED
      BY <2>10, <3>1, ParentsAre, BranchPlaces
  <2> QED
    BY <1>1, <2>1, <2>2, <2>3, <2>4, <2>5, <2>6, <2>7, <2>8, <2>9, <2>10 DEF Branching
<1>2. CASE History[i] \notin Branching
  <2>1. i # 1
    BY <1>2, BranchPlaces DEF Branching
  <2>2. Parents[History[i]] = {History[i - 1]}
    BY <1>2, <2>1, ParentsAre, BeforeIs, Places
  <2> QED
    BY <2>1, <2>2
<1> QED
  BY <1>1, <1>2

(* and each but Latest is followed by one that is later there.             *)
LEMMA Followed ==
    ASSUME NEW i \in 1..53
    PROVE  \E j \in (i + 1)..54 : History[i] \in Parents[History[j]]
<1>1. CASE History[i + 1] \notin Branching
  <2>1. i + 1 \in 2..54 /\ (i + 1) - 1 = i
    OBVIOUS
  <2>2. Parents[History[i + 1]] = {History[i]}
    BY <1>1, <2>1, ParentsAre, BeforeIs, Places
  <2> QED
    BY <2>1, <2>2
<1>2. CASE History[i + 1] \in Branching
  <2>1. i + 1 \in {1, 8, 9, 14, 15, 17, 39, 41, 53, 54}
    BY <1>2, BranchPlaces, Places DEF Branching
  <2>2. \/ i = 7 \/ i = 8 \/ i = 13 \/ i = 14 \/ i = 16 \/ i = 38 \/ i = 40 \/ i = 52 \/ i = 53
    BY <2>1
  <2>3. /\ History[7] \in Parents[History[9]] /\ History[8] \in Parents[History[9]]
        /\ History[13] \in Parents[History[15]] /\ History[14] \in Parents[History[17]]
        /\ History[16] \in Parents[History[17]] /\ History[38] \in Parents[History[41]]
        /\ History[40] \in Parents[History[41]] /\ History[52] \in Parents[History[54]]
        /\ History[53] \in Parents[History[54]]
    BY BranchPlaces, ParentsAre
  <2> QED
    BY <2>2, <2>3
<1> QED
  BY <1>1, <1>2

-----------------------------------------------------------------------------
(* upTo has the lineages of the first n revisions of History.              *)
LineagesUpTo(upTo, n) ==
  upTo = [i \in 0..n |-> IF i = 0 THEN [r \in {} |-> {}] ELSE Joined(upTo[i - 1], History[i])]

(* There are such lineages for any n.                                      *)
LEMMA LineagesExist == \A n \in Nat : \E upTo : LineagesUpTo(upTo, n)
<1> DEFINE none == [r \in {} |-> {}]
           T == {n \in Nat : \E upTo : LineagesUpTo(upTo, n)}
<1>1. 0 \in T
  <2>1. LineagesUpTo([i \in 0..0 |-> none], 0)
    BY DEF LineagesUpTo
  <2> QED
    BY <2>1
<1>2. ASSUME NEW n \in T PROVE n + 1 \in T
  <2>1. PICK g : LineagesUpTo(g, n)
    OBVIOUS
  <2> DEFINE h == [i \in 0..(n + 1) |-> IF i <= n THEN g[i] ELSE Joined(g[n], History[n + 1])]
  <2>2. \A i \in 0..(n + 1) : h[i] = IF i = 0 THEN none ELSE Joined(h[i - 1], History[i])
    <3> TAKE i \in 0..(n + 1)
    <3>1. CASE i = 0
      BY <2>1, <3>1 DEF LineagesUpTo
    <3>2. CASE i \in 1..n
      <4>1. i # 0 /\ h[i] = g[i] /\ h[i - 1] = g[i - 1]
        BY <3>2
      <4>2. i \in 0..n
        BY <3>2
      <4>3. g[i] = Joined(g[i - 1], History[i])
        <5> HIDE DEF h
        <5> QED
          BY <2>1, <4>1, <4>2 DEF LineagesUpTo
      <4> QED
        BY <4>1, <4>3
    <3>3. CASE i = n + 1
      BY <3>3
    <3> QED
      BY <3>1, <3>2, <3>3
  <2>3. h = [i \in 0..(n + 1) |-> h[i]]
    OBVIOUS
  <2>4. LineagesUpTo(h, n + 1)
    <3> HIDE DEF h
    <3> QED
      BY <2>2, <2>3 DEF LineagesUpTo
  <2> QED
    BY <2>4
<1>3. T = Nat
  <2> HIDE DEF T
  <2>1. T \subseteq Nat
    BY DEF T
  <2> QED
    BY <1>1, <1>2, <2>1, SetInduction
<1> QED
  BY <1>3

(* The equations of Lineage.                                               *)
LEMMA LineageIs ==
    /\ DOMAIN Lineage = Revisions
    /\ \A r \in Revisions : Lineage[r] = {r} \cup UNION {Lineage[p] : p \in Parents[r]}
<1> DEFINE h == CHOOSE x : LineagesUpTo(x, Len(History))
<1>1. LineagesUpTo(h, Len(History))
  BY LineagesExist, Places
<1>2. Lineage = h[Len(History)]
  BY DEF Lineage, LineagesUpTo
<1>3. \A i \in 0..54 : h[i] = IF i = 0 THEN [r \in {} |-> {}] ELSE Joined(h[i - 1], History[i])
  <2>1. LineagesUpTo(h, 54)
    BY <1>1, Places
  <2> HIDE DEF h
  <2> QED
    BY <2>1, Zenon DEF LineagesUpTo
<1> HIDE DEF h
<1> DEFINE Ok(i) == /\ DOMAIN h[i] = {History[j] : j \in 1..i}
                    /\ \A j \in 1..i : h[i][History[j]] =
                         {History[j]} \cup UNION {h[i][p] : p \in Parents[History[j]]}
           T == {n \in Nat : n <= 54 => Ok(n)}
<1>4. 0 \in T
  <2>1. h[0] = [r \in {} |-> {}]
    BY <1>3
  <2>2. Ok(0)
    BY <2>1
  <2> QED
    BY <2>2
<1>5. ASSUME NEW n \in T PROVE n + 1 \in T
  <2> SUFFICES ASSUME n + 1 <= 54 PROVE Ok(n + 1)
    OBVIOUS
  <2> DEFINE r == History[n + 1]
  <2>1. Ok(n) /\ n \in 0..53 /\ n + 1 \in 1..54
    OBVIOUS
  <2>2. h[n + 1] = Joined(h[n], r)
    <3>1. n + 1 \in 0..54 /\ n + 1 # 0 /\ (n + 1) - 1 = n
      BY <2>1
    <3> QED
      BY <1>3, <3>1
  <2>3. DOMAIN h[n + 1] = {History[j] : j \in 1..(n + 1)}
    <3>1. DOMAIN h[n + 1] = {r} \cup DOMAIN h[n]
      BY <2>2 DEF Joined
    <3> QED
      BY <2>1, <3>1
  <2>4. \A j \in 1..n : History[j] # r /\ h[n + 1][History[j]] = h[n][History[j]]
    <3> TAKE j \in 1..n
    <3>1. History[j] # r
      BY <2>1, Places
    <3> QED
      BY <2>1, <2>2, <3>1 DEF Joined
  <2>5. \A p : p \in {History[j] : j \in 1..n} => h[n + 1][p] = h[n][p]
    BY <2>4
  <2>6. \A j \in 1..(n + 1) : Parents[History[j]] \subseteq {History[k] : k \in 1..n}
    <3> TAKE j \in 1..(n + 1)
    <3>1. j \in 1..54 /\ \A k \in 1..(j - 1) : k \in 1..n
      BY <2>1
    <3>2. Parents[History[j]] \subseteq {History[k] : k \in 1..(j - 1)}
      BY <3>1, ParentsEarlier
    <3> QED
      BY <3>1, <3>2
  <2>7. \A j \in 1..(n + 1) : UNION {h[n + 1][p] : p \in Parents[History[j]]}
                                = UNION {h[n][p] : p \in Parents[History[j]]}
    BY <2>5, <2>6
  <2>8. h[n + 1][r] = {r} \cup UNION {h[n][p] : p \in Parents[r]}
    BY <2>2 DEF Joined
  <2>9. ASSUME NEW j \in 1..(n + 1)
        PROVE  h[n + 1][History[j]] =
                 {History[j]} \cup UNION {h[n + 1][p] : p \in Parents[History[j]]}
    <3>1. CASE j = n + 1
      BY <2>7, <2>8, <3>1
    <3>2. CASE j \in 1..n
      <4>1. h[n][History[j]] = {History[j]} \cup UNION {h[n][p] : p \in Parents[History[j]]}
        BY <2>1, <3>2
      <4> QED
        BY <2>4, <2>7, <3>2, <4>1
    <3> QED
      BY <3>1, <3>2
  <2> QED
    BY <2>3, <2>9
<1>6. T = Nat
  <2> HIDE DEF T
  <2>1. T \subseteq Nat
    BY DEF T
  <2> QED
    BY <1>4, <1>5, <2>1, SetInduction
<1>7. Ok(54)
  <2> HIDE DEF Ok
  <2> QED
    BY <1>6
<1> QED
  BY <1>2, <1>7, Places

-----------------------------------------------------------------------------
(* The history is closed: no revision follows one that has no file.        *)
LEMMA ParentsAreRevisions == \A r \in Revisions : Parents[r] \subseteq Revisions
<1> SUFFICES ASSUME NEW i \in 1..54 PROVE Parents[History[i]] \subseteq Revisions
  BY Places
<1> QED
  BY ParentsEarlier, Places

(* A revision's lineage is itself and the lineages of those it follows.    *)
LEMMA LineageOfParents ==
    ASSUME NEW r \in Revisions
    PROVE  /\ r \in Lineage[r]
           /\ \A p \in Parents[r] : Lineage[p] \subseteq Lineage[r]
           /\ \A q \in Lineage[r] : q = r \/ \E p \in Parents[r] : q \in Lineage[p]
BY LineageIs

(* All that precedes a revision is earlier in History, and what precedes   *)
(* that precedes it too.                                                   *)
LEMMA LineageEarlier ==
    ASSUME NEW i \in 1..54
    PROVE  /\ Lineage[History[i]] \subseteq {History[j] : j \in 1..i}
           /\ \A q \in Lineage[History[i]] : Lineage[q] \subseteq Lineage[History[i]]
<1> DEFINE Ok(k) == /\ Lineage[History[k]] \subseteq {History[j] : j \in 1..k}
                    /\ \A q \in Lineage[History[k]] : Lineage[q] \subseteq Lineage[History[k]]
           T == {n \in Nat : \A k \in 1..54 : k <= n => Ok(k)}
<1>1. 0 \in T
  OBVIOUS
<1>2. ASSUME NEW n \in T PROVE n + 1 \in T
  <2> SUFFICES ASSUME n + 1 <= 54 PROVE Ok(n + 1)
    <3> HIDE DEF Ok
    <3> QED
      OBVIOUS
  <2> DEFINE r == History[n + 1]
  <2>1. n + 1 \in 1..54 /\ r \in Revisions /\ \A k \in 1..n : k \in 1..54 /\ Ok(k)
    <3> HIDE DEF Ok
    <3> QED
      BY Places
  <2>2. Parents[r] \subseteq {History[j] : j \in 1..n}
    BY <2>1, ParentsEarlier
  <2>3. \A p \in Parents[r] :
           /\ Lineage[p] \subseteq {History[j] : j \in 1..n}
           /\ \A q \in Lineage[p] : Lineage[q] \subseteq Lineage[p]
    <3> SUFFICES ASSUME NEW p \in Parents[r]
                 PROVE  /\ Lineage[p] \subseteq {History[j] : j \in 1..n}
                        /\ \A q \in Lineage[p] : Lineage[q] \subseteq Lineage[p]
      OBVIOUS
    <3>1. PICK k \in 1..n : p = History[k]
      BY <2>2
    <3>2. Ok(k)
      BY <2>1
    <3>3. \A j \in 1..k : j \in 1..n
      OBVIOUS
    <3> QED
      BY <3>1, <3>2, <3>3
  <2>4. Lineage[r] \subseteq {History[j] : j \in 1..(n + 1)}
    <3> SUFFICES ASSUME NEW q \in Lineage[r] PROVE \E j \in 1..(n + 1) : q = History[j]
      OBVIOUS
    <3>1. CASE q = r
      BY <2>1, <3>1
    <3>2. CASE q # r
      <4>1. PICK p \in Parents[r] : q \in Lineage[p]
        BY <2>1, <3>2, LineageOfParents
      <4>2. PICK j \in 1..n : q = History[j]
        BY <2>3, <4>1
      <4> QED
        BY <4>2
    <3> QED
      BY <3>1, <3>2
  <2>5. \A q \in Lineage[r] : Lineage[q] \subseteq Lineage[r]
    <3> SUFFICES ASSUME NEW q \in Lineage[r], q # r PROVE Lineage[q] \subseteq Lineage[r]
      OBVIOUS
    <3>1. PICK p \in Parents[r] : q \in Lineage[p]
      BY <2>1, LineageOfParents
    <3>2. Lineage[q] \subseteq Lineage[p] /\ Lineage[p] \subseteq Lineage[r]
      BY <2>1, <2>3, <3>1, LineageOfParents
    <3> QED
      BY <3>2
  <2> QED
    BY <2>4, <2>5
<1>3. T = Nat
  <2> HIDE DEF T
  <2>1. T \subseteq Nat
    BY DEF T
  <2> QED
    BY <1>1, <1>2, <2>1, SetInduction
<1>4. Ok(i)
  <2> HIDE DEF Ok
  <2>1. i \in T /\ i <= i
    BY <1>3
  <2> QED
    BY <2>1
<1> QED
  BY <1>4

(* Revisions are partially ordered by what precedes them.                  *)
LEMMA LineageOrders ==
    ASSUME NEW r \in Revisions
    PROVE  /\ Lineage[r] \subseteq Revisions
           /\ \A q \in Lineage[r] : Lineage[q] \subseteq Lineage[r]
           /\ \A q \in Lineage[r] : r \in Lineage[q] => q = r
           /\ \A p \in Parents[r] : r \notin Lineage[p]
<1>1. PICK i \in 1..54 : r = History[i]
  BY Places
<1>2. Lineage[r] \subseteq {History[j] : j \in 1..i}
  BY <1>1, LineageEarlier
<1>3. Lineage[r] \subseteq Revisions
  BY <1>2, Places
<1>4. \A q \in Lineage[r] : Lineage[q] \subseteq Lineage[r]
  BY <1>1, LineageEarlier
<1>5. ASSUME NEW q \in Lineage[r], r \in Lineage[q] PROVE q = r
  <2>1. PICK j \in 1..i : q = History[j]
    BY <1>2
  <2>2. j \in 1..54
    OBVIOUS
  <2>3. PICK k \in 1..j : r = History[k]
    BY <1>5, <2>1, <2>2, LineageEarlier
  <2>4. k = i
    <3>1. k \in 1..54
      BY <2>2
    <3> QED
      BY <1>1, <2>3, <3>1, Places
  <2> QED
    BY <2>1, <2>3, <2>4, <1>1
<1>6. ASSUME NEW p \in Parents[r] PROVE r \notin Lineage[p]
  <2>1. PICK j \in 1..(i - 1) : p = History[j]
    BY <1>1, ParentsEarlier
  <2>2. j \in 1..54
    OBVIOUS
  <2>3. Lineage[p] \subseteq {History[k] : k \in 1..j}
    BY <2>1, <2>2, LineageEarlier
  <2>4. \A k \in 1..j : History[k] # r
    BY <1>1, <2>2, Places
  <2> QED
    BY <2>3, <2>4
<1> QED
  BY <1>3, <1>4, <1>5, <1>6

(* Every revision precedes the head.                                       *)
LEMMA LatestFollowsAll == Lineage[Latest] = Revisions
<1> DEFINE T == {n \in Nat : n <= 53 => \A i \in (54 - n)..54 : History[i] \in Lineage[Latest]}
<1>1. 0 \in T
  <2>1. Latest \in Lineage[Latest]
    BY LineageOfParents, Places
  <2>2. \A i \in (54 - 0)..54 : i = 54
    OBVIOUS
  <2> QED
    BY <2>1, <2>2, Places
<1>2. ASSUME NEW n \in T PROVE n + 1 \in T
  <2> SUFFICES ASSUME n + 1 <= 53, NEW i \in (54 - (n + 1))..54 PROVE History[i] \in Lineage[Latest]
    OBVIOUS
  <2>1. \A j \in (54 - n)..54 : History[j] \in Lineage[Latest]
    OBVIOUS
  <2>2. CASE i \in (54 - n)..54
    BY <2>1, <2>2
  <2>3. CASE i = 53 - n
    <3>1. i \in 1..53
      BY <2>3
    <3>2. PICK j \in (i + 1)..54 : History[i] \in Parents[History[j]]
      BY <3>1, Followed
    <3>3. History[j] \in Lineage[Latest] /\ History[j] \in Revisions
      <4>1. j \in (54 - n)..54 /\ j \in 1..54
        BY <2>3, <3>1
      <4> QED
        BY <2>1, <4>1, Places
    <3>4. History[i] \in Lineage[History[i]]
      <4>1. History[i] \in Revisions
        BY <3>1, Places
      <4> QED
        BY <4>1, LineageOfParents
    <3>5. Lineage[History[i]] \subseteq Lineage[History[j]]
      BY <3>2, <3>3, LineageOfParents
    <3>6. Lineage[History[j]] \subseteq Lineage[Latest]
      BY <3>3, LineageOrders, Places
    <3> QED
      BY <3>4, <3>5, <3>6
  <2> QED
    BY <2>2, <2>3
<1>3. T = Nat
  <2> HIDE DEF T
  <2>1. T \subseteq Nat
    BY DEF T
  <2> QED
    BY <1>1, <1>2, <2>1, SetInduction
<1>4. \A i \in 1..54 : History[i] \in Lineage[Latest]
  <2>1. 53 \in T
    BY <1>3
  <2> QED
    BY <2>1
<1>5. Latest \in Revisions
  BY Places
<1>6. Lineage[Latest] \subseteq Revisions
  BY <1>5, LineageOrders
<1> QED
  BY <1>4, <1>6, Places

-----------------------------------------------------------------------------
(* There are finitely many revisions.                                      *)
LEMMA RevisionsFinite == IsFiniteSet(Revisions)
<1>1. IsFiniteSet(1..54)
  <2>1. 1 \in Int /\ 54 \in Int
    OBVIOUS
  <2> QED
    BY <2>1, FS_Interval
<1> DEFINE f == [i \in 1..54 |-> History[i]]
<1>2. \A r \in Revisions : \E i \in 1..54 : f[i] = r
  BY Places
<1>3. f \in Surjection(1..54, Revisions)
  <2>1. f \in [1..54 -> Revisions]
    BY Places
  <2> HIDE DEF f
  <2> QED
    BY <1>2, <2>1 DEF Surjection
<1> QED
  BY <1>1, <1>3, FS_Surjection

(* A set of revisions with one element is {r} for some r.                  *)
LEMMA OneRevision ==
    ASSUME NEW rs \in SUBSET Revisions, Cardinality(rs) = 1
    PROVE  \E r \in Revisions : rs = {r}
<1>1. IsFiniteSet(rs)
  BY RevisionsFinite, FS_Subset
<1>2. \E x : rs = {x}
  BY <1>1, FS_Singleton
<1> QED
  BY <1>2

(* A set of fewer than two revisions is empty or has one.                  *)
LEMMA FewRevisions ==
    ASSUME NEW rs \in SUBSET Revisions, Cardinality(rs) < 2
    PROVE  rs = {} \/ \E r \in Revisions : rs = {r}
<1>1. IsFiniteSet(rs)
  BY RevisionsFinite, FS_Subset
<1>2. Cardinality(rs) \in Nat
  BY <1>1, FS_CardinalityType
<1>3. CASE Cardinality(rs) = 0
  BY <1>1, <1>3, FS_EmptySet
<1>4. CASE Cardinality(rs) = 1
  BY <1>4, OneRevision
<1> QED
  BY <1>2, <1>3, <1>4

(* What is applied, with a version, is closed under what precedes it.      *)
LEMMA AppliedIs ==
    ASSUME NEW rs
    PROVE  /\ Applied(rs) \subseteq Revisions
           /\ rs \cap Revisions \subseteq Applied(rs)
           /\ \A r \in Applied(rs) : \E q \in rs \cap Revisions : r \in Lineage[q]
           /\ \A r \in Applied(rs) : Lineage[r] \subseteq Applied(rs)
<1>1. Applied(rs) \subseteq Revisions
  BY LineageOrders DEF Applied
<1>2. rs \cap Revisions \subseteq Applied(rs)
  BY LineageOfParents DEF Applied
<1>3. \A r \in Applied(rs) : \E q \in rs \cap Revisions : r \in Lineage[q]
  BY DEF Applied
<1>4. \A r \in Applied(rs) : Lineage[r] \subseteq Applied(rs)
  BY LineageOrders DEF Applied
<1> QED
  BY <1>1, <1>2, <1>3, <1>4

(* Recording a revision adds that revision to what is applied, and nothing *)
(* else.                                                                   *)
LEMMA AppliedGrows ==
    ASSUME NEW rs, NEW r \in Revisions, Parents[r] \subseteq Applied(rs)
    PROVE  Applied(Recording(rs, r)) = Applied(rs) \cup {r}
<1>1. ASSUME NEW x \in Applied(Recording(rs, r)) PROVE x \in Applied(rs) \cup {r}
  <2>1. PICK q \in Recording(rs, r) \cap Revisions : x \in Lineage[q]
    BY <1>1, AppliedIs
  <2>2. CASE q = r
    <3>1. x = r \/ \E p \in Parents[r] : x \in Lineage[p]
      BY <2>1, <2>2, LineageOfParents
    <3> QED
      BY <3>1, AppliedIs
  <2>3. CASE q # r
    BY <2>1, <2>3, AppliedIs DEF Recording
  <2> QED
    BY <2>2, <2>3
<1>2. r \in Applied(Recording(rs, r))
  BY AppliedIs DEF Recording
<1>3. ASSUME NEW x \in Applied(rs) PROVE x \in Applied(Recording(rs, r))
  <2>1. PICK q \in rs \cap Revisions : x \in Lineage[q]
    BY <1>3, AppliedIs
  <2>2. CASE q \in Parents[r]
    <3>1. x \in Lineage[r]
      BY <2>1, <2>2, LineageOfParents
    <3> QED
      BY <1>2, <3>1, AppliedIs
  <2>3. CASE q \notin Parents[r]
    <3>1. q \in Recording(rs, r) \cap Revisions
      BY <2>3 DEF Recording
    <3> QED
      BY <2>1, <3>1 DEF Applied
  <2> QED
    BY <2>2, <2>3
<1> QED
  BY <1>1, <1>2, <1>3

(* No row of the version table names a revision that another row implies.  *)
Antichain(rs) == \A q, r \in rs \cap Revisions : q \in Lineage[r] => q = r

(* Applying a revision that is due leaves no row that another one implies. *)
LEMMA RecordingKeepsAntichain ==
    ASSUME NEW rs, Antichain(rs), NEW r \in Revisions \ Applied(rs),
           Parents[r] \subseteq Applied(rs)
    PROVE  Antichain(Recording(rs, r))
<1> SUFFICES ASSUME NEW q \in Recording(rs, r) \cap Revisions,
                    NEW s \in Recording(rs, r) \cap Revisions, q \in Lineage[s], q # s
             PROVE  FALSE
  BY DEF Antichain
<1>1. CASE s = r
  <2>1. q \in rs \cap Revisions /\ q \notin Parents[r]
    BY <1>1 DEF Recording
  <2>2. PICK p \in Parents[r] : q \in Lineage[p]
    BY <1>1, LineageOfParents
  <2>3. PICK t \in rs \cap Revisions : p \in Lineage[t]
    BY AppliedIs
  <2>4. p \in Revisions /\ q \in Lineage[t]
    BY <2>2, <2>3, LineageOrders
  <2>5. q = t
    BY <2>1, <2>4 DEF Antichain
  <2>6. q = p
    BY <2>2, <2>3, <2>4, <2>5, LineageOrders
  <2> QED
    BY <2>1, <2>6
<1>2. CASE s # r /\ q = r
  <2>1. s \in rs \cap Revisions
    BY <1>2 DEF Recording
  <2>2. r \in Applied(rs)
    BY <1>2, <2>1 DEF Applied
  <2> QED
    BY <2>2
<1>3. CASE s # r /\ q # r
  BY <1>3 DEF Recording, Antichain
<1> QED
  BY <1>1, <1>2, <1>3

(* When no revision can come next, the version is the head.                *)
LEMMA NoneDueAtHead ==
    ASSUME NEW rs, rs \subseteq Revisions, Antichain(rs),
           \A r \in Revisions \ Applied(rs) : ~ (Parents[r] \subseteq Applied(rs))
    PROVE  rs = {Latest}
<1> DEFINE T == {n \in Nat : \A i \in 1..54 : i <= n => History[i] \in Applied(rs)}
<1>1. 0 \in T
  OBVIOUS
<1>2. ASSUME NEW n \in T PROVE n + 1 \in T
  <2> SUFFICES ASSUME n + 1 <= 54 PROVE History[n + 1] \in Applied(rs)
    OBVIOUS
  <2>1. n + 1 \in 1..54 /\ \A j \in 1..n : History[j] \in Applied(rs)
    OBVIOUS
  <2>2. History[n + 1] \in Revisions
    BY <2>1, Places
  <2>3. Parents[History[n + 1]] \subseteq {History[j] : j \in 1..n}
    BY <2>1, ParentsEarlier
  <2> QED
    BY <2>1, <2>2, <2>3
<1>3. T = Nat
  <2> HIDE DEF T
  <2>1. T \subseteq Nat
    BY DEF T
  <2> QED
    BY <1>1, <1>2, <2>1, SetInduction
<1>4. Latest \in Applied(rs) /\ Latest \in Revisions
  <2>1. 54 \in T
    BY <1>3
  <2> QED
    BY <2>1, Places
<1>5. PICK q \in rs : Latest \in Lineage[q]
  BY <1>4, AppliedIs
<1>6. q = Latest
  BY <1>4, <1>5, LatestFollowsAll, LineageOrders
<1>7. \A r \in rs : r = Latest
  BY <1>6, LatestFollowsAll DEF Antichain
<1> QED
  BY <1>6, <1>7

-----------------------------------------------------------------------------
(* The schemas after the i-th revision of History, from Ss before it.      *)
Advanced(i, Ss, rs, extra) ==
  IF History[i] \notin rs THEN Ss ELSE UNION {Migrated(History[i], B, extra) : B \in Ss}

Replays(done, S, rs, extra, n) ==
  done = [i \in 0..n |-> IF i = 0 THEN {S} ELSE Advanced(i, done[i - 1], rs, extra)]

(* There are such schemas for any number of revisions.                     *)
LEMMA ReplaysExist ==
    ASSUME NEW S, NEW rs, NEW extra
    PROVE  \A n \in Nat : \E done : Replays(done, S, rs, extra, n)
<1> DEFINE T == {n \in Nat : \E done : Replays(done, S, rs, extra, n)}
<1>1. 0 \in T
  <2>1. Replays([i \in 0..0 |-> {S}], S, rs, extra, 0)
    BY DEF Replays
  <2> QED
    BY <2>1
<1>2. ASSUME NEW n \in T PROVE n + 1 \in T
  <2>1. PICK g : Replays(g, S, rs, extra, n)
    OBVIOUS
  <2> DEFINE h == [i \in 0..(n + 1) |-> IF i <= n THEN g[i] ELSE Advanced(n + 1, g[n], rs, extra)]
  <2>2. \A i \in 0..(n + 1) : h[i] = IF i = 0 THEN {S} ELSE Advanced(i, h[i - 1], rs, extra)
    <3> TAKE i \in 0..(n + 1)
    <3>1. CASE i = 0
      BY <2>1, <3>1 DEF Replays
    <3>2. CASE i \in 1..n
      <4>1. i # 0 /\ h[i] = g[i] /\ h[i - 1] = g[i - 1]
        BY <3>2
      <4>2. i \in 0..n
        BY <3>2
      <4>3. g[i] = Advanced(i, g[i - 1], rs, extra)
        <5> HIDE DEF h
        <5> QED
          BY <2>1, <4>1, <4>2 DEF Replays
      <4> QED
        BY <4>1, <4>3
    <3>3. CASE i = n + 1
      BY <3>3
    <3> QED
      BY <3>1, <3>2, <3>3
  <2>3. h = [i \in 0..(n + 1) |-> h[i]]
    OBVIOUS
  <2>4. Replays(h, S, rs, extra, n + 1)
    <3> HIDE DEF h
    <3> QED
      BY <2>2, <2>3 DEF Replays
  <2> QED
    BY <2>4
<1>3. T = Nat
  <2> HIDE DEF T
  <2>1. T \subseteq Nat
    BY DEF T
  <2> QED
    BY <1>1, <1>2, <2>1, SetInduction
<1> QED
  BY <1>3

(* Replayed, one revision after the other.                                 *)
ReplayedBy(done, S, rs, extra) ==
  /\ done[0] = {S}
  /\ \A i \in 1..54 : done[i] = Advanced(i, done[i - 1], rs, extra)
  /\ Replayed(S, rs, extra) = done[54]

(* Replayed ends with the last of them.                                    *)
LEMMA ReplayStages == \A S, rs, extra : \E done : ReplayedBy(done, S, rs, extra)
<1> TAKE S, rs, extra
<1> DEFINE h == CHOOSE x : Replays(x, S, rs, extra, Len(History))
<1>1. Replays(h, S, rs, extra, Len(History))
  BY ReplaysExist, Places
<1>2. Replayed(S, rs, extra) = h[Len(History)]
  BY DEF Replayed, Replays, Advanced
<1>3. Replays(h, S, rs, extra, 54) /\ Replayed(S, rs, extra) = h[54]
  BY <1>1, <1>2, Places
<1> HIDE DEF h
<1>4. \A i \in 0..54 : h[i] = IF i = 0 THEN {S} ELSE Advanced(i, h[i - 1], rs, extra)
  BY <1>3, Zenon DEF Replays
<1>5. h[0] = {S} /\ \A i \in 1..54 : h[i] = Advanced(i, h[i - 1], rs, extra)
  BY <1>4
<1> QED
  BY <1>3, <1>5 DEF ReplayedBy

(* What others add has no table of the roles.                              *)
NoRoleTables(extra) == \A r \in DOMAIN extra : \A t \in RoleNames : Table(t) \notin extra[r]

(* Revisions, one after the other, keep what "user" has and the payments,  *)
(* and each makes its part of "user".                                      *)
LEMMA ReplayMakes ==
    ASSUME NEW S, NEW rs, NEW extra, NoRoleTables(extra), NEW A \in Replayed(S, rs, extra)
    PROVE  /\ Facts \cap S \subseteq A
           /\ RolesWhole(S) => RolesWhole(A)
           /\ \A r \in rs \cap Revisions : MadeBy(r) \subseteq A
<1>1. PICK done : ReplayedBy(done, S, rs, extra)
  BY ReplayStages
<1> DEFINE Ok(X, n) == /\ Facts \cap S \subseteq X
                       /\ RolesWhole(S) => RolesWhole(X)
                       /\ \A i \in 1..n : History[i] \in rs => MadeBy(History[i]) \subseteq X
           T == {n \in Nat : n <= 54 => \A X \in done[n] : Ok(X, n)}
<1>2. 0 \in T
  <2>1. Ok(S, 0)
    OBVIOUS
  <2> HIDE DEF Ok
  <2> QED
    BY <1>1, <2>1 DEF ReplayedBy
<1>3. ASSUME NEW n \in T PROVE n + 1 \in T
  <2> SUFFICES ASSUME n + 1 <= 54, NEW X \in done[n + 1] PROVE Ok(X, n + 1)
    <3> HIDE DEF Ok
    <3> QED
      OBVIOUS
  <2> DEFINE r == History[n + 1]
  <2>1. n + 1 \in 1..54 /\ (n + 1) - 1 = n /\ \A Y \in done[n] : Ok(Y, n)
    <3> HIDE DEF Ok
    <3> QED
      OBVIOUS
  <2>2. X \in Advanced(n + 1, done[n], rs, extra)
    BY <1>1, <2>1 DEF ReplayedBy
  <2>3. CASE r \notin rs
    <3>1. X \in done[n]
      BY <2>2, <2>3 DEF Advanced
    <3>2. Ok(X, n)
      BY <2>1, <3>1
    <3>3. \A i \in 1..(n + 1) : i \in 1..n \/ i = n + 1
      OBVIOUS
    <3> QED
      BY <2>3, <3>2, <3>3
  <2>4. CASE r \in rs
    <3>1. PICK Y \in done[n] : X \in Migrated(r, Y, extra)
      BY <2>2, <2>4 DEF Advanced
    <3>2. PICK B \in Run(UpgradeOf(r, Y), Y) :
               X = B \cup (IF r \in DOMAIN extra THEN extra[r] ELSE {})
      BY <3>1 DEF Migrated
    <3>3. Ok(Y, n)
      BY <2>1, <3>1
    <3>4. Facts \cap Y \subseteq B /\ (RolesWhole(Y) => RolesWhole(B)) /\ MadeBy(r) \subseteq B
      <4> HIDE DEF r
      <4> QED
        BY <3>2, UpgradesKeep, UpgradesMake
    <3>5. B \subseteq X /\ \A t \in RoleNames : Table(t) \in X => Table(t) \in B
      BY <3>2 DEF NoRoleTables
    <3>6. RolesWhole(S) => RolesWhole(X)
      BY <3>3, <3>4, <3>5 DEF RolesWhole
    <3>7. \A i \in 1..(n + 1) : History[i] \in rs => MadeBy(History[i]) \subseteq X
      <4> SUFFICES ASSUME NEW i \in 1..(n + 1), History[i] \in rs
                   PROVE  MadeBy(History[i]) \subseteq X
        OBVIOUS
      <4>1. CASE i = n + 1
        BY <3>4, <3>5, <4>1
      <4>2. CASE i \in 1..n
        <5>1. MadeBy(History[i]) \subseteq Y /\ MadeBy(History[i]) \subseteq Facts
          BY <3>3, <4>2, MadeIsOfUser DEF Facts
        <5> QED
          BY <3>4, <3>5, <5>1
      <4> QED
        BY <4>1, <4>2
    <3> QED
      BY <3>3, <3>4, <3>5, <3>6, <3>7
  <2> QED
    BY <2>3, <2>4
<1>4. T = Nat
  <2> HIDE DEF T
  <2>1. T \subseteq Nat
    BY DEF T
  <2> QED
    BY <1>2, <1>3, <2>1, SetInduction
<1>5. Ok(A, 54)
  <2> HIDE DEF Ok
  <2>1. 54 \in T
    BY <1>4
  <2> QED
    BY <1>1, <2>1 DEF ReplayedBy
<1> QED
  BY <1>5, Places

(* No revision changes nothing.                                            *)
LEMMA ReplayOfNone == \A S, extra : Replayed(S, {}, extra) = {S}
<1> SUFFICES ASSUME NEW S, NEW extra, NEW rs, rs = {} PROVE Replayed(S, rs, extra) = {S}
  OBVIOUS
<1>1. PICK done : ReplayedBy(done, S, rs, extra)
  BY ReplayStages
<1> DEFINE T == {n \in Nat : n <= 54 => done[n] = {S}}
<1>2. 0 \in T
  BY <1>1 DEF ReplayedBy
<1>3. ASSUME NEW n \in T PROVE n + 1 \in T
  <2> SUFFICES ASSUME n + 1 <= 54 PROVE done[n + 1] = {S}
    OBVIOUS
  <2>1. n + 1 \in 1..54 /\ (n + 1) - 1 = n /\ done[n] = {S}
    OBVIOUS
  <2> QED
    BY <1>1, <2>1 DEF ReplayedBy, Advanced
<1>4. T = Nat
  <2> HIDE DEF T
  <2>1. T \subseteq Nat
    BY DEF T
  <2> QED
    BY <1>2, <1>3, <2>1, SetInduction
<1>5. 54 \in T
  BY <1>4
<1> QED
  BY <1>1, <1>5 DEF ReplayedBy

-----------------------------------------------------------------------------
(* A revision leads to one schema at most.                                 *)
LEMMA OneMigrated ==
    ASSUME NEW r, NEW S, NEW extra, NEW A \in Migrated(r, S, extra)
    PROVE  Migrated(r, S, extra) = {A}
<1>1. Len(UpgradeOf(r, S)) \in Nat
  <2>1. CASE r = "d98d"
    <3>1. Len(Up_d98d) \in Nat
      BY DEF Up_d98d
    <3> QED
      BY <2>1, <3>1 DEF UpgradeOf
  <2>2. CASE r # "d98d"
    <3>1. AllGentle(<<>>, Facts)
      BY DEF AllGentle
    <3>2. AllGentle(UpgradeOf(r, S), Facts)
      BY <2>2, <3>1, GentleProductUpgrades, GentleTestedUpgrades, GentleAlumniUpgrades
         DEF UpgradeOf
    <3> QED
      BY <3>2 DEF AllGentle
  <2> QED
    BY <2>1, <2>2
<1>2. \A B, C \in Run(UpgradeOf(r, S), S) : B = C
  BY <1>1, RunDeterministic
<1> QED
  BY <1>2 DEF Migrated

(* Revisions are taken one by one: to replay a set of them is to replay    *)
(* the one that is first in History and then the others.                   *)
LEMMA ReplaySplits ==
    ASSUME NEW S, NEW rs, NEW extra, NEW n \in 1..54, NEW r \in rs, r = History[n],
           \A i \in 1..(n - 1) : History[i] \notin rs,
           NEW A \in Replayed(S, {r}, extra)
    PROVE  Replayed(S, rs, extra) = Replayed(A, rs \ {r}, extra)
<1> DEFINE others == rs \ {r}
<1>0. \A i \in 1..54 : i # n => History[i] # r
  BY Places
<1>1. PICK one : ReplayedBy(one, S, {r}, extra)
  BY ReplayStages
<1>2. PICK all : ReplayedBy(all, S, rs, extra)
  BY ReplayStages
<1>3. PICK rest : ReplayedBy(rest, A, others, extra)
  BY ReplayStages
<1> DEFINE Early(k) == one[k] = {S} /\ all[k] = {S} /\ rest[k] = {A}
           T == {k \in Nat : k < n => Early(k)}
<1>4. 0 \in T
  BY <1>1, <1>2, <1>3 DEF ReplayedBy
<1>5. ASSUME NEW k \in T PROVE k + 1 \in T
  <2> SUFFICES ASSUME k + 1 < n PROVE Early(k + 1)
    OBVIOUS
  <2>1. k + 1 \in 1..54 /\ (k + 1) - 1 = k /\ k + 1 \in 1..(n - 1) /\ Early(k)
    OBVIOUS
  <2>2. History[k + 1] \notin rs /\ History[k + 1] # r
    BY <1>0, <2>1
  <2> QED
    BY <1>1, <1>2, <1>3, <2>1, <2>2 DEF ReplayedBy, Advanced
<1>6. Early(n - 1)
  <2>1. T = Nat
    <3> HIDE DEF T
    <3>1. T \subseteq Nat
      BY DEF T
    <3> QED
      BY <1>4, <1>5, <3>1, SetInduction
  <2>2. n - 1 \in Nat /\ n - 1 < n
    OBVIOUS
  <2> QED
    BY <2>1, <2>2
<1>7. one[n] = Migrated(r, S, extra) /\ all[n] = Migrated(r, S, extra) /\ rest[n] = {A}
  <2> DEFINE M == Migrated(r, S, extra)
  <2>1. UNION {Migrated(History[n], B, extra) : B \in {S}} = M
    OBVIOUS
  <2>2. one[n] = Advanced(n, {S}, {r}, extra) /\ all[n] = Advanced(n, {S}, rs, extra)
          /\ rest[n] = Advanced(n, {A}, others, extra)
    <3> HIDE DEF others
    <3>1. /\ one[n] = Advanced(n, one[n - 1], {r}, extra)
          /\ all[n] = Advanced(n, all[n - 1], rs, extra)
          /\ rest[n] = Advanced(n, rest[n - 1], others, extra)
      BY <1>1, <1>2, <1>3 DEF ReplayedBy
    <3> QED
      BY <1>6, <3>1
  <2> QED
    BY <2>1, <2>2 DEF Advanced
<1> DEFINE U == {k \in Nat : n + k <= 54 => one[n + k] = one[n] /\
                               (one[n] = {A} => all[n + k] = rest[n + k])}
<1>8. 0 \in U
  BY <1>7
<1>9. ASSUME NEW k \in U PROVE k + 1 \in U
  <2> SUFFICES ASSUME n + (k + 1) <= 54
               PROVE  /\ one[n + (k + 1)] = one[n]
                      /\ one[n] = {A} => all[n + (k + 1)] = rest[n + (k + 1)]
    OBVIOUS
  <2> DEFINE m == n + (k + 1)
  <2>1. m \in 1..54 /\ m - 1 = n + k /\ m # n
    OBVIOUS
  <2>2. one[n + k] = one[n] /\ (one[n] = {A} => all[n + k] = rest[n + k])
    OBVIOUS
  <2>3. History[m] \notin {r} /\ (History[m] \in rs <=> History[m] \in others)
    BY <1>0, <2>1
  <2>4. /\ one[m] = Advanced(m, one[n + k], {r}, extra)
        /\ all[m] = Advanced(m, all[n + k], rs, extra)
        /\ rest[m] = Advanced(m, rest[n + k], others, extra)
    <3> HIDE DEF m
    <3> QED
      BY <1>1, <1>2, <1>3, <2>1 DEF ReplayedBy
  <2>5. one[m] = one[n + k]
    BY <2>3, <2>4 DEF Advanced
  <2>6. one[n] = {A} => all[m] = rest[m]
    BY <2>2, <2>3, <2>4 DEF Advanced
  <2> QED
    BY <2>2, <2>5, <2>6
<1>10. one[54] = one[n] /\ (one[n] = {A} => all[54] = rest[54])
  <2>1. U = Nat
    <3> HIDE DEF U
    <3>1. U \subseteq Nat
      BY DEF U
    <3> QED
      BY <1>8, <1>9, <3>1, SetInduction
  <2>2. 54 - n \in Nat /\ n + (54 - n) = 54
    OBVIOUS
  <2>3. 54 - n \in U
    BY <2>1, <2>2
  <2> QED
    BY <2>2, <2>3
<1>11. A \in one[n]
  BY <1>1, <1>10 DEF ReplayedBy
<1>12. one[n] = {A}
  BY <1>7, <1>11, OneMigrated
<1> QED
  BY <1>2, <1>3, <1>10, <1>12 DEF ReplayedBy

-----------------------------------------------------------------------------
(* All that is earlier in History precedes the i-th revision.              *)
Whole(i) == \A j \in 1..i : History[j] \in Lineage[History[i]]

(* Where no branch begins or ends, that stays so.                          *)
LEMMA WholeGoesOn ==
    ASSUME NEW a \in 1..54, NEW b \in a..54, Whole(a),
           \A i \in (a + 1)..b : i \notin {1, 8, 9, 14, 15, 17, 39, 41, 53, 54}
    PROVE  \A i \in a..b : Whole(i)
<1> DEFINE T == {n \in Nat : a + n <= b => Whole(a + n)}
<1>1. 0 \in T
  OBVIOUS
<1>2. ASSUME NEW n \in T PROVE n + 1 \in T
  <2> SUFFICES ASSUME a + (n + 1) <= b PROVE Whole(a + (n + 1))
    OBVIOUS
  <2> DEFINE i == a + (n + 1)
  <2>1. i \in 2..54 /\ i - 1 = a + n /\ i \in (a + 1)..b /\ Whole(i - 1)
    OBVIOUS
  <2> HIDE DEF i
  <2>2. History[i] \notin Branching
    BY <2>1, BranchPlaces, Places DEF Branching
  <2>3. Parents[History[i]] = {History[i - 1]} /\ History[i] \in Revisions
    BY <2>1, <2>2, ParentsAre, BeforeIs, Places
  <2>4. History[i] \in Lineage[History[i]] /\ Lineage[History[i - 1]] \subseteq Lineage[History[i]]
    BY <2>3, LineageOfParents
  <2>5. \A j \in 1..i : j = i \/ j \in 1..(i - 1)
    BY <2>1
  <2>6. Whole(i)
    BY <2>1, <2>4, <2>5 DEF Whole
  <2> QED
    BY <2>6 DEF i
<1>3. T = Nat
  <2> HIDE DEF T
  <2>1. T \subseteq Nat
    BY DEF T
  <2> QED
    BY <1>1, <1>2, <2>1, SetInduction
<1> SUFFICES ASSUME NEW i \in a..b PROVE Whole(i)
  OBVIOUS
<1>4. i - a \in Nat /\ a + (i - a) = i /\ i <= b
  OBVIOUS
<1>5. i - a \in T
  BY <1>3, <1>4
<1> QED
  BY <1>4, <1>5

(* Where the history does not branch, all that is earlier in History       *)
(* precedes a revision.                                                    *)
Straight == (1..6) \cup (17..37) \cup (41..52) \cup {54}

LEMMA StraightIsWhole ==
    ASSUME NEW i \in Straight
    PROVE  Lineage[History[i]] = {History[j] : j \in 1..i}
<1>1. \A k \in 1..54 : /\ History[k] \in Revisions
                       /\ History[k] \in Lineage[History[k]]
                       /\ \A p \in Parents[History[k]] : Lineage[p] \subseteq Lineage[History[k]]
  BY LineageOfParents, Places
<1>2. \A k \in 1..7 : Whole(k)
  <2>1. Whole(1)
    BY <1>1 DEF Whole
  <2> QED
    BY <2>1, WholeGoesOn
<1>3. \A k \in 9..13 : Whole(k)
  <2>1. Lineage[History[7]] \cup Lineage[History[8]] \subseteq Lineage[History[9]]
    BY <1>1, ParentsAre, BranchPlaces
  <2>2. \A j \in 1..9 : j \in 1..7 \/ j = 8 \/ j = 9
    OBVIOUS
  <2>3. Whole(7) /\ \A k \in {8, 9} : History[k] \in Lineage[History[k]]
    BY <1>1, <1>2
  <2>4. Whole(9)
    BY <2>1, <2>2, <2>3 DEF Whole
  <2> QED
    BY <2>4, WholeGoesOn
<1>4. \A k \in 17..38 : Whole(k)
  <2>1. Parents[History[16]] = {History[15]}
    BY BranchPlaces, ParentsAre, BeforeIs, Places DEF Branching
  <2>2. /\ Lineage[History[13]] \subseteq Lineage[History[15]]
        /\ Lineage[History[15]] \subseteq Lineage[History[16]]
        /\ Lineage[History[14]] \cup Lineage[History[16]] \subseteq Lineage[History[17]]
    BY <1>1, <2>1, ParentsAre, BranchPlaces
  <2>3. \A j \in 1..17 : j \in 1..13 \/ j = 14 \/ j = 15 \/ j = 16 \/ j = 17
    OBVIOUS
  <2>4. Whole(13) /\ \A k \in {14, 15, 16, 17} : History[k] \in Lineage[History[k]]
    BY <1>1, <1>3
  <2>5. Whole(17)
    BY <2>2, <2>3, <2>4 DEF Whole
  <2> DEFINE a == 17
             b == 38
  <2>6. a \in 1..54 /\ b \in a..54 /\ Whole(a)
    BY <2>5
  <2>7. \A k \in (a + 1)..b : k \notin {1, 8, 9, 14, 15, 17, 39, 41, 53, 54}
    OBVIOUS
  <2>8. \A k \in a..b : Whole(k)
    <3> HIDE DEF a, b
    <3> QED
      BY <2>6, <2>7, WholeGoesOn
  <2> QED
    BY <2>8
<1>5. \A k \in 41..52 : Whole(k)
  <2>1. Parents[History[40]] = {History[39]}
    BY BranchPlaces, ParentsAre, BeforeIs, Places DEF Branching
  <2>2. /\ Lineage[History[39]] \subseteq Lineage[History[40]]
        /\ Lineage[History[38]] \cup Lineage[History[40]] \subseteq Lineage[History[41]]
    BY <1>1, <2>1, ParentsAre, BranchPlaces
  <2>3. \A j \in 1..41 : j \in 1..38 \/ j = 39 \/ j = 40 \/ j = 41
    OBVIOUS
  <2>4. Whole(38) /\ \A k \in {39, 40, 41} : History[k] \in Lineage[History[k]]
    BY <1>1, <1>4
  <2>5. Whole(41)
    BY <2>2, <2>3, <2>4 DEF Whole
  <2> QED
    BY <2>5, WholeGoesOn
<1>6. Whole(54)
  BY LatestFollowsAll, Places DEF Whole
<1>7. i \in 1..54 /\ Whole(i)
  BY <1>2, <1>3, <1>4, <1>5, <1>6 DEF Straight
<1> QED
  BY <1>7, LineageEarlier DEF Whole
=============================================================================
