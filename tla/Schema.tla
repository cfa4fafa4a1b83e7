------------------------------- MODULE Schema -------------------------------
(***************************************************************************)
(* A PostgreSQL schema as the migrations under src/app/alembic/versions    *)
(* see it: the set of the facts that hold of it, and the operations of     *)
(* alembic's `op` on it.                                                   *)
(*                                                                         *)
(* A constraint or an index that PostgreSQL or alembic names after its     *)
(* table and column (t_c_fkey, ix_t_c) is named by its column here; any    *)
(* other keeps the name the migration gives it. Types, defaults, lengths   *)
(* and nullability are left out: alter_column only needs its column. The   *)
(* one place where nullability can refuse a statement, a new column that   *)
(* is NOT NULL without a default on a table that has rows, is kept.        *)
(***************************************************************************)
EXTENDS Integers, Sequences

Table(t)        == <<"table", t>>
Column(t, c)    == <<"column", t, c>>
Index(t, c)     == <<"index", t, c>>
Unique(t, n)    == <<"unique", t, n>>
Fk(t, n, c, u)  == <<"fk", t, n, c, u>>       \* constraint n of t: c refers to table u
Rows(t)         == <<"rows", t>>              \* t holds at least one row
KeyIsUuid(t)    == <<"uuid", t>>              \* the id of t is a UUID; it began as an integer

\* A reference as a migration writes it: <<name, column, target>>. By is the default name.
By(c, u) == <<c, c, u>>

Columns(t, cs) == {Column(t, c) : c \in cs}
Indexes(t, cs) == {Index(t, c) : c \in cs}
Refs(t, rs)    == {Fk(t, r[1], r[2], r[3]) : r \in rs}

-----------------------------------------------------------------------------
(***************************************************************************)
(* An operation: the facts it needs, those that refuse it (`clash`), those *)
(* it removes, the tables it drops (refused while another table refers to  *)
(* them, unless it cascades), the column it renames and the facts it makes.*)
(***************************************************************************)
Nothing == [need |-> {}, clash |-> {}, gone |-> {}, drops |-> {}, cascade |-> FALSE,
            rename |-> <<>>, made |-> {}]

\* op.create_table with the create_index calls that follow it on the new table.
CreateTable(t, cols, refs, idx) ==
  [Nothing EXCEPT !.need = {Table(r[3]) : r \in refs},
                  !.clash = {Table(t)},
                  !.made = {Table(t)} \cup Columns(t, cols \cup idx \cup {r[2] : r \in refs})
                             \cup Refs(t, refs) \cup Indexes(t, idx)]

\* op.drop_table after the drop_index calls on it: every index named must exist.
DropTable(t, idx) == [Nothing EXCEPT !.need = {Table(t)} \cup Indexes(t, idx), !.drops = {t}]

\* DROP TABLE IF EXISTS ... CASCADE
Sweep(ts) == [Nothing EXCEPT !.drops = ts, !.cascade = TRUE]

AddColumns(t, cs) ==
  [Nothing EXCEPT !.need = {Table(t)}, !.clash = Columns(t, cs), !.made = Columns(t, cs)]

\* add_column of NOT NULL columns that have no default
AddRequired(t, cs) == [AddColumns(t, cs) EXCEPT !.clash = @ \cup {Rows(t)}]

\* ADD COLUMN IF NOT EXISTS, and add_column under `if c not in columns`
EnsureColumns(t, cs) == [Nothing EXCEPT !.need = {Table(t)}, !.made = Columns(t, cs)]

DropColumns(t, cs) == [Nothing EXCEPT !.need = Columns(t, cs), !.gone = Columns(t, cs)]

\* DROP COLUMN IF EXISTS, and drop_column under `if c in columns`
DiscardColumns(t, cs) == [Nothing EXCEPT !.need = {Table(t)}, !.gone = Columns(t, cs)]

RenameColumn(t, a, b) ==
  [Nothing EXCEPT !.need = {Column(t, a)}, !.clash = {Column(t, b)}, !.rename = <<t, a, b>>]

\* alter_column, UPDATE: the columns must be there
Alter(t, cs) == [Nothing EXCEPT !.need = {Table(t)} \cup Columns(t, cs)]

\* the inspector's get_columns, get_indexes and get_foreign_keys raise on a missing table
Inspect(t) == Alter(t, {})

\* the id of t is now a UUID, an integer
Uuid(t)   == [Nothing EXCEPT !.need = {Column(t, "id")}, !.made = {KeyIsUuid(t)}]
Serial(t) == [Nothing EXCEPT !.need = {Column(t, "id")}, !.gone = {KeyIsUuid(t)}]

Insert(t) == [Nothing EXCEPT !.need = {Table(t)}, !.made = {Rows(t)}]

CreateIndexes(t, cs) ==
  [Nothing EXCEPT !.need = Columns(t, cs), !.clash = Indexes(t, cs), !.made = Indexes(t, cs)]

EnsureIndexes(t, cs) == [Nothing EXCEPT !.need = Columns(t, cs), !.made = Indexes(t, cs)]

\* an index over other columns than the one it is named for
CreateNamedIndex(t, n, cs) ==
  [Nothing EXCEPT !.need = Columns(t, cs), !.clash = {Index(t, n)}, !.made = {Index(t, n)}]

DropIndexes(t, cs)    == [Nothing EXCEPT !.need = Indexes(t, cs), !.gone = Indexes(t, cs)]
DiscardIndexes(t, cs) == [Nothing EXCEPT !.gone = Indexes(t, cs)]

\* drop_index and create_index of the same index, to change whether it is unique
Reindex(t, c) == [Nothing EXCEPT !.need = {Index(t, c)}]

AddUnique(t, n)  == [Nothing EXCEPT !.need = {Table(t)}, !.clash = {Unique(t, n)},
                                    !.made = {Unique(t, n)}]
DropUnique(t, n) == [Nothing EXCEPT !.need = {Unique(t, n)}, !.gone = {Unique(t, n)}]

\* create_foreign_key. PostgreSQL picks a free name when the migration gives none.
Refer(t, r) ==
  [Nothing EXCEPT !.need = {Column(t, r[2]), Table(r[3])}, !.made = {Fk(t, r[1], r[2], r[3])}]

DropRefs(t, rs) == [Nothing EXCEPT !.need = Refs(t, rs), !.gone = Refs(t, rs)]
DropRef(t, r)   == DropRefs(t, {r})

\* drop_constraint under `if name in foreign keys`
DiscardRef(t, r) == [Nothing EXCEPT !.need = {Table(t)}, !.gone = {Fk(t, r[1], r[2], r[3])}]

\* drop_constraint(None, t): there is no constraint without a name, the statement is refused.
DropUnnamed(t) == [Nothing EXCEPT !.need = {Unique(t, "None")}]

-----------------------------------------------------------------------------
IsFk(f) == f[1] = "fk"

Refused(o, S) ==
  \/ ~ (o.need \subseteq S)
  \/ o.clash \cap S # {}
  \/ ~ o.cascade /\ \E t \in o.drops : \E f \in S : IsFk(f) /\ f[5] = t /\ f[2] \notin o.drops
  \/ \E c \in o.gone : \E f \in S : IsFk(f) /\ c = Column(f[5], "id")   \* references are to ids

\* Dropping a table takes all its facts and, with CASCADE, the references to it. Dropping a
\* column takes the index and the references on it (no migration drops a column under an index or a
\* unique constraint of another name, other than with its table).
Lost(o, S) ==
  o.gone
  \cup (UNION {{f \in S : f[2] = t \/ (IsFk(f) /\ f[5] = t)} : t \in o.drops})
  \cup (UNION {{f \in S : \/ f[1] = "index" /\ c = Column(f[2], f[3])
                          \/ IsFk(f) /\ c = Column(f[2], f[4])} : c \in o.gone})

\* Column a of t is b from now on, also in its references. Renaming is all such an operation does.
Renamed(S, t, a, b) ==
  {IF f = Column(t, a) THEN Column(t, b)
   ELSE IF IsFk(f) /\ f[2] = t /\ f[4] = a THEN Fk(t, f[3], b, f[5])
   ELSE f : f \in S}

Effect(o, S) ==
  IF o.rename = <<>> THEN (S \ Lost(o, S)) \cup o.made
  ELSE Renamed(S, o.rename[1], o.rename[2], o.rename[3])

\* What an operation makes of each of the schemas Ss, where it is not refused.
Executed(o, Ss) == {Effect(o, S) : S \in {A \in Ss : ~ Refused(o, A)}}

(***************************************************************************)
(* Statements run in order in one transaction: the first that is refused   *)
(* fails the transaction, whatever follows (PostgreSQL aborts it even when *)
(* the migration catches the exception). Run is the set of the schemas     *)
(* they can lead to: one, or none when a statement is refused.             *)
(***************************************************************************)
Run(ops, S) ==
  LET after[i \in 0..Len(ops)] == IF i = 0 THEN {S} ELSE Executed(ops[i], after[i - 1])
  IN  after[Len(ops)]

\* Statements under an inspector's test, made when the migration starts.
Unless(S, fact, ops) == IF fact \in S THEN <<>> ELSE ops
Given(S, fact, ops)  == IF fact \in S THEN ops ELSE <<>>
=============================================================================
