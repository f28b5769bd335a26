--------------------------- MODULE MCSchemaMigration ---------------------------
(***************************************************************************)
(* Two releases on one database: empty, legacy and modified unversioned    *)
(* ones, also next to foreign tables, every published revision, and one    *)
(* newer than both.                                                        *)
(***************************************************************************)
EXTENDS SchemaMigration, TLC

CONSTANTS old, new

Heads == (old :> 7) @@ (new :> 8)

RowIn(table, scope, form) == [table |-> table, scope |-> scope, form |-> form]
Legacy == {RowIn("conversations", 1, "legacy"), RowIn("subagents", 2, "legacy")}
Naive == {RowIn("conversations", 1, "invalid")}
Ingested == {RowIn("conversations", 1, "canonical"), RowIn("subagents", 2, "canonical")}

Database(revision, schema, rows) ==
  [revision |-> revision, schema |-> schema, altered |-> FALSE, foreign |-> FALSE,
   rows |-> rows,
   scopes |-> IF 4 \in schema THEN {row.scope : row \in rows} ELSE {}]

Unversioned == {Database(Unset, schema, rows) :
  schema \in {s \in SUBSET (1..8) : 7 \in s => 6 \in s}, rows \in {Ingested}}
Unconverted == {Database(Unset, schema, rows) :
  schema \in {{}, {1}, {1, 2}, {1, 2, 3}, {2, 3}}, rows \in {Legacy, Naive}}
Versioned == {Database(r, 1..r, Ingested) : r \in 1..9}
  \cup {Database(1, {1}, rows) : rows \in {Legacy, Naive}}
  \cup {Database(2, 1..2, Naive)}
Modified ==
  {[Database(Unset, 1..8, Ingested) EXCEPT !.altered = TRUE],
   [Database(Unset, 1..3, Legacy) EXCEPT !.altered = TRUE, !.foreign = TRUE]}
Shared ==
  {[Database(Unset, schema, Ingested) EXCEPT !.foreign = TRUE] : schema \in {{}, 1..4, 1..8}}

Databases0 == Unversioned \cup Unconverted \cup Versioned \cup Modified \cup Shared
NewRows == {RowIn("conversations", 3, "canonical")}
=============================================================================
