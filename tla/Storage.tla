------------------------------- MODULE Storage -------------------------------
(***************************************************************************)
(* What the Database answers from the table of readings.  The table is a   *)
(* sequence of rows in the order of their ids; a query is a record of the  *)
(* filters, each of which may be missing.                                  *)
(***************************************************************************)
EXTENDS Integers, SequencesExt

CONSTANT None   \* a filter that is not given, a value of an empty window

\* the WHERE clause of history and aggregate
Where(rows, q) ==
  { i \in DOMAIN rows :
      /\ q.since = None \/ rows[i].ts >= q.since
      /\ q.until = None \/ rows[i].ts <= q.until
      /\ q.function = None \/ rows[i].function = q.function }

\* ORDER BY ts DESC; SQLite walks idx_readings_ts backwards, so later rows
\* come first among equal timestamps
Newer(rows, i, j) == rows[i].ts > rows[j].ts \/ (rows[i].ts = rows[j].ts /\ i > j)

NewestFirst(rows, S) ==
  [k \in 1 .. Cardinality(S) |->
     CHOOSE i \in S : Cardinality({j \in S : Newer(rows, j, i)}) = k - 1]

\* LIMIT: SQLite takes a negative one for none
Limited(limit, n) == IF limit < 0 THEN n ELSE Min({limit, n})

\* Mutant: ORDER BY ts LIMIT, which returns the oldest rows.
OldestRows(rows, q, limit) ==
  LET found == Reverse(NewestFirst(rows, Where(rows, q)))
  IN  [i \in 1 .. Limited(limit, Len(found)) |-> rows[found[i]]]

\* Database.history
History(rows, q, limit) ==
  LET found == NewestFirst(rows, Where(rows, q))
  IN  Reverse([i \in 1 .. Limited(limit, Len(found)) |-> rows[found[i]]])

\* Database.aggregate; the mean lies between min and max
Aggregate(rows, q) ==
  LET found  == Where(rows, q)
      values == {rows[i].value : i \in found}
  IN  [count |-> Cardinality(found),
       min   |-> IF found = {} THEN None ELSE Min(values),
       max   |-> IF found = {} THEN None ELSE Max(values)]

==============================================================================
