----------------------------- MODULE TableScan ------------------------------
(***************************************************************************)
(* What a scan of a Firebird table promises to DuckDB, whatever the number *)
(* of workers and partitions: batches of rows, no row twice, and if it     *)
(* ends without an error, the rows that were in the table when it was      *)
(* bound (or the slice row_limit / row_offset ask for).                    *)
(***************************************************************************)
EXTENDS Integers, FiniteSets

CONSTANT Rows   \* the rows the table may ever hold

VARIABLES
  limit,      \* row_limit= of the statement, 0 = none
  offset,     \* row_offset=
  status,     \* "idle", "running", "done" or "aborted"
  base,       \* the rows of the table when the query was bound
  delivered   \* how often each row was handed to DuckDB

slice == <<limit, offset>>
vars == <<slice, status, base, delivered>>

None == [r \in Rows |-> 0]
Handed == {r \in Rows : delivered[r] > 0}

Init ==
  /\ limit \in Nat /\ offset \in Nat
  /\ status = "idle" /\ base = {} /\ delivered = None

\* A query is bound against the table as it is.
Begin ==
  /\ status # "running"
  /\ status' = "running"
  /\ base' \in SUBSET Rows
  /\ delivered' = None

Deliver ==
  /\ status = "running"
  /\ \E S \in SUBSET (Rows \ Handed) :
       S # {} /\ delivered' = [r \in Rows |-> IF r \in S THEN 1 ELSE delivered[r]]
  /\ UNCHANGED <<status, base>>

SliceSize(n) ==
  LET rest == IF n > offset THEN n - offset ELSE 0
  IN IF rest < limit THEN rest ELSE limit

\* A slice is cut from the rows there are when the server is asked for them,
\* which may be more than at the bind.
Complete ==
  IF limit = 0 THEN base \subseteq Handed
  ELSE Cardinality(Handed) \in SliceSize(Cardinality(base))..limit

Finish ==
  /\ status = "running"
  /\ Complete
  /\ status' = "done"
  /\ UNCHANGED <<base, delivered>>

\* An error, an interrupt, or a LIMIT that has seen enough.
Abort == status = "running" /\ status' = "aborted" /\ UNCHANGED <<base, delivered>>

Next == (Begin \/ Deliver \/ Finish \/ Abort) /\ UNCHANGED slice
Spec == Init /\ [][Next]_vars
=============================================================================
