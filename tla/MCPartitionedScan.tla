------------------------- MODULE MCPartitionedScan --------------------------
(* The statements and the surroundings for the model checking of           *)
(* PartitionedScan.                                                        *)
EXTENDS PartitionedScan, TLC

Int64Min == IntMin   \* a cast out of range on x86-64

AttachedScan ==
  [attached |-> TRUE, is_view |-> FALSE, simple_view |-> FALSE, has_pk |-> TRUE,
   row_limit |-> 0, row_offset |-> 0, partitions |-> 0,
   residual |-> FALSE, mode |-> "silent", log_size |-> 3]
\* firebird_scan(partitions=3), which probes at every bind
DirectScan == [AttachedScan EXCEPT !.attached = FALSE, !.partitions = 3, !.log_size = 0]
\* row_limit=2, row_offset=1 on a table, cut by the server in one partition;
\* row_limit=1, row_offset=1 on a view too complex for ROWS, cut by the worker
RowsScan == [DirectScan EXCEPT !.partitions = 0, !.row_limit = 2, !.row_offset = 1]
PagedView == [RowsScan EXCEPT !.has_pk = FALSE, !.is_view = TRUE, !.row_limit = 1]
\* scans with residual filters
WarnScan == [AttachedScan EXCEPT !.residual = TRUE, !.mode = "warn", !.log_size = 0]
ErrorScan == [WarnScan EXCEPT !.mode = "error"]

Around(rows, more, n, faults, ticks) ==
  [base |-> rows, inserts |-> more, queries |-> n, errors |-> faults, ticks |-> ticks]

AllBinds == {AttachedScan, DirectScan, RowsScan, PagedView, WarnScan, ErrorScan}
AllEnv ==
  AttachedScan :> Around({1, 2, 4}, {}, 1, 1, 0)
  @@ DirectScan :> Around({1, 2}, {9}, 2, 0, 0)
  @@ RowsScan :> Around({1, 2, 3, 5}, {}, 2, 1, 0)
  @@ PagedView :> Around({1, 2}, {5}, 2, 1, 1)
  @@ WarnScan :> Around({1, 2, 4}, {3}, 1, 0, 0)
  @@ ErrorScan :> Around({1, 2, 4}, {}, 1, 1, 0)

\* The claims that do not hold.
PlainBinds == {AttachedScan}
GrowingEnv == AttachedScan :> Around({1, 2}, {9}, 2, 0, 0)
=============================================================================
