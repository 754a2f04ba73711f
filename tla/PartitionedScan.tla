-------------------------- MODULE PartitionedScan ---------------------------
(***************************************************************************)
(* A table scan (src/src/firebird_scanner.cpp): bind and PK probe, the     *)
(* partition queue of FirebirdGlobalState, and DuckDB's workers running    *)
(* FirebirdScanFunction until it returns an empty chunk, each with its own *)
(* connection and cursor.  Workers interleave at every call on shared      *)
(* state: the partition queue, the unpushed_reported flag, the telemetry   *)
(* of the client context and the pool's byte counter.                      *)
(*                                                                         *)
(* Rows are named by their primary key.  Other clients may insert rows     *)
(* while the scan runs; a cursor sees the table as it was when it opened.  *)
(***************************************************************************)
EXTENDS PartitionBounds, FiniteSets, Sequences

CONSTANTS
  Workers,        \* threads DuckDB may run the scan on
  Binds,          \* the statements that may be run (see Bind)
  Env,            \* bounds on what happens around each (see Surroundings)
  HwConcurrency,  \* std::thread::hardware_concurrency()
  VectorSize,     \* STANDARD_VECTOR_SIZE
  NoWork,         \* a partition number that stands for none
  NoError

\* FirebirdScanBindData, and the session's settings the scan reads: is the
\* object scanned through ATTACH (pool, memoised probe), is it a view, one
\* that is_view_simple_for_pagination, has it a single-column integer primary
\* key; the named parameters (0 = not given); are there filters that were not
\* pushed, firebird_unpushed_mode and firebird_query_log_size.
Bind ==
  {b \in [attached : BOOLEAN, is_view : BOOLEAN, simple_view : BOOLEAN, has_pk : BOOLEAN,
          row_limit : Nat, row_offset : Nat, partitions : 0..IntMax,
          residual : BOOLEAN, mode : {"silent", "warn", "error"}, log_size : Int] :
     /\ b.row_offset > 0 => b.row_limit > 0     \* BinderException otherwise
     /\ b.row_limit > 0 => b.partitions <= 1    \* BinderException otherwise
     /\ b.has_pk => ~b.is_view
     /\ b.attached => b.row_limit = 0 /\ b.partitions = 0}

\* The rows in the table at first, rows others may insert, and how many
\* queries, server errors and ticks of the clock are considered.
Surroundings ==
  [base : SUBSET Int64, inserts : SUBSET Int64, queries : Nat, errors : Nat, ticks : Nat]

Rows == UNION {Env[b].base \cup Env[b].inserts : b \in Binds}

ASSUME ScanAssumption ==
  /\ Binds \subseteq Bind
  /\ Env \in [Binds -> Surroundings]
  /\ HwConcurrency \in Nat
  /\ NoWork \notin Int
  /\ NoError \notin Int
  /\ VectorSize \in Nat \ {0}

ASSUME FiniteWorkers == IsFiniteSet(Workers)

VARIABLES
  bind,           \* the statement, run again and again
  table,          \* the rows on the server
  query,          \* number of the query being run
  status,         \* of that query: "idle", "running", "done", "aborted"
  base,           \* history: the rows when it was bound
  delivered,      \* how often that query handed each row to DuckDB
  probe,          \* pk_cache_: the probed key range
  partitions,     \* gstate.partitions.size()
  next_partition,
  unpushed_reported,
  reports,        \* history: how often the unpushed-filter guard acted
  pool_bytes,     \* the catalog pool's bytes_read_estimate counter
  last, log, start,   \* telemetry of the client context
  now,            \* steady_clock::now()
  errors,         \* server errors so far
  w               \* per worker: see Idle

shared == <<bind, query, status, base, probe, partitions>>
telemetry == <<last, log, start>>
vars == <<table, shared, delivered, next_partition, unpushed_reported, reports,
          pool_bytes, telemetry, now, errors, w>>

Attached == bind.attached
RowLimit == bind.row_limit
RowOffset == bind.row_offset
Mode == bind.mode
LogSize == bind.log_size

\* Where a worker can be in FirebirdScanFunction and what it calls.
Steps == {"unstarted", "scan", "pop", "record", "guard", "open", "open_us",
          "open_total", "open_error", "fetch", "flush_rows", "flush_bytes",
          "flush_pool", "flush_us", "flush_total", "scan_error",
          "threw", "exhausted", "release", "closed"}

\* FirebirdLocalState, before InitLocal.
Idle ==
  [pc |-> "unstarted", part |-> NoWork, conn |-> FALSE, cursor |-> FALSE,
   todo |-> {}, chunk |-> <<>>, cursor_bytes |-> 0, bytes_fetched |-> 0,
   rows_read |-> 0, rows_skipped |-> 0, rows_emitted |-> 0,
   t0 |-> 0, open_us |-> 0, fetch_us |-> 0]

T == INSTANCE QueryTelemetry WITH
  Captures <- {}, NoCapture <- [query |-> 0, part |-> NoWork],
  Errors <- {}, LogSizes <- {}, MaxCount <- 0, MaxClock <- 0,
  log_size <- LogSize

NoRange == [found |-> "no", lo |-> 0, hi |-> 0]
Unprobed == [NoRange EXCEPT !.found = "unprobed"]

Init ==
  /\ bind \in Binds
  /\ table = Env[bind].base
  /\ query = 0 /\ status = "idle" /\ base = {}
  /\ delivered = [r \in Rows |-> 0]
  /\ probe = Unprobed
  /\ partitions = 0 /\ next_partition = 0
  /\ unpushed_reported = FALSE /\ reports = 0
  /\ pool_bytes = 0
  /\ last = T!NoQuery /\ log = <<>> /\ start = 0
  /\ now = 0 /\ errors = 0
  /\ w = [i \in Workers |-> Idle]

-----------------------------------------------------------------------------
(* FirebirdScanBind / GetScanFunction, and FirebirdScanInitGlobal.         *)

Paging == RowLimit > 0
Override == IF Paging THEN 1 ELSE bind.partitions

\* MIN and MAX of the key; a table of one row or none is not partitioned.
KeyRanges ==
  {r \in [found : {"yes"}, lo : table, hi : table] :
     r.lo < r.hi /\ \A k \in table : r.lo <= k /\ k <= r.hi}
ProbePrimaryKey ==
  IF bind.has_pk /\ KeyRanges # {} THEN probe' \in KeyRanges ELSE probe' = NoRange

NeedsProbe ==
  IF Attached THEN probe.found = "unprobed" ELSE Override # 1 \/ Paging

\* Any failure of the probe means no range, for ATTACH until DETACH.
BindProbe ==
  \/ /\ NeedsProbe
     /\ ProbePrimaryKey
     /\ UNCHANGED errors
  \/ /\ NeedsProbe /\ errors < Env[bind].errors
     /\ probe' = NoRange
     /\ errors' = errors + 1
  \/ /\ ~NeedsProbe
     /\ probe' = IF Attached THEN probe ELSE NoRange
     /\ UNCHANGED errors

InitGlobal ==
  /\ partitions' = IF probe'.found = "yes"
                   THEN PartitionCount(probe'.lo, probe'.hi, Override, HwConcurrency)
                   ELSE 1
  /\ next_partition' = 0
  /\ unpushed_reported' = FALSE

Begin ==
  /\ status # "running"
  /\ query < Env[bind].queries
  /\ \A i \in Workers : w[i].pc \in {"unstarted", "closed"}
  /\ query' = query + 1
  /\ status' = "running"
  /\ base' = table
  /\ delivered' = [r \in Rows |-> 0]
  /\ reports' = 0
  /\ w' = [i \in Workers |-> Idle]
  /\ BindProbe
  /\ InitGlobal
  /\ UNCHANGED <<bind, table, pool_bytes, telemetry, now>>

-----------------------------------------------------------------------------
(* A worker                                                                *)

Go(i, from, r) == w[i].pc = from /\ w' = [w EXCEPT ![i] = r]
Goto(i, from, to) == Go(i, from, [w[i] EXCEPT !.pc = to])

\* A step that touches nothing but the worker.
Local == UNCHANGED <<table, shared, delivered, next_partition, unpushed_reported,
                     reports, pool_bytes, telemetry, now, errors>>
\* A step that may write the telemetry of the client context.
Recording == UNCHANGED <<table, shared, delivered, next_partition, unpushed_reported,
                         reports, pool_bytes, now, errors>>
ServerError == errors < Env[bind].errors /\ errors' = errors + 1

\* DuckDB starts at most MaxThreads() workers; each acquires a connection.
Started == {i \in Workers : w[i].pc # "unstarted"}
MayStart == status = "running" /\ Cardinality(Started) < partitions

InitLocal(i) ==
  /\ MayStart
  /\ Go(i, "unstarted", [w[i] EXCEPT !.pc = "scan", !.conn = TRUE])
  /\ Local

InitLocalFails(i) ==
  /\ MayStart
  /\ Goto(i, "unstarted", "threw")
  /\ ServerError
  /\ UNCHANGED <<table, shared, delivered, next_partition, unpushed_reported,
                 reports, pool_bytes, telemetry, now>>

\* After the fetch loop: which of the flushes apply.
AfterBytes(r) == IF r.fetch_us > 0 THEN "flush_us" ELSE "flush_total"
AfterRows(r) == IF r.bytes_fetched > 0 THEN "flush_bytes" ELSE AfterBytes(r)

\* TakeBytesRead moves the cursor's byte count to the worker.
TakeBytes(r) ==
  [r EXCEPT !.bytes_fetched = @ + r.cursor_bytes, !.cursor_bytes = 0]
\* Fault: the cursor is reset without taking its byte count.
CloseCursorUncounted(r) ==
  [r EXCEPT !.cursor = FALSE, !.todo = {}, !.cursor_bytes = 0]

CloseCursor(r) == [TakeBytes(r) EXCEPT !.cursor = FALSE, !.todo = {}]

LeaveLoop(r) ==
  LET d == TakeBytes(r)
  IN [d EXCEPT !.pc = IF d.chunk # <<>> THEN "flush_rows" ELSE AfterRows(d)]

\* The head of the fetch loop.
Loop(r) ==
  IF Len(r.chunk) = VectorSize THEN LeaveLoop(r)
  ELSE IF r.cursor THEN [r EXCEPT !.pc = "fetch", !.t0 = now]
  ELSE [r EXCEPT !.pc = "pop"]

\* DuckDB calls FirebirdScanFunction while the query is running.
Scan(i) ==
  /\ status = "running"
  /\ Go(i, "scan", Loop(w[i]))
  /\ Local

-----------------------------------------------------------------------------
(* OpenNextPartitionCursor                                                 *)

\* Fault: the partition is read and the index advanced by different workers.
NextPartitionRace(i) ==
  /\ next_partition < partitions
  /\ Go(i, "pop", [w[i] EXCEPT !.pc = "record", !.part = next_partition])
  /\ next_partition' \in {next_partition, next_partition + 1}
  /\ UNCHANGED <<table, shared, delivered, unpushed_reported, reports,
                 pool_bytes, telemetry, now, errors>>

NextPartition(i) ==
  /\ next_partition < partitions
  /\ Go(i, "pop", [w[i] EXCEPT !.pc = "record", !.part = next_partition])
  /\ next_partition' = next_partition + 1
  /\ UNCHANGED <<table, shared, delivered, unpushed_reported, reports,
                 pool_bytes, telemetry, now, errors>>

QueueEmpty(i) ==
  /\ next_partition >= partitions
  /\ Go(i, "pop", LeaveLoop(w[i]))
  /\ Local

Record(i) ==
  /\ Goto(i, "record", "guard")
  /\ T!RecordQuery([query |-> query, part |-> w[i].part], LogSize, now)
  /\ Recording

\* unpushed_reported.exchange(true): TRUE for the first worker only.
FirstReport == bind.residual /\ ~unpushed_reported
\* Fault: the flag is tested and never set.
ExchangeForgets == UNCHANGED unpushed_reported

Exchange == unpushed_reported' = (unpushed_reported \/ bind.residual)

GuardPasses(i) ==
  /\ ~(FirstReport /\ Mode = "error")
  /\ Go(i, "guard", [w[i] EXCEPT !.pc = "open", !.t0 = now])
  /\ reports' = IF FirstReport /\ Mode = "warn" THEN reports + 1 ELSE reports
  /\ Exchange
  /\ UNCHANGED <<table, shared, delivered, next_partition, pool_bytes,
                 telemetry, now, errors>>

\* Fault: the exception of the guard is lost.
GuardThrowsNothing(i) ==
  /\ FirstReport /\ Mode = "error"
  /\ Goto(i, "guard", "open")
  /\ reports' = reports + 1
  /\ Exchange
  /\ UNCHANGED <<table, shared, delivered, next_partition, pool_bytes,
                 telemetry, now, errors>>

GuardThrows(i) ==
  /\ FirstReport /\ Mode = "error"
  /\ Goto(i, "guard", "scan_error")
  /\ reports' = reports + 1
  /\ Exchange
  /\ UNCHANGED <<table, shared, delivered, next_partition, pool_bytes,
                 telemetry, now, errors>>

\* Only a view the analysis does not call simple keeps its rows unordered:
\* there the slice is enforced here, everywhere else by ROWS m TO n.
LocalSlice == Paging /\ probe.found # "yes" /\ bind.is_view /\ ~bind.simple_view

PartitionRows(p) ==
  IF probe.found = "yes"
  THEN {k \in table : Covers(probe.lo, probe.hi, partitions, p, k)}
  ELSE table

PushedSlice(rows) ==
  IF Paging /\ ~LocalSlice
  THEN {k \in rows : Cardinality({j \in rows : j < k})
                       \in RowOffset..(RowOffset + RowLimit - 1)}
  ELSE rows

OpenCursor(i) ==
  /\ Go(i, "open", [w[i] EXCEPT !.pc = "open_us", !.cursor = TRUE,
                                !.todo = PushedSlice(PartitionRows(w[i].part)),
                                !.open_us = now - w[i].t0])
  /\ Local

OpenCursorFails(i) ==
  /\ Goto(i, "open", "open_error")
  /\ ServerError
  /\ UNCHANGED <<table, shared, delivered, next_partition, unpushed_reported,
                 reports, pool_bytes, telemetry, now>>

\* "OpenCursor: ..." is recorded, and then overwritten by the outer catch.
RecordOpenError(i) ==
  /\ Goto(i, "open_error", "scan_error")
  /\ T!SetError(w[i].part)
  /\ Recording

AddOpenTime(i) ==
  /\ Goto(i, "open_us", "open_total")
  /\ T!AddFirebirdTimeUs(w[i].open_us)
  /\ Recording

UpdateOpenTotal(i) ==
  /\ Go(i, "open_total", Loop(w[i]))
  /\ T!UpdateTotalTimeUs(now)
  /\ Recording

-----------------------------------------------------------------------------
(* The fetch loop                                                          *)

\* Fetch() returned a row: it counts one row, and one unit of row width.
Fetched(i, r) ==
  [w[i] EXCEPT !.todo = @ \ {r}, !.rows_read = @ + 1, !.cursor_bytes = @ + 1,
               !.fetch_us = @ + (now - w[i].t0)]

\* Fault: one row too many is skipped.
SkipsOneMore(i) == LocalSlice /\ w[i].rows_skipped <= RowOffset

Skips(i) == LocalSlice /\ w[i].rows_skipped < RowOffset
AtLimit(i) == LocalSlice /\ ~Skips(i) /\ w[i].rows_emitted >= RowLimit

SkipRow(i) ==
  /\ Skips(i)
  /\ \E r \in w[i].todo :
       Go(i, "fetch", Loop([Fetched(i, r) EXCEPT !.rows_skipped = @ + 1]))
  /\ Local

\* The row after the last one of the slice ends the scan and is dropped.
StopAtLimit(i) ==
  /\ AtLimit(i)
  /\ \E r \in w[i].todo : Go(i, "fetch", LeaveLoop(CloseCursor(Fetched(i, r))))
  /\ Local

AppendRow(i) ==
  /\ ~Skips(i) /\ ~AtLimit(i)
  /\ \E r \in w[i].todo :
       Go(i, "fetch",
          Loop([Fetched(i, r) EXCEPT
                  !.chunk = Append(@, r),
                  !.rows_emitted = IF LocalSlice THEN @ + 1 ELSE @]))
  /\ Local

\* The cursor dies, or a value of the row cannot be converted.
FetchThrows(i) ==
  /\ \/ Goto(i, "fetch", "scan_error")
     \/ /\ ~Skips(i) /\ ~AtLimit(i)
        /\ \E r \in w[i].todo :
             Go(i, "fetch", [Fetched(i, r) EXCEPT !.pc = "scan_error"])
  /\ ServerError
  /\ UNCHANGED <<table, shared, delivered, next_partition, unpushed_reported,
                 reports, pool_bytes, telemetry, now>>

\* Fault: the exhausted cursor is not reset.
EndOfCursorKeepsCursor(i) ==
  /\ w[i].todo = {}
  /\ Go(i, "fetch", Loop(w[i]))
  /\ Local

EndOfCursor(i) ==
  /\ w[i].todo = {}
  /\ Go(i, "fetch",
        Loop(CloseCursor([w[i] EXCEPT !.fetch_us = @ + (now - w[i].t0)])))
  /\ Local

-----------------------------------------------------------------------------
(* After the loop: one call on shared state per step.                      *)

\* Fault: a full vector is counted whatever was appended.
FlushFullVector(i) ==
  /\ Goto(i, "flush_rows", AfterRows(w[i]))
  /\ T!AddRows(VectorSize)
  /\ Recording

FlushRows(i) ==
  /\ Goto(i, "flush_rows", AfterRows(w[i]))
  /\ T!AddRows(Len(w[i].chunk))
  /\ Recording

\* Without a pool the byte count is final here.
FlushBytes(i) ==
  /\ Go(i, "flush_bytes",
        IF Attached THEN [w[i] EXCEPT !.pc = "flush_pool"]
        ELSE [w[i] EXCEPT !.pc = AfterBytes(w[i]), !.bytes_fetched = 0])
  /\ T!AddBytes(w[i].bytes_fetched)
  /\ Recording

FlushPool(i) ==
  /\ Go(i, "flush_pool", [w[i] EXCEPT !.pc = AfterBytes(w[i]), !.bytes_fetched = 0])
  /\ pool_bytes' = pool_bytes + w[i].bytes_fetched
  /\ UNCHANGED <<table, shared, delivered, next_partition, unpushed_reported,
                 reports, telemetry, now, errors>>

FlushFetchTime(i) ==
  /\ Goto(i, "flush_us", "flush_total")
  /\ T!AddFirebirdTimeUs(w[i].fetch_us)
  /\ Recording

\* The call returns: DuckDB takes the chunk, unless the query has ended
\* meanwhile; an empty chunk means that this worker is done.
Count(seq, r) == Cardinality({k \in 1..Len(seq) : seq[k] = r})
ReturnChunk(i) ==
  /\ Go(i, "flush_total",
        [w[i] EXCEPT !.pc = IF w[i].chunk = <<>> THEN "exhausted" ELSE "scan",
                     !.chunk = <<>>, !.fetch_us = 0])
  /\ T!UpdateTotalTimeUs(now)
  /\ delivered' = IF status = "running"
                  THEN [r \in Rows |-> delivered[r] + Count(w[i].chunk, r)]
                  ELSE delivered
  /\ UNCHANGED <<table, shared, next_partition, unpushed_reported, reports,
                 pool_bytes, now, errors>>

\* The outer catch records "Fetch: ..." and rethrows.
RecordScanError(i) ==
  /\ Goto(i, "scan_error", "threw")
  /\ T!SetError(w[i].part)
  /\ Recording

-----------------------------------------------------------------------------
(* ~FirebirdLocalState: the cursor first, then the connection.             *)

\* Fault: a worker that is done keeps its state until the query is.
MayTearDownFailed(i) == w[i].pc \in {"scan", "threw"} /\ status # "running"

MayTearDown(i) ==
  \/ w[i].pc = "exhausted"
  \/ w[i].pc \in {"scan", "threw"} /\ status # "running"

\* Fault: the connection is released before the cursor is closed.
TearDownKeepsCursor(i) ==
  /\ MayTearDown(i)
  /\ Go(i, w[i].pc, [w[i] EXCEPT !.pc = "release", !.chunk = <<>>])
  /\ Local

TearDownCursor(i) ==
  /\ MayTearDown(i)
  /\ Go(i, w[i].pc, [CloseCursor(w[i]) EXCEPT !.pc = "release", !.chunk = <<>>])
  /\ Local

ReleaseConnection(i) ==
  /\ Go(i, "release", [w[i] EXCEPT !.pc = "closed", !.conn = FALSE])
  /\ Local

-----------------------------------------------------------------------------
(* DuckDB's executor, the other clients of the server, and time.           *)

EndQuery(how) ==
  /\ status' = how
  /\ UNCHANGED <<bind, table, query, base, probe, partitions, delivered, next_partition,
                 unpushed_reported, reports, pool_bytes, telemetry, now, errors, w>>

\* A worker's exception ends the query; so may an interrupt or a LIMIT.
Abort ==
  /\ status = "running"
  /\ EndQuery("aborted")
Throws == Abort /\ \E i \in Workers : w[i].pc = "threw"

\* Every worker that was started has returned an empty chunk.
Finish ==
  /\ status = "running"
  /\ \A i \in Workers : w[i].pc \in {"unstarted", "exhausted", "release", "closed"}
  /\ \E i \in Workers : w[i].pc # "unstarted"
  /\ EndQuery("done")

Insert ==
  /\ \E k \in Env[bind].inserts \ table : table' = table \cup {k}
  /\ UNCHANGED <<shared, delivered, next_partition, unpushed_reported, reports,
                 pool_bytes, telemetry, now, errors, w>>

Tick ==
  /\ now < Env[bind].ticks
  /\ now' = now + 1
  /\ UNCHANGED <<table, shared, delivered, next_partition, unpushed_reported,
                 reports, pool_bytes, telemetry, errors, w>>

-----------------------------------------------------------------------------

\* What a worker does inside a call of the scan and in its destructor.
Work(i) ==
  \/ NextPartition(i) \/ QueueEmpty(i) \/ Record(i)
  \/ GuardPasses(i) \/ GuardThrows(i)
  \/ OpenCursor(i) \/ OpenCursorFails(i) \/ RecordOpenError(i)
  \/ AddOpenTime(i) \/ UpdateOpenTotal(i)
  \/ SkipRow(i) \/ StopAtLimit(i) \/ AppendRow(i) \/ FetchThrows(i) \/ EndOfCursor(i)
  \/ FlushRows(i) \/ FlushBytes(i) \/ FlushPool(i) \/ FlushFetchTime(i)
  \/ ReturnChunk(i) \/ RecordScanError(i)
  \/ TearDownCursor(i) \/ ReleaseConnection(i)

\* What DuckDB's scheduler does with a worker.
Schedule(i) == InitLocal(i) \/ InitLocalFails(i) \/ Scan(i)

Next ==
  \/ Begin \/ Abort \/ Finish \/ Insert \/ Tick
  \/ \E i \in Workers : Work(i) \/ Schedule(i)

Spec == Init /\ [][Next]_vars

\* DuckDB runs every task it has scheduled and notices the end of a query;
\* nothing makes a user start one, a client insert or a worker start late.
FairSpec ==
  /\ Spec
  /\ \A i \in Workers : WF_vars(Work(i)) /\ WF_vars(Scan(i))
  /\ WF_vars(\E i \in Workers : InitLocal(i) \/ InitLocalFails(i))
  /\ WF_vars(Throws) /\ WF_vars(Finish)

-----------------------------------------------------------------------------
(* Properties                                                              *)

Worker ==
  [pc : Steps, part : Nat \cup {NoWork},
   conn : BOOLEAN, cursor : BOOLEAN, todo : SUBSET Rows, chunk : Seq(Rows),
   cursor_bytes : Nat, bytes_fetched : Nat, rows_read : Nat,
   rows_skipped : Nat, rows_emitted : Nat,
   t0 : Nat, open_us : Nat, fetch_us : Nat]

TypeOK ==
  /\ bind \in Binds
  /\ table \subseteq Rows
  /\ query \in Nat
  /\ status \in {"idle", "running", "done", "aborted"}
  /\ base \subseteq table
  /\ delivered \in [Rows -> Nat]
  /\ probe \in [found : {"unprobed", "no", "yes"}, lo : Int, hi : Int]
  /\ partitions \in Nat
  /\ next_partition \in 0..partitions
  /\ unpushed_reported \in BOOLEAN
  /\ reports \in Nat /\ pool_bytes \in Nat
  /\ now \in Nat
  /\ errors \in Nat
  /\ w \in [Workers -> Worker]

\* Partitions are handed out, fetched chunk by chunk and delivered by racing
\* workers, and still no row is delivered twice and a scan that ends without
\* an error has delivered every row (or the slice asked for).
Table == INSTANCE TableScan WITH limit <- RowLimit, offset <- RowOffset
ImplementsTableScan == Table!Spec

\* No partition is scanned by two workers: each one popped from the queue goes
\* to exactly one (NextPartition under gstate.lock).
PartitionsExclusive ==
  \A i, j \in Workers :
    i # j /\ w[i].part # NoWork => w[i].part # w[j].part /\ w[i].part < next_partition

\* A cursor lives on its worker's own connection: it is closed before that
\* connection goes back to the pool, on every way out of a scan
\* (~FirebirdLocalState).
CursorOnOwnConnection == \A i \in Workers : w[i].cursor => w[i].conn

\* The sum of a function's values, counted unit by unit.
Units(f) == UNION {{i} \X (1..f[i]) : i \in DOMAIN f}
Total(f) == Cardinality(Units(f))

\* While a query runs, every row fetched is counted once in the byte
\* estimate: in the pool's counter or still with the worker that fetched it
\* (TakeBytesRead before every cursor reset, and at the end of every call).
Bytes(r) == r.bytes_fetched + r.cursor_bytes
BytesConserved ==
  Attached /\ query = 1 =>
    Total([i \in Workers |-> w[i].rows_read]) =
      pool_bytes + Total([i \in Workers |-> Bytes(w[i])])

\* With a log large enough for all partitions, its entries of this query add
\* up to the rows DuckDB was given, once no worker is between AddRows and
\* the return of its chunk; and an error stands in one of them exactly when a
\* worker has failed, whichever worker's capture is the newest by then.
Entries == {k \in 1..Len(log) : log[k].capture.query = query}
LoggedRows == Total([k \in Entries |-> log[k].rows_read])
Flushed == {i \in Workers : w[i].pc \in {"flush_bytes", "flush_pool", "flush_us",
                                         "flush_total"}}
FlushedRows == Total([i \in Flushed |-> Len(w[i].chunk)])
DeliveredRows == Total(delivered)
LoggedErrors == {log[k].error_message : k \in Entries} \ {NoError}
Failed == {i \in Workers : w[i].pc = "threw" /\ w[i].part # NoWork}
Failing == {i \in Workers : w[i].pc = "scan_error"}
LogAddsUp ==
  status = "running" /\ LogSize >= partitions =>
    /\ LoggedRows = DeliveredRows + FlushedRows
    /\ Failed # {} => LoggedErrors # {}
    /\ LoggedErrors \subseteq {w[i].part : i \in Failed \cup Failing}

\* "One report per scan", however many workers open their first cursor at
\* the same time (the exchange on unpushed_reported).
OneReport == reports <= 1

\* firebird_unpushed_mode='error': a scan with residual filters never ends
\* as if nothing had happened.
ErrorModeFails == bind.residual /\ Mode = "error" => status # "done"

\* A query that runs ends, and every connection goes back.
QueryEnds == status = "running" ~> status # "running"
ConnectionsReturn == \A i \in Workers : w[i].conn ~> ~w[i].conn

\* docs/en/usage_guide.md:13: "DuckDB queries Firebird when you need live
\* data": a query sees every row that was there when it started.
SeesLiveData ==
  status = "done" => \A r \in base : delivered[r] > 0
=============================================================================
