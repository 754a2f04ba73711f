# A verification of duckdb-firebird

This directory specifies the DuckDB extension *duckdb-firebird* (`src/src/`)
in TLA+. The extension lets DuckDB query Firebird databases: `ATTACH` gives it
a read-only catalog, `firebird_scan` reads one table directly, filters and
slices are pushed into the remote SQL, and several workers of DuckDB read one
table in parallel, cut along its primary key.

The modules are translated from the C++ code, with the tests and documents read
beside it. TLC checks each on small instances; TLAPS proves the most important
facts for every value of the constants. `PROJECT.json` maps each definition to
the lines it stands for, and lists the runs, the hazards, the mutants (a
plausible bug for each property, which TLC must find) and the theorems.

Run everything from this directory:

    tlc -workers 2 -config MCConnectionPool.cfg MCConnectionPool
    tlapm ConnectionPoolProofs.tla

## 1. The system

Three kinds of actor meet in this code: **DuckDB's threads**, which plan
queries and then run the scan function in parallel; the **Firebird server**
with its other clients, which fails, changes the data and changes the schema;
and the **user**, who changes settings, aborts queries and detaches. There is
no background thread in the extension: all code runs inside a call of DuckDB.

    planner --> attached catalog --lease--> connection pool --> connection --> statement
       |             | table entry, pk range                        ^            | rows, BLOBs
       v             v                                              |            v
    filter pushdown --> bind data --> table scan (global queue, local state) --> rows to DuckDB
                                        |
                                        +--> telemetry of the client context

| Component | Code | State it keeps | Operations | What is hard | What makes it correct |
|---|---|---|---|---|---|
| Connection pool | `firebird_client.cpp:281-400` | `idle_` (deque ordered by release time), `lock_`, counters, last error | `AcquireWithInfo`, `Release`, drain, `StatsSnapshot` | many threads; the connect happens outside the mutex; connect in two steps; a load that unwinds with a lease | a lease is exclusive and live, no attachment without an owner, cap, complete drains, counters in balance, the mutex always given back |
| Firebird connection | `firebird_client.cpp:402-512` | attachment and transaction handles | construct, destroy | half-built objects whose destructor does not run | nothing stays attached |
| Statements and BLOBs | `firebird_client.cpp:514-1009` | statement, cursor and BLOB handles, buffers, bytes read | three constructors, `Fetch`, `ReadBlob`, `TakeBytesRead`, destructor | every library call may fail; end of a BLOB is a status | a BLOB is whole or an error, bytes counted once, handles accounted for |
| Attached catalog | `firebird_storage.cpp`, parts of `firebird_scanner.cpp` | `tables_`, `loaded_`, `load_lock_`; per table `pk_cache_`, `pk_loaded_`, `pk_lock_` | lazy load (batch, then per-table fallback), lookup, scan of entries, `GetScanFunction` | readers take no lock; queries fail halfway; the schema changes meanwhile | published whole, never changed after; a failed load leaves nothing; all scans agree on the key range |
| Filter pushdown | `firebird_query.cpp`, `firebird_scanner.cpp:819-903, 1552-2334` | `extra_predicates`, `extra_params`, residual list of the bind data | complex-filter hook, `Build`/`TranslateFilter`, WHERE assembly | two APIs of the planner, four ways to push, parameters bound by position | the rows are those DuckDB alone would select |
| CHARACTER SET NONE text | `firebird_types.cpp`, `firebird_scanner.cpp:1773-1887` | none | transcode rows, encode literals, validate UTF-8 | two tables that must be inverse | comparison of stored bytes = comparison of texts |
| Partition bounds | `firebird_scanner.cpp:717-771` | none | `PickPartitionCount`, the cut | int64 overflow, rounded products | the ranges tile the key space |
| Table scan | `firebird_scanner.cpp:72-160, 382-698, 741-1195` | global: partitions, `next_partition`, `unpushed_reported`; per worker: connection, cursor, slice counters, bytes, times | bind, init, pop, open, fetch, flush, tear-down | workers race for all of it; errors and aborts anywhere | no row twice, none lost, exact slices, accounts that add up, resources returned |
| Query telemetry | `firebird_observability.cpp` | last query, ring buffer | record, add, set error | the log size changes underneath; several workers write one slot | newest entry mirrors the last query, older entries frozen |
| Unpushed-filter guard | `firebird_observability.cpp`, `firebird_scanner.cpp:985-1010` | one atomic flag per scan | silent / warn / error | racing workers | one report; in error mode the query fails |
| View analysis | `firebird_view_analysis.cpp` | none | `AnalyzeViewSource`, `ReconcileViewColumnTypes` | comments, literals and line breaks around a clause | the flags are those of the code of the view, whatever its comments and literals say |
| Value mapping | `firebird_types.cpp`, `firebird_client.cpp:566-700` | none | `FirebirdToDuckDBType`, `FirebirdAppendValue`, binding of parameters, type audit | the width of a vector is chosen at bind, the element is written at fetch; scales; two epochs; lengths in 16 bits | widths agree, a value comes out whole and a constant goes in whole |
| Connection strings and secrets | `firebird_client.cpp:40-240`, `firebird_storage.cpp`, `firebird_scanner.cpp` | none | `Parse`, options over it, DPB | three forms, escapes, special characters | each setting arrives; explicit option > string > default |
| Client library loader | `firebird_client_loader.cpp` | function-local `api`, `loaded` | `fbapi` | a load that throws half-way; a library replaced between two calls | whole or not at all, of one library |
| Explain and planning report | `firebird_explain_pushdown.cpp` | none | a row per scan of a plan | it probes and classifies by itself | says what the scan does |
| Profiles, health, metadata functions | `firebird_profile_table.cpp`, `firebird_index_profile.cpp`, `firebird_health.cpp`, `firebird_metadata_functions.cpp` and others | none; rows collected in init | several queries of the system tables each | any of the queries fails; functions that list the same relations each in its own way | a report is true or it throws; reports agree with each other and with the scan |
| Text of telemetry | `firebird_observability.cpp` | none | `MakeTelemetrySafeUtf8`, redaction, sanitising | bytes that are not UTF-8 | valid UTF-8, bytes kept |

The complete list, with the status of each part and the reason for what is left
out, is under `components` in `PROJECT.json`; the hazards, each at its line,
under `hazards`.

## 2. The modules

| Module | What it models | Role |
|---|---|---|
| `ConnectionLeases` | what a pool promises: leases are exclusive, a connection lives once | abstract |
| `ConnectionPool` | the pool under its mutex, one action per step between two points where another thread may get in | implements `ConnectionLeases` |
| `TableScan` | what a scan promises: no row twice, all rows of the snapshot or exactly the slice | abstract |
| `PartitionBounds` | cutting a key range, with the width of the integers | extended by `PartitionedScan` and `PureFunctions` |
| `QueryTelemetry` | last query and ring buffer | instantiated by `PartitionedScan` |
| `PartitionedScan` | bind, partition queue, workers, telemetry, tear-down | extends `PartitionBounds`, instantiates `QueryTelemetry`, implements `TableScan` |
| `TelemetryReaders` | the two table functions that read the telemetry in chunks | extends `QueryTelemetry` |
| `NoneCharset` | NONE text in both directions, UTF-8 | extended by `FilterPushdown` and `TelemetryText` |
| `FilterPushdown` | the way of a filter from the planner to the WHERE clause, and what it selects | composes with `NoneCharset` |
| `AttachedCatalog` | lazy load, lookups, key probe | |
| `Statement` | constructors, cursor, BLOB loop, handles | |
| `ViewAnalysis` | the lexer and the flags of a view's source | instantiated by `PureFunctions` |
| `ValueMapping` | types, elements, dates, times and lengths, with their widths | instantiated by `PureFunctions` |
| `ConnectionString` | parsing and overriding of settings | instantiated by `PureFunctions` |
| `ClientLibrary` | `fbapi` over several calls | instantiated by `PureFunctions` |
| `TelemetryText` | the text telemetry shows of a statement that is not UTF-8 | extended by `PureFunctions` |
| `TableReports` | profile, index profile and explain of one relation, with failing queries | composes with `PartitionBounds`; instantiated by `PureFunctions` |
| `MetadataReports` | the lists of relations, health, generators | instantiated by `PureFunctions` |
| `PureFunctions` | the functions without state: their inputs, what is assumed of them, and one property for each question | composes the modules of functions |
| `MC*` | constants for TLC; those of `MCFunctions` are the families of inputs | |
| `ConnectionPoolProofs`, `AttachedCatalogProofs`, `StatementProofs` | theorems of the module they are named after | proofs |
| `QueryTelemetryProofs` | theorems of `QueryTelemetry` and `TelemetryReaders` | proofs |
| `FunctionLemmas` | what is proved of the operators of `PartitionBounds` and `NoneCharset` | proofs |
| `PartitionedScanProofs` | theorems of `PartitionedScan`: invariants, the refinement of `TableScan`, the log | proofs, over `FunctionLemmas` |
| `FilterPushdownProofs` | theorems of `FilterPushdown` | proofs, over `FunctionLemmas` |
| `FunctionsProofs` | theorems of `PureFunctions` | proofs, over `FunctionLemmas` |

Definitions carry the names of the code wherever TLA+ allows it. Some
definitions are used only by a mutant (for instance `PopBackUncounted`,
`BatchFailsKeeps`): they stand directly before the definition they are a faulty
form of, with the fault in the comment.

### ConnectionPool

`idle` is `idle_`, a sequence of `[conn, released_at]`; `lock` is the holder of
`lock_`; `conn[c]` the life of the c-th `FirebirdConnection` on the server
(`attached` is a connection whose transaction is not started yet); `pc[t]` where
a thread stands in `AcquireWithInfo` or `Release`, `held[t]` the connection it
owns; `clock` the steady clock in ticks.

| Code | Actions |
|---|---|
| `AcquireWithInfo`: disabled; lock and drain; `std::move` out of the last entry, then `pop_back`; miss | `AcquireDisabled`; `AcquireLock`, `DrainExpired`; `TakeBack`, `PopBack`; `MissIdle` |
| the constructor of `FirebirdConnection`, outside the mutex | `AttachOk`, `AttachFails`, `StartTxOk`, `StartTxFails`; then `RecordConnectionError` |
| `Release`: count, disabled, lock, cap, park | `ReleaseToPool`, `ReleaseDisabled`, `ReleaseLock`, `DiscardSurplus`, `HasRoom`, `Park` |
| a catalog load that throws while it owns a connection (a plain `unique_ptr`, not a lease that returns it) | `LoadThrows` (threads in `Loaders`) |

The queue holds an emptied entry between `TakeBack` and `PopBack`, as the deque
does after `std::move`. `DrainExpired` drops the expired prefix from the front,
which is all the code looks at.

### PartitionedScan

A behaviour binds one statement (a record of `Binds`: attached or direct, table or view, key
or not, `row_limit`/`row_offset`, `partitions`, residual filters, mode of
the guard, size of the log) and runs it `Env[bind].queries` times. Rows are
named by their key. Workers are DuckDB's; `w[i].pc` is where worker *i*
stands, between any two accesses to state it shares.

| Code | Actions |
|---|---|
| bind with `ProbePrimaryKey` (direct) or the memoised probe (attached), `FirebirdScanInitGlobal` | `Begin` (`BindProbe`, `InitGlobal`) |
| `FirebirdScanInitLocal` | `InitLocal`, `InitLocalFails` |
| the top of `FirebirdScanFunction`, `NextPartition` under `gstate.lock` | `Scan`, `NextPartition`, `QueueEmpty` |
| `OpenNextPartitionCursor`: record, guard, open, times | `Record`, `GuardPasses`, `GuardThrows`, `OpenCursor`, `OpenCursorFails`, `RecordOpenError`, `AddOpenTime`, `UpdateOpenTotal` |
| the fetch loop with the local slice | `SkipRow`, `StopAtLimit`, `AppendRow`, `FetchThrows`, `EndOfCursor` |
| the flush of telemetry and the returned chunk | `FlushRows`, `FlushBytes`, `FlushPool`, `FlushFetchTime`, `ReturnChunk` |
| the catch block, destructors of the local state | `RecordScanError`, `TearDownCursor`, `ReleaseConnection` |
| DuckDB ends or aborts the query | `Finish`, `Throws`, `Abort` |
| other clients, time | `Insert`, `Tick` |

### FilterPushdown

A query is a sequence of filters, each on one column. `via` says what DuckDB does
with a filter that stays in its plan: relies on the scan for it (`table`),
offers it to the scan and applies it anyway (`optional`), or keeps it (`plan`).
The hook takes filters out of the plan (`PushLike`, `PushEncoded`, `PushNotIn`,
`PushNotBool`) or leaves them (`Keep`, with the reason of a gate); `Build` goes over
the rest (`NotOffered`, `ResidualRowId`, `ResidualNone`, `ResidualUnsupported`,
`Translate`); `Assemble` concatenates the text and the parameters. The meaning
of the result is given separately: `DuckDBSelects` on the decoded values,
`FirebirdSelects` on the stored ones. Both join the parts of a filter alike (`Selects`) and
differ in what a part says of a cell (`DuckDBTruth`, `FirebirdTruth`, in three-valued logic):
re-encoded literals, parameters as the client library carries them (`Bound`), DECFLOAT as
number or as text, and `ESCAPE`.

### AttachedCatalog

`EnsureTablesLoaded` is `LockForLoad`, `Acquire`, `LoadUniqueConstraints`,
`LoadForeignKeys`, then the batch (`LoadAllTableSchemas`, `AddFromBatch`, or
one of `BatchFails`, `AddFromBatchThrows`) or the fallback (`ListRelations`,
`LoadTableSchema`, `LoadTableSchemaThrows`), then `Finish` or `LoadedNothing`. A lookup
(`LookupEntry`) or `Scan` is `Call`, `AlreadyLoaded` or the load, `Read`;
`GetScanFunction` follows with `ReusePk`, or `LockPk` and `Probe`. Other
clients create and drop relations and insert rows (`OtherClient`). Names that
differ only in case collide under `ToUpper`, as in the code; the fallback reads
the columns of the *upper-cased* name.

### Statement

A BLOB is its bytes and the ends of its segments (two equal ends are an empty segment). One lease makes several statements. The constructors `plain`, `params` and
`describe` go through allocate, prepare, bind, execute; each call may fail, and
a constructor that throws leaves its handle, since no destructor runs. `ReadBlob`
is `OpenBlob`, then the loop `GetSegment`/`AppendSegment` with `EndOfBlob`, and the path of a failed read: `SegmentErrorMasked` (closing the
BLOB overwrites the status, so `Check` sees success and the loop goes on with a null
handle), `SegmentErrorThrown`, `NullHandleThrown`.

### QueryTelemetry, PartitionBounds, NoneCharset

`QueryTelemetry` has an operator for each method of the state in the client
context; `PartitionedScan` uses the same operators, so what is proved of them
is about the scan's telemetry too. `PartitionBounds` wraps at `IntMax`, takes the result
of an out-of-range cast as a parameter (undefined behaviour: it differs between
x86-64 and AArch64), and uses exact rationals where the code uses `long double`;
the code computes the end of one partition and the start of the next with the same
product, so rounding moves a boundary and never opens a gap. Where the offset passes `IntMax` (`CastOverflow`) the result
of the cast is that parameter. `NoneCharset` works on sequences of bytes; texts are sequences of code points, those
of the basic plane (`BmpText`) where they can be encoded at all.

### TelemetryReaders

`LastQueryInitGlobal` and `QueryLogInitGlobal` copy the slot or the log under the lock of the state; each
`LastQueryFunction` or `QueryLogFunction` emits a chunk of the copy and moves `reader.cursor`; `Recording` is
any step of `QueryTelemetry` in between. `shown` collects the rows, `log_then` remembers the log of the moment
the reader began.

### The modules of functions

These have no state in the program; a state of `PureFunctions` is one input of one family, and the property of the family
compares what the code computes with what it is for. Only `Grow` takes a step: a table that gets a larger key is scanned again.
`MCFunctions` gives the families small sets; the theorems hold for any that satisfy the assumptions of section 5.

- `ViewAnalysis`: `Normalized` is the lexer of `AnalyzeViewSource` with its four states, `Flattened` the white space, `Finds` the
  searches. The reference is `Tokens`: the words of the pieces the author wrote as code.
- `ValueMapping`: `FirebirdToDuckDBType` at bind, `AppendedBytes` at fetch, `TypeAudit`, `DayOut`/`DayIn`,
  `TimeOut`/`TimeIn`, `VaryingParam`. `Bits` and `Digits` scale the widths of the integers down.
- `ConnectionString`: `ParseUrl` and `ParsePairs` over sequences of characters, `Override` for
  named parameters and options. The reference writes the settings in either form and expects them back.
- `ClientLibrary`: `BindSymbols` overwrites the function pointers one by one and throws at the first missing symbol;
  `Calls` are successive calls of `fbapi`, between which the variable and the installed libraries may change.
- `TableReports`: each query of the system tables is an operator that may be in `failing`; where the code catches, the
  operator is empty, where it does not, the report is `Thrown`. `ScanPartitions` is what the scan itself would do.
- `MetadataReports`: each of the four functions that list relations has its own filter on `RDB$RELATION_TYPE` and its own
  treatment of names, as in the code; `Emitted` is the emission vector by vector.
- `TelemetryText`: `MakeTelemetrySafeUtf8` byte by byte.

## 3. The runs

Passing runs (all exhaustive):

| Run | Question and properties | Bounds |
|---|---|---|
| `pool` | Can two threads ever share a connection, can one leak, can the cap or the accounts be broken, can somebody keep the mutex? `ExclusiveLease`, `NoOrphanAttachment`, `IdleCap`, `CountersAddUp`, `DrainIsComplete`, `MutexReleased`, and the refinement `ImplementsLeases` | three threads, one of them a catalog load; three connections, two ticks; a pool capped at one, an unlimited one, a disabled one. Three connections are one more than the cap plus a race needs: a parked one, one on its way in, one surplus. Two ticks let an entry be fresh, at the timeout and past it |
| `scan` | Does a scan with racing workers deliver each row once, and account for it? `ImplementsTableScan`, `PartitionsExclusive`, `CursorOnOwnConnection`, `BytesConserved`, `LogAddsUp`, `OneReport`, `ErrorModeFails`, `QueryEnds`, `ConnectionsReturn` | two workers; six kinds of statement; up to three partitions, so that one worker takes two; vectors of two rows, so that a chunk fills, is partial or is empty; one server error, an insert, an abort anywhere; two queries for the direct and the paged statements; the paged view is bound with `row_limit=1, row_offset=1`, so that a row is skipped, one emitted and one left |
| `catalog` | What do readers without a lock see of a load that may fail anywhere? `CompleteOrSkipped`, `RetriesStartClean`, `ScansAgree`, `PublishedFrozen`, `CallsReturn` | two threads and two calls, every initial subset of four relations (a keyed table, its quoted namesake in lower case, a view over NONE text, a table whose columns collide), one failed query, one change of another client |
| `pushdown` | Are the rows those DuckDB would select? `RowsExact`, `ParamsMatch`, `NoneNeverUtf8` | every query of one or two filters out of 33 shapes, one per distinct path through the hook and the builder; every `none_encoding`, with and without `none_pushdown`, both planner APIs; columns of every kind that is treated differently with two to five cells. Two filters are enough for the order of parameters between the hook and the builder |
| `functions` | Do the functions without state compute what they are for? One property for each question, in the table below | see below |
| `telemetry` | Do the slot and the log tell the same story, to somebody who reads them in chunks too? `NewestIsLast`, `OlderEntriesFrozen`, `ReadsOneMoment` | two captures (interchangeable); log sizes negative (off), one, two, changing at any time; amounts and clock up to one; a vector of one row, so that a reader of two rows takes three calls |
| `statement` | `BlobWhole`, `BytesCounted`, `HandlesAccounted`, `ReadBlobEnds` | a buffer of two bytes, BLOBs of up to two segments that are empty, shorter, as long, longer by a part or by a whole buffer; two statements of each constructor, any two failing calls |

The run `functions` enumerates fourteen families of inputs:

| Property | Inputs |
|---|---|
| `KeyRangesTile` | every range of a 5-bit integer, all partition counts that round differently; a cast that overflows saturates, as on AArch64 (the run `scan` has the result of x86-64, the theorem both); each range also grows |
| `EqualityIsLossless` | every stored byte against more than 1200 code points around all that the two code pages contain |
| `TextIsValid` | byte strings up to four bytes (the longest sequence) over every byte where the rules of UTF-8 change |
| `ViewFlagsExact` | code, one literal or comment with any body of up to three characters, code; the pieces of code put each clause at either side of the boundary, or across it |
| `ValuesWhole` | integers of 2, 4, 8 and 16 bytes (scaled to 5, 8, 11 and 15 bits, 1 to 4 digits) with six scales, tables and views frozen at any other type, widened or not; all lengths of a scaled `unsigned short`; 1600 days around both epochs' offset; eight Firebird ticks |
| `SettingsArrive` | passwords of up to two characters over every character that means something to one of the forms, users and roles likewise; a URL with all or only the needed escapes, and pairs; a host with a port, an IPv6 host, none; with and without an explicit option |
| `ReportsTellTheTruth` | tables with every kind of key, column and index, ranges that are empty, single, small, large, wider than an int64_t and all of int64_t; views of every shape; a missing relation; any two failing queries; servers; generators |
| `DiscoveryAgrees` | databases of up to three relations, two of whose names differ in case only, of every relation type |
| `LibraryIsWhole` | two calls of `fbapi`, each with any choice of override and installed libraries, absent, incomplete or whole |

`CHECK_DEADLOCK FALSE` everywhere: all these systems may stop, when the calls,
queries and inputs of the instance are used up.

Violation runs, each on one sentence of the documents or comments that the code
contradicts (quoted in full under `findings`):

| Run | What TLC finds |
|---|---|
| `scan_stale` | The key range of an attached table is probed once. A row inserted later outside it is in no partition, and every later query misses it until `DETACH`. The usage guide promises live data. |
| `pushdown_residual` | A filter DuckDB has handed over and the builder refuses is recorded as residual and applied by nobody; the header says it is reapplied above the scan. |
| `pushdown_like` | A pattern with a backslash before a wildcard. DuckDB treats the backslash as a character, the pushed `LIKE … ESCAPE '\'` does not. |
| `audit_narrow` | A scaled SMALLINT or INTEGER holds more digits than the `DECIMAL(4,s)` or `DECIMAL(9,s)` it is projected to; the manual says these always fit. |
| `catalog_none_view` | The live description of a view replaces the column types, so a NONE text column of a view is VARCHAR under `none_encoding='blob'`. |

Further disagreements met while modelling, which no run is spent on:

- `active_connections` stays one too high after each catalog load that throws
  (`firebird_storage.cpp:604`, `:633`): the load keeps its connection in a plain
  `unique_ptr`, which detaches it on unwinding without `Release`. `CountersAddUp`
  accounts for it in `lost`. `include/firebird_client.hpp:303-306` says "all
  extension paths release through the pool".
- `docs/en/observability.md:125` says that error mode fires before any row is
  fetched. Workers that lose the exchange may fetch first. What holds, and is
  checked, is `ErrorModeFails`.
- `firebird_time_us` may exceed `total_time_us`, because the fetch time of a partition
  can be added to the capture of the next; `test/sql/firebird_observability.test:132`
  expects the opposite.
- A statement constructor that throws leaves its handle open on the connection.
- `ReadBlob` replaces the error of a failed segment by that of the null handle.
- A TIMESTAMP constant is truncated to the tick of Firebird on its way into the parameter (`firebird_client.cpp:681`) though its filter has
  left the plan; `firebird_query.cpp:42-44` calls such constants safely bound.
- `firebird_explain_pushdown.cpp:488-495` says `planned_partitions` is NULL exactly when `pk_range_eligible` is false; it is also
  NULL for INT128 keys and for empty and one-row tables. `:525` opens a connection that is not the pool's.
  Scans in subqueries of WHERE or SELECT and in recursive CTEs are not found by its walk.
- `firebird_profile_table.cpp:506` takes `front()` of the key columns, which are empty when the query of the segments failed
  and there is no range (undefined behaviour: `KeyAlerts` yields `undefined`). `estimated_rows` (`:452`) overflows for
  a range wider than an int64_t: it is negative, and shown as NULL, except for keys that span all of int64_t, where it wraps to 0 and
  is shown as an upper bound. `AdviceIsTheScan` says so. Columns of inactive indexes count as filter candidates. A failed query of the
  indexes is reported as the alert `no_primary_key`.
- The type audit prints `DECIMAL(18,20)` for a scale above 18, where the scan projects DOUBLE, and does not flag INT128
  with a scale, whose range exceeds 38 digits. The DOUBLE fallback writes the raw integer into the vector.
- The view analysis, which claims to need no tokenizer, misses `JOIN(`, `)JOIN`, comma joins and quoted identifiers with an apostrophe.
- `firebird_extension.cpp:65`, `:70`, `:76` give examples of pair strings without `;`, which `Parse` takes for a bare path. An IPv6
  host with a port is left as it was written (`firebird_client.cpp:125`).
- `firebird_attach_sql` drops the overrides `user`, `password` and so on from the views it writes (`firebird_scanner.cpp:1476`).
- `firebird_generate_dbt_sources` fails as a whole for a table named in quoted lower case, since `LoadTableSchema` upper-cases
  the name, and omits external and temporary tables that `ATTACH` exposes. The errors of `ValidateFirebirdAttachAlias` name it
  whoever calls.
- `firebird_tables` shows an arbitrary member of a composite key as `pk_column`.
- `firebird_pool_stats` reads the counters one after the other without a common lock (`firebird_storage.cpp:1060`), so a row may mix two moments.

## 4. Fairness

- `pool`: weak fairness of each thread *inside* a call (the operating system
  schedules it). No call is forced to begin, no lease to end.
  `std::mutex` is not fair, and none of the properties needs it to be:
  `MutexReleased` is about the holder.
- `scan`: weak fairness of each worker's own step, of starting *some* worker, of
  re-entering the scan function, of the end of the query and of reporting an exception:
  this is what DuckDB's executor does with a source that is not exhausted. `Abort`,
  server errors, inserts and the clock are never fair.
- `catalog`: weak fairness of each thread inside a call; a waiting thread gets a mutex since
  the number of calls is finite, not by fairness of the mutex.
- `statement`: weak fairness of the loop of `ReadBlob`.

## 5. What is proved

Assumptions are those on the constants only (`PoolAssumption` and its like in the modules,
evaluated by TLC in the runs); nothing is assumed of sizes but that they are
naturals, and of threads, workers and rows that there are finitely many where they are counted. Of the inputs of the
functions (`TextAssumption`, `WidthAssumption`, `LibraryAssumption`, `ReportAssumption` in `PureFunctions`) it is assumed that they
have the types of the program, that a wider integer is given more digits (so that the widest DECIMAL holds 2^63), and that a
key's range holds its rows. Two theorems have
a hypothesis of their own (`ScanRefines`, `PushdownIsExact`): it names exactly the disagreements that the violation runs show, and is
explained below. Each invariant was checked with TLC before it was proved.

**ConnectionPoolProofs.** `PoolInv` is inductive for any number of threads and
connections. `ExclusiveLease` alone is not: to know that the entry popped from
`idle` is nobody's one needs that exactly the threads inside a `lock_guard` scope
hold the mutex (`MutexInv`), what each position owns (`HeldInv`), that the parked
connections are open, distinct and sorted, with at most one
emptied entry at the back (`IdleInv`), and how full the queue is at each position of the
return path (`CapInv`). From it: `TypeCorrect`, `LeasesAreExclusive`,
`NoAttachmentLeaks`, `IdleIsCapped`, `DisabledParksNothing`, `DrainsAreComplete`
(an action property: the order in `IdleInv` makes the prefix all there is to
drain) and `PoolImplementsLeases` (each step maps to a step of `ConnectionLeases` or a stutter).

The last section proves `CountersAreInBalance` (`CountersAddUp`). The counters are
atomics, each updated at its own place and most of them outside `lock_`, so no critical section keeps the sum. `Accounts` counts
a connection that is leaving `idle_` by its emptied entry: then every step moves one thread and at most one connection
(`CountMoves`, `AccountsMove`). `ParkedCount` and `OwnersCount` lead back to the sets of the property; they need
`PoolInv` for the shape of `idle_` and for the mutex that lets at most one thread be between the move and `pop_back`.

**PartitionedScanProofs.** `ScanInv` is `TypeOK`, `Good` of every worker's record (where a
worker must own a connection, cursors only with a connection, the timer not ahead of the
clock), `PartInv` (popped partitions are distinct and behind the index)
and `GuardInv`. Nearly all steps replace one worker's record, so one lemma
(`GoKeeps`) reduces them to a fact about the record. From it: `TypeCorrect`,
`PartitionsAreExclusive`, `CursorsAreOnOwnConnections`, `GuardReportsOnce`, for any number of
workers, rows and partitions. Three more theorems need more:

- `ErrorModeAlwaysFails` (`ErrorModeFails`) rests on `ErrorInv`: until the shared flag is set no worker is past the
  guard, and the worker that sets it throws. It needs that there is at least one partition, thus that somebody must
  meet the guard, which is why `PartitionCountType` proves the count positive.
- `BytesAreConserved` (`BytesConserved`) rests on `BytesInv`. The property compares two totals over all workers; a total is a
  cardinality, so `TotalChanges` says how it moves when one worker's share does, and every step is shown either
  to keep both totals (`BytesKeptInStep`), to add the same row to both, or to pass bytes from a worker to the pool.

The refinement of `TableScan` holds for any workers, rows, vector size and faults. `WorkerMoves` first
reduces the two dozen actions of a worker to seven moves (passes, pops, opens, fetches, closes, returns, tears down);
everything after it is about the moves. Two groups of invariants:

- `HeldInv`: the partitions cut the key range (`CutInv`), what a worker that has stopped is sure of (`DrainInv`), and no row is
  handed over twice or held by two workers, nor taken from a partition still to be read (`OnceInv`). Theorem
  `RowsTakenOnce` says so of every behaviour.
- `WholeInv`: the rows lie within the probed range (`BaseInv`), each is taken or in a partition still to be read (`AllInv`), and a
  statement with a slice has one worker only, whose count is exact (`SliceInv`; the slice is counted by the worker for a view that is not simple, and is
  `ROWS m TO n` of the server for everything else).

`ScanRefines` (`ImplementsTableScan`) follows, under the hypothesis `NoStaleProbe`: an attached table with a key that is scanned more
than once gets no inserts. Without it the statement is false, as the run `scan_stale` shows: the range is
probed once per `ATTACH`. A direct scan, a table without a key, and the first scan of an attached table are proved with
inserts at any moment.

`LogAlwaysAddsUp` (`LogAddsUp`): `SlotInv` is the telemetry's own invariant seen through the scan, `RecentInv` finds
the entries of the running query at the end of the log (as many as partitions popped, less those not yet recorded),
`SumInv` balances their rows against those delivered and those on their way, `BlameInv` keeps an error with the partition of a
worker that failed.

**AttachedCatalogProofs.** `PublishedFrozen` rests on `LoadInv` (whoever is inside the load holds
`load_lock`, and nobody is once `loaded`), `ScansAgree` on
`MemoInv` (whoever probes holds the lock of an entry not yet memoised, so no scan
has bound a range the probe could contradict). Theorems
`CatalogInvariant`, `PublishedIsFrozen`, `ScansAlwaysAgree`, and two with an invariant of their own:

- `FailedLoadsLeaveNothing` (`RetriesStartClean`) rests on `EmptyInv`: `tables_` is empty from the start of a load through
  the constraints to the batch and again when the batch has failed, and it is there that a load can throw; the fallback
  swallows the errors of single tables, and its own last exception is thrown only when the map is empty.
- `PublishedIsComplete` (`CompleteOrSkipped`) rests on `FoundInv`: each relation that was there all through the load has its
  entry, was skipped, or is still to come; nothing is skipped before the fallback, and `found` is set when there was something
  to load. Other clients create and drop relations at any moment.

**FunctionLemmas.** The cut of a key range, and the two tables of `none_encoding`, which are inverse to each other.

- `CutIsRight`: for every width of the integers, both results of an overflowing cast, every range, every `partitions=` and every
  number of cores, each key is in exactly one partition, and none is empty while the range fits in an `int64_t` or the count was
  chosen by the code.
- `EncodeInverts`: a stored byte is the code of a code point exactly if it decodes to it; `Utf8Injective`: two texts of the basic
  plane with the same UTF-8 are the same text. From both, `ReencodingIsExact`: a literal that can be re-encoded is equal to
  the stored bytes that DuckDB would see as that literal, and to no others.
- `TranscodedIsValid`: whatever is stored, the single-byte decoders hand valid UTF-8 to DuckDB.
- `DecodersAgree`: `IsValidUtf8`, which STRICT asks of a row, and `DecodeUtf8`, which reads a literal, accept the same byte
  strings; `ReadingLosesNothing`: what is read of a literal, written again, is the literal.
- `LiteralIsExact` composes them end to end, from the bytes of the literal in the query to the stored bytes that are compared.

The decoders are recursive functions over positions. `ValidSteps` and `ReadSteps` show that each is defined, by
exhibiting the set of boundaries or the function that solves its equation; induction over positions and over sequences goes through the
well-foundedness of `<` (`NatLessThanWellFounded`, `WFMin`: a smallest counterexample), since the
library's induction theorems take an operator as a parameter.

**FunctionsProofs.** The functions without state, for every input that satisfies the assumptions.

- `RangesAlwaysTile` (`KeyRangesTile`) is `CutIsRight` along a behaviour in which the table grows: every range that
  is scanned is a range of the cut. `EqualityIsAlwaysLossless` (`EqualityIsLossless`) takes literals of one character from `EncodeInverts`.
- `TextIsAlwaysValid` (`TextIsValid`), for byte strings of any length. The two decoders and the transcoding are those of
  `FunctionLemmas`. What telemetry shows is built by recursive functions over positions that run backwards (`Backward`,
  `Downwards` show that such a function solves its equation); it is then cut into pieces, each a sequence of valid UTF-8 or an escape, so
  that the whole is valid, and reading the escapes back gives the bytes.
- `ValuesAlwaysWhole` (`ValuesWhole`), for all widths, digits and scales: the type is decided at bind by the digits a width is
  given, and every type that is chosen has the width of the element that is written. Dates and times go both ways for every day and
  every microsecond.
- `LibraryAlwaysWhole` (`LibraryIsWhole`) rests on `AlwaysLoaded`, an invariant over the calls of `fbapi`: `loaded` is set exactly by
  the first call that returns, and what is bound is of the library it chose. It holds for any symbols, candidates and worlds.
- `ReportsAlwaysTellTheTruth` (`ReportsTellTheTruth`), for any relation and any set of failing queries. `ProbedRange` says which
  keys have a range, `AdviceIsTheCount` that profile, explain and scan all come to the count of the same cut, `OneLever` that
  exactly one branch of the profile names a lever. The proof found the estimate of 0 for keys that span all of `int64_t` (section 3),
  which the run `functions` had no relation for; it has one now.
- `DiscoveryAlwaysAgrees` (`DiscoveryAgrees`), for any number of relations, of which no two have the same name (`Discoverable`; two
  may differ in case only). `KeptFacts` says by induction over the rows what a `WHERE` clause keeps and that it keeps no row
  twice; `ListsAgree`, `ListedAreFound` and `SourcesAre` follow for the four lists and the catalog's map. `EmittedIsWhole` goes
  backwards over the cursor: vectors of any size, joined, are all rows in their order.

**FilterPushdownProofs.** For every query over any constants:

- `NoneIsNeverComparedAsUtf8`: no query pushes a UTF-8 literal to a NONE text column. The predicates lifted by the hook
  wait in `extra` before they reach the WHERE clause, so `IInv` says of `extra` what it says of the WHERE clause.
- `ParamsAlwaysMatch` (`ParamsMatch`) rests on `ParamInv`: a lifted predicate waits together with the values of its
  placeholders, and the builder appends a condition and its values in one step or neither.
- `PushdownIsExact` (`RowsExact`) rests on `Account`: at each pass every filter is in the plan, in `extra`, in the WHERE
  clause or residual, and there once. What remains is that each form a filter takes on its way selects the same cells. Its hypothesis
  `AllAlike` excludes the constants that Firebird is known to read otherwise, and nothing else: a TIMESTAMP between two ticks of
  100 µs, which the parameter truncates (section 3), and a pattern with a backslash (run `pushdown_like`). TLC finds `AllAlike`
  true of every query of the run `pushdown`. Filters that are given up and reapplied by nobody (run
  `pushdown_residual`) are outside of `RowsExact` itself.

**StatementProofs.** For any column and segment sizes and any failing calls.

- `HandlesAreAccounted`: `HandleInv` adds to the sum of `HandlesAccounted` that a
  BLOB handle exists in the client only inside the loop of `ReadBlob` (`InLoop`): so a constructor, a fetch or the
  destructor moves the statement's own handle alone (`StatementHandle`), and a step of the loop the BLOB's (`BlobHandle`).
- `BlobsAreWhole` (`BlobWhole`): `RestInv` says that what is read so far is the BLOB up to `sent`, and that the ends still to come
  ascend from there to its last byte; so the BLOB that is returned is whole, byte for byte.
- `BytesAreCounted` (`BytesCounted`) rests on `BytesInv`.

**QueryTelemetryProofs.** `TypeCorrect`, `NewestEntryIsLastQuery`, `OlderEntriesAreFrozen`, for any
log size, changing at any time. `ReadersSeeOneMoment` (`ReadsOneMoment` of `TelemetryReaders`) holds for any log and vector size:
`CopyInv` adds that the copy is the reversed log of the moment the reader began, and that the rows shown are the copy
up to the cursor; a chunk then extends one prefix to a longer one (`PrefixGrows`).

**Only model-checked.**

- Liveness: `MutexReleased`, `QueryEnds`, `ConnectionsReturn`, `CallsReturn`, `ReadBlobEnds`. The prover has neither fairness nor `ENABLED`.
- `ViewFlagsExact` and `SettingsArrive`: what a lexer and a parser do with any text is an induction over the text, on functions whose
  state at each character depends on all before it.

## 6. Abstractions and what is left out

- A query of the catalog batch reads one snapshot: each relation is there or not. The side queries of constraints
  only fail or succeed.
- Filters concern one column and conjunctions are one level deep; deeper ones go through the same code recursively.
- Collations of the server are not modelled (blank padding in comparisons is listed as a hazard). The cells of
  `pushdown` have no digits below a tick of Firebird (see section 3); its filters that nobody
  reapplies are in `pushdown_residual`.
- `long double` products are exact (see above).
- What DuckDB and the client library do is modelled from how this code uses them and marked external in the map.
- A word is one character of its own in `ViewAnalysis`, a key in `ConnectionString`. Aggregates are one word, since all are searched alike.
- Not modelled: the bytes of DPB and TPB; DuckDB's secret manager; the redaction of binds and the sanitising of error messages, the
  reasons and wording of explain, the YAML of dbt sources (text, which no property is about); the walk of explain
  over DuckDB's plans; the metadata functions that are one SELECT each (domains, comments, dependencies);
  floating point, DECFLOAT and time zones in the value mapping, which pass through unchanged; connections that die with a
  restart of the server (the pool does not test them: the next query fails, as with any server error); `firebird_pool_stats`.

## 7. Plan

Done, in this order: pool and leases; telemetry; bounds and scan; NONE text and pushdown; catalog;
statement; view analysis, value mapping, connection strings, client loader; readers of the telemetry; reports.
The order is that of what a failure would cost: wrong ownership of connections, then wrong rows,
then wrong schema, then wrong advice.

Next:

1. Composition of catalog and pool: a load and workers sharing the leases of one pool, in place of `LoadThrows`.
2. Statements and leases together with the scan: handles left by failed constructors on a connection that is reused.
3. Parked connections that the server has closed.

Proofs still worth writing, all by induction over data (section 5, *Only model-checked*):

1. `ViewAnalysis`: a clause is found whatever the comments and literals around it.
2. `ConnectionString`: what is written in either form is read back.
