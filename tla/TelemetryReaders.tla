-------------------------- MODULE TelemetryReaders --------------------------
(* firebird_last_query() and firebird_query_log(): table functions that     *)
(* copy the telemetry once, under its lock, and hand the copy out in chunks *)
(* while the connection's scans go on recording.                            *)
EXTENDS QueryTelemetry, SequencesExt

CONSTANT STANDARD_VECTOR_SIZE

ASSUME VectorAssumption == STANDARD_VECTOR_SIZE \in Nat \ {0}

VARIABLES
  reader,    \* the call: [function, snapshot, cursor, ended]
  shown,     \* history: the rows it has emitted
  log_then   \* history: the log, and the slot, when it began

readers == <<reader, shown, log_then>>

NoReader == [function |-> "none", snapshot |-> <<>>, cursor |-> 0, ended |-> FALSE]

ReadersInit ==
  /\ Init
  /\ reader = NoReader
  /\ shown = <<>>
  /\ log_then = <<>>

-----------------------------------------------------------------------------

SnapshotLog == Reverse(log)
GetLastQuery == IF last.capture = NoCapture THEN <<>> ELSE <<last>>   \* valid

Begin(function, snapshot, moment) ==
  /\ reader = NoReader
  /\ reader' = [function |-> function, snapshot |-> snapshot, cursor |-> 0, ended |-> FALSE]
  /\ log_then' = moment
  /\ UNCHANGED <<vars, shown>>

LastQueryInitGlobal == Begin("firebird_last_query", GetLastQuery, GetLastQuery)
QueryLogInitGlobal == Begin("firebird_query_log", SnapshotLog, log)

\* Fault: each call reads the log anew and goes on at its cursor.
RestOfLiveLog == SubSeq(SnapshotLog, reader.cursor + 1, Len(log))
\* What is left to emit.
Rest == SubSeq(reader.snapshot, reader.cursor + 1, Len(reader.snapshot))

\* One call of the function: a chunk of rows, none at the end.
Emit(n) ==
  /\ ~reader.ended
  /\ shown' = shown \o SubSeq(Rest, 1, n)
  /\ reader' = [reader EXCEPT !.cursor = @ + n, !.ended = n = 0]
  /\ UNCHANGED <<vars, log_then>>

LastQueryFunction == reader.function = "firebird_last_query" /\ Emit(Len(Rest))
QueryLogFunction ==
  /\ reader.function = "firebird_query_log"
  /\ Emit(IF Len(Rest) < STANDARD_VECTOR_SIZE THEN Len(Rest) ELSE STANDARD_VECTOR_SIZE)

Recording == Next /\ UNCHANGED readers

ReadersNext ==
  \/ Recording
  \/ LastQueryInitGlobal \/ QueryLogInitGlobal
  \/ LastQueryFunction \/ QueryLogFunction
ReadersSpec == ReadersInit /\ [][ReadersNext]_<<vars, readers>>

-----------------------------------------------------------------------------
(* Properties                                                              *)

\* However many chunks a reader takes, and whatever is recorded, evicted or
\* switched off in between, its rows are the log at one moment, "most recent
\* first", each once and all of them at the end (SnapshotLog,
\* QueryLogFunction).
ReadsOneMoment ==
  /\ IsPrefix(shown, Reverse(log_then))
  /\ reader.ended => shown = Reverse(log_then)
=============================================================================
