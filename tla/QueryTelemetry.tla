--------------------------- MODULE QueryTelemetry ---------------------------
(***************************************************************************)
(* FirebirdObservabilityState (src/src/firebird_observability.cpp): the    *)
(* last_ slot of a DuckDB connection and its ring buffer log_.  Every      *)
(* method is one lock_guard scope, so each is one step; what callers do    *)
(* between two calls is theirs (see PartitionedScan).                      *)
(***************************************************************************)
EXTENDS Integers, Sequences

CONSTANTS
  Captures,    \* what identifies a captured query: its SQL, table, binds
  NoCapture,   \* a slot that was never written
  Errors,      \* sanitized error messages
  NoError,     \* the empty error_message
  LogSizes,    \* values of SET firebird_query_log_size
  MaxCount,    \* bound: the metrics of a query, added up
  MaxClock     \* bound: steady_clock::now()

ASSUME TelemetryAssumption ==
  /\ NoCapture \notin Captures
  /\ NoError \notin Errors
  /\ LogSizes \subseteq Int
  /\ MaxCount \in Nat
  /\ MaxClock \in Nat

VARIABLES
  last,      \* last_
  log,       \* log_, oldest first
  start,     \* start_
  log_size,  \* the session setting, read by each caller of RecordQuery
  now        \* steady_clock::now()

slots == <<last, log, start>>
vars == <<slots, log_size, now>>

\* A telemetry row as the scanner fills it in, before any metric.
Fresh(capture) ==
  [capture |-> capture, rows_read |-> 0, bytes_read_estimate |-> 0,
   firebird_time_us |-> 0, total_time_us |-> 0, error_message |-> NoError]

\* last_ is created with valid = false.
NoQuery == Fresh(NoCapture)

Init ==
  /\ last = NoQuery
  /\ log = <<>>
  /\ start = 0
  /\ log_size \in LogSizes
  /\ now = 0

-----------------------------------------------------------------------------

\* push_back, then pop_front while there are more than size entries.
Keep(seq, size) ==
  IF Len(seq) > size THEN SubSeq(seq, Len(seq) - size + 1, Len(seq)) ELSE seq

RecordQuery(capture, size, time) ==
  /\ last' = Fresh(capture)
  /\ start' = time
  /\ log' = IF size <= 0 THEN <<>> ELSE Keep(Append(log, last'), size)

\* Fault: the metric is not copied onto the log.
MirrorLastOnly(field, value) ==
  /\ last' = [last EXCEPT ![field] = value]
  /\ UNCHANGED <<log, start>>

\* Fault: front() for back().
MirrorOldest(field, value) ==
  /\ last' = [last EXCEPT ![field] = value]
  /\ log' = IF log = <<>> THEN log ELSE [log EXCEPT ![1][field] = value]
  /\ UNCHANGED start

\* Writes a metric of last_ and copies it onto the newest log entry, if any.
Mirror(field, value) ==
  /\ last' = [last EXCEPT ![field] = value]
  /\ log' = IF log = <<>> THEN log ELSE [log EXCEPT ![Len(log)][field] = value]
  /\ UNCHANGED start

AddRows(n) == Mirror("rows_read", last.rows_read + n)
AddBytes(n) == Mirror("bytes_read_estimate", last.bytes_read_estimate + n)
AddFirebirdTimeUs(us) == Mirror("firebird_time_us", last.firebird_time_us + us)

UpdateTotalTimeUs(time) == Mirror("total_time_us", time - start)
SetError(message) == Mirror("error_message", message)

-----------------------------------------------------------------------------
(* The state on its own: any sequence of calls, with the log setting       *)
(* changing and the clock advancing in between.                            *)

SetLogSize == log_size' \in LogSizes /\ UNCHANGED <<slots, now>>
Tick == now < MaxClock /\ now' = now + 1 /\ UNCHANGED <<slots, log_size>>

Metered == last.rows_read + last.bytes_read_estimate + last.firebird_time_us

Method ==
  \/ \E c \in Captures : RecordQuery(c, log_size, now)
  \/ Metered < MaxCount /\ AddRows(1)
  \/ Metered < MaxCount /\ AddBytes(1)
  \/ Metered < MaxCount /\ AddFirebirdTimeUs(1)
  \/ UpdateTotalTimeUs(now)
  \/ \E e \in Errors : SetError(e)

Next == SetLogSize \/ Tick \/ (Method /\ UNCHANGED <<log_size, now>>)
Spec == Init /\ [][Next]_vars

-----------------------------------------------------------------------------
(* Properties                                                              *)

Telemetry ==
  [capture : Captures \cup {NoCapture}, rows_read : Nat,
   bytes_read_estimate : Nat, firebird_time_us : Nat, total_time_us : Nat,
   error_message : Errors \cup {NoError}]

TypeOK ==
  /\ last \in Telemetry
  /\ log \in Seq(Telemetry)
  /\ now \in 0..MaxClock
  /\ start \in 0..now
  /\ log_size \in LogSizes

\* firebird_query_log()'s newest row and firebird_last_query() show the same
\* query with the same metrics, also after the log was switched off and on
\* in the middle of a query (RecordQuery, AddRows ... SetError).
NewestIsLast == log # <<>> => log[Len(log)] = last

Older(s) == SubSeq(s, 1, Len(s) - 1)

\* "Older entries are frozen": a method changes the newest entry or pushes a
\* new one and evicts the oldest; it never touches the ones in between.
OlderEntriesFrozen ==
  [][log' # <<>> => \/ Len(log') = Len(log) /\ Older(log') = Older(log)
                    \/ \E k \in 1..(Len(log) + 1) :
                         Older(log') = SubSeq(log, k, Len(log))]_vars

=============================================================================
