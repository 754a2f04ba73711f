------------------------ MODULE QueryTelemetryProofs ------------------------
(***************************************************************************)
(* The last-query slot and the newest entry of the log are the same record *)
(* whatever the sequence of calls and settings, and older entries never    *)
(* change; a table function that reads them shows one moment.              *)
(***************************************************************************)
EXTENDS TelemetryReaders, SequenceTheorems, TLAPS

Inv == TypeOK /\ NewestIsLast

LEMMA InitInv == Init => Inv
  BY TelemetryAssumption DEF Init, Inv, TypeOK, NewestIsLast, NoQuery, Fresh, Telemetry

\* The last entries of a longer sequence, one by one.
LEMMA SuffixEntries ==
  ASSUME NEW S, NEW seq \in Seq(S), NEW size \in Int, size > 0, Len(seq) > size,
         NEW d, d = Len(seq) - size, NEW k, k = SubSeq(seq, d + 1, Len(seq))
  PROVE  /\ k \in Seq(S)
         /\ Len(k) = size
         /\ \A i \in 1..size : k[i] = seq[i + d]
  OBVIOUS

\* Trimming keeps the newest entries: some entry is kept, and the last one is
\* the last of the sequence.
LEMMA KeepIsSuffix ==
  ASSUME NEW S, NEW seq \in Seq(S), NEW size \in Int, size > 0, seq # <<>>,
         NEW k, k = Keep(seq, size)
  PROVE  /\ k \in Seq(S)
         /\ Len(k) \in 1..size
         /\ k[Len(k)] = seq[Len(seq)]
<1>1. CASE Len(seq) > size
  <2> DEFINE d == Len(seq) - size
  <2>1. k = SubSeq(seq, d + 1, Len(seq))
    BY <1>1 DEF Keep
  <2>2. /\ k \in Seq(S)
        /\ Len(k) = size
        /\ \A i \in 1..size : k[i] = seq[i + d]
    BY <1>1, <2>1, SuffixEntries
  <2>3. k[size] = seq[size + d]
    BY <2>2
  <2> QED BY <2>2, <2>3
<1>2. CASE Len(seq) <= size
  <2>1. k = seq
    BY <1>2 DEF Keep
  <2>2. Len(seq) \in 1..size
    BY <1>2
  <2> QED BY <2>1, <2>2
<1> QED BY <1>1, <1>2

\* After an entry is appended and the sequence trimmed, all but the last entry
\* are a suffix of what was there before.
LEMMA KeepFreezes ==
  ASSUME NEW S, NEW s \in Seq(S), NEW x \in S, NEW size \in Int, size > 0,
         NEW seq, seq = Append(s, x), NEW k, k = Keep(seq, size)
  PROVE  \E j \in 1..(Len(s) + 1) : Older(k) = SubSeq(s, j, Len(s))
<1>1. /\ seq \in Seq(S)
      /\ Len(seq) = Len(s) + 1
      /\ \A i \in 1..Len(s) : seq[i] = s[i]
  OBVIOUS
<1>2. CASE Len(seq) > size
  <2> DEFINE d == Len(seq) - size
  <2>1. d + 1 \in 1..(Len(s) + 1) /\ d \in Nat /\ size - 1 = Len(s) - d
    BY <1>1, <1>2
  <2>0. seq \in Seq(S) /\ d = Len(seq) - size
    BY <1>1
  <2>2. k = SubSeq(seq, d + 1, Len(seq))
    BY <1>1, <1>2 DEF Keep
  <2> HIDE DEF d
  <2>3. /\ k \in Seq(S) /\ Len(k) = size
        /\ \A i \in 1..size : k[i] = seq[i + d]
    BY ONLY <1>2, <2>0, <2>2, size \in Int, size > 0, SuffixEntries
  <2>4. /\ Older(k) \in Seq(S) /\ Len(Older(k)) = size - 1
        /\ \A i \in 1..(size - 1) : Older(k)[i] = k[i]
    BY <2>3 DEF Older
  <2>5. /\ SubSeq(s, d + 1, Len(s)) \in Seq(S)
        /\ Len(SubSeq(s, d + 1, Len(s))) = size - 1
        /\ \A i \in 1..(size - 1) : SubSeq(s, d + 1, Len(s))[i] = s[i + d]
    BY <2>1
  <2>6. ASSUME NEW i \in 1..(size - 1) PROVE k[i] = s[i + d]
    <3>1. i + d \in 1..Len(s) /\ i \in 1..size
      BY <2>1
    <3> QED BY <1>1, <2>3, <3>1
  <2>7. Older(k) = SubSeq(s, d + 1, Len(s))
    <3> DEFINE a == Older(k)
               b == SubSeq(s, d + 1, Len(s))
    <3>1. a \in Seq(S) /\ b \in Seq(S) /\ Len(a) = Len(b) /\ Len(a) = size - 1
      BY <2>4, <2>5
    <3>2. \A i \in 1..(size - 1) : a[i] = b[i]
      BY <2>4, <2>5, <2>6
    <3> HIDE DEF a, b
    <3>3. a = b
      BY ONLY <3>1, <3>2, SeqEqual
    <3> QED BY <3>3 DEF a, b
  <2> QED BY <2>1, <2>7
<1>3. CASE Len(seq) <= size
  <2>1. k = seq
    BY <1>1, <1>3 DEF Keep
  <2>2. Older(k) = s /\ SubSeq(s, 1, Len(s)) = s
    BY <1>1, <2>1 DEF Older
  <2> QED BY <2>2
<1> QED BY <1>2, <1>3

\* A capture: the new record becomes the slot and the newest entry.
LEMMA RecordKeepsInv ==
  ASSUME Inv, NEW c \in Captures, RecordQuery(c, log_size, now),
         UNCHANGED <<log_size, now>>
  PROVE  Inv'
<1>1. last' \in Telemetry
  BY DEF RecordQuery, Fresh, Telemetry
<1>2. /\ start' \in 0..now' /\ now' \in 0..MaxClock /\ log_size' \in LogSizes
      /\ log \in Seq(Telemetry) /\ log_size \in Int
  BY TelemetryAssumption DEF Inv, TypeOK, RecordQuery
<1>3. CASE log_size <= 0
  BY <1>1, <1>2, <1>3 DEF Inv, TypeOK, NewestIsLast, RecordQuery
<1>4. CASE log_size > 0
  <2> DEFINE seq == Append(log, last')
  <2>1. seq \in Seq(Telemetry) /\ seq # <<>> /\ seq[Len(seq)] = last'
    BY <1>1, <1>2
  <2>2. log' = Keep(seq, log_size)
    BY <1>2, <1>4 DEF RecordQuery
  <2>3. log' \in Seq(Telemetry) /\ log'[Len(log')] = last'
    <3> HIDE DEF seq
    <3>1. /\ log' \in Seq(Telemetry)
          /\ log'[Len(log')] = seq[Len(seq)]
      BY <1>2, <1>4, <2>1, <2>2, KeepIsSuffix
    <3> QED BY <2>1, <3>1
  <2> QED BY <1>1, <1>2, <2>3 DEF Inv, TypeOK, NewestIsLast
<1> QED BY <1>2, <1>3, <1>4

\* A metric or an error: the slot and the newest entry change alike.
LEMMA MirrorKeepsInv ==
  ASSUME Inv, NEW field, NEW value, Mirror(field, value),
         [last EXCEPT ![field] = value] \in Telemetry,
         UNCHANGED <<log_size, now>>
  PROVE  Inv'
<1>1. last' \in Telemetry /\ start' \in 0..now' /\ now' \in 0..MaxClock
      /\ log_size' \in LogSizes /\ log \in Seq(Telemetry)
  BY DEF Inv, TypeOK, Mirror
<1>2. CASE log = <<>>
  BY <1>1, <1>2 DEF Inv, TypeOK, NewestIsLast, Mirror
<1>3. CASE log # <<>>
  <2>1. log[Len(log)] = last /\ Len(log) \in 1..Len(log)
    BY <1>1, <1>3 DEF Inv, NewestIsLast
  <2>2. log' = [log EXCEPT ![Len(log)] = last']
    BY <1>3, <2>1 DEF Mirror
  <2>3. log' \in Seq(Telemetry) /\ Len(log') = Len(log) /\ log'[Len(log)] = last'
    BY <1>1, <2>1, <2>2
  <2> QED BY <1>1, <2>3 DEF Inv, TypeOK, NewestIsLast
<1> QED BY <1>2, <1>3

LEMMA NextInv == Inv /\ [Next]_vars => Inv'
<1> SUFFICES ASSUME Inv, [Next]_vars PROVE Inv'
  OBVIOUS
<1> USE TelemetryAssumption
<1>0. last \in Telemetry /\ now \in 0..MaxClock /\ start \in 0..now
  BY DEF Inv, TypeOK
<1>1. CASE SetLogSize
  BY <1>1 DEF SetLogSize, Inv, TypeOK, NewestIsLast, slots
<1>2. CASE Tick
  BY <1>2 DEF Tick, Inv, TypeOK, NewestIsLast, slots
<1>3. CASE Method /\ UNCHANGED <<log_size, now>>
  <2>1. CASE \E c \in Captures : RecordQuery(c, log_size, now)
    BY <1>3, <2>1, RecordKeepsInv
  <2>2. CASE AddRows(1)
    <3>1. [last EXCEPT !["rows_read"] = last.rows_read + 1] \in Telemetry
      BY <1>0 DEF Telemetry
    <3> QED BY <1>3, <2>2, <3>1, MirrorKeepsInv DEF AddRows
  <2>3. CASE AddBytes(1)
    <3>1. [last EXCEPT !["bytes_read_estimate"] = last.bytes_read_estimate + 1] \in Telemetry
      BY <1>0 DEF Telemetry
    <3> QED BY <1>3, <2>3, <3>1, MirrorKeepsInv DEF AddBytes
  <2>4. CASE AddFirebirdTimeUs(1)
    <3>1. [last EXCEPT !["firebird_time_us"] = last.firebird_time_us + 1] \in Telemetry
      BY <1>0 DEF Telemetry
    <3> QED BY <1>3, <2>4, <3>1, MirrorKeepsInv DEF AddFirebirdTimeUs
  <2>5. CASE UpdateTotalTimeUs(now)
    <3>1. [last EXCEPT !["total_time_us"] = now - start] \in Telemetry
      BY <1>0 DEF Telemetry
    <3> QED BY <1>3, <2>5, <3>1, MirrorKeepsInv DEF UpdateTotalTimeUs
  <2>6. CASE \E e \in Errors : SetError(e)
    <3>1. PICK e \in Errors : SetError(e)
      BY <2>6
    <3>2. [last EXCEPT !["error_message"] = e] \in Telemetry
      BY <1>0 DEF Telemetry
    <3> QED BY <1>3, <3>1, <3>2, MirrorKeepsInv DEF SetError
  <2> QED BY <1>3, <2>1, <2>2, <2>3, <2>4, <2>5, <2>6 DEF Method
<1>4. CASE UNCHANGED vars
  BY <1>4 DEF vars, slots, Inv, TypeOK, NewestIsLast
<1> QED BY <1>1, <1>2, <1>3, <1>4 DEF Next

\* The slot and the log are well-formed, and total_time_us is never negative
\* (FirebirdObservabilityState).
THEOREM TypeCorrect == Spec => []TypeOK
  BY InitInv, NextInv, PTL DEF Spec, Inv

\* firebird_query_log()'s newest row is always firebird_last_query()
\* (RecordQuery and the metric methods).
THEOREM NewestEntryIsLastQuery == Spec => []NewestIsLast
  BY InitInv, NextInv, PTL DEF Spec, Inv

FrozenStep ==
  log' # <<>> => \/ Len(log') = Len(log) /\ Older(log') = Older(log)
                 \/ \E k \in 1..(Len(log) + 1) : Older(log') = SubSeq(log, k, Len(log))

\* All but the newest entry of the log after a capture come, in order, from
\* the end of the log before it.
LEMMA RecordFreezes ==
  ASSUME Inv, NEW c \in Captures, RecordQuery(c, log_size, now)
  PROVE  FrozenStep
<1>1. CASE log_size <= 0
  BY <1>1 DEF RecordQuery, FrozenStep
<1>2. CASE log_size > 0
  <2>0. log \in Seq(Telemetry) /\ log_size \in Int /\ last' \in Telemetry
    BY TelemetryAssumption DEF Inv, TypeOK, RecordQuery, Fresh, Telemetry
  <2>1. log' = Keep(Append(log, last'), log_size)
    BY <1>2, <2>0 DEF RecordQuery
  <2>2. \E j \in 1..(Len(log) + 1) : Older(log') = SubSeq(log, j, Len(log))
    BY <1>2, <2>0, <2>1, KeepFreezes
  <2> QED BY <2>2 DEF FrozenStep
<1> QED BY <1>1, <1>2, TelemetryAssumption DEF Inv, TypeOK

\* A metric or an error changes no entry but the newest.
LEMMA MirrorFreezes ==
  ASSUME Inv, NEW field, NEW value, Mirror(field, value)
  PROVE  FrozenStep
<1>1. log \in Seq(Telemetry)
  BY DEF Inv, TypeOK
<1>2. CASE log = <<>>
  BY <1>2 DEF Mirror, FrozenStep
<1>3. CASE log # <<>>
  <2>1. /\ Len(log') = Len(log)
        /\ \A i \in 1..(Len(log) - 1) : log'[i] = log[i]
    BY <1>1, <1>3 DEF Mirror
  <2>2. Older(log') = Older(log)
    BY <1>1, <2>1 DEF Older
  <2> QED BY <2>1, <2>2 DEF FrozenStep
<1> QED BY <1>2, <1>3

\* Entries older than the newest are frozen, for every log size and every
\* change of it (RecordQuery and the metric methods).
THEOREM OlderEntriesAreFrozen == Spec => OlderEntriesFrozen
<1>1. ASSUME Inv, Next PROVE FrozenStep
  <2>1. CASE SetLogSize \/ Tick
    BY <1>1, <2>1 DEF SetLogSize, Tick, slots, FrozenStep
  <2>2. CASE Method
    <3>1. CASE \E c \in Captures : RecordQuery(c, log_size, now)
      BY <1>1, <3>1, RecordFreezes
    <3>2. CASE ~\E c \in Captures : RecordQuery(c, log_size, now)
      BY <1>1, <2>2, <3>2, MirrorFreezes
         DEF Method, AddRows, AddBytes, AddFirebirdTimeUs, UpdateTotalTimeUs, SetError
    <3> QED BY <3>1, <3>2
  <2> QED BY <1>1, <2>1, <2>2 DEF Next
<1>2. Inv /\ [Next]_vars => [FrozenStep]_vars
  BY <1>1
<1> QED BY <1>2, InitInv, NextInv, PTL DEF Spec, OlderEntriesFrozen, FrozenStep

-----------------------------------------------------------------------------
(* A reader of the telemetry shows one moment: it holds the copy it began   *)
(* with, and what it has shown is that copy up to its cursor.               *)

Readers == [function : {"none", "firebird_last_query", "firebird_query_log"},
            snapshot : Seq(Telemetry), cursor : Nat, ended : BOOLEAN]

\* The copy is the log of the moment the reader began, the rows shown are the
\* copy up to the cursor, and the reader ends only at its end.
CopyInv ==
  /\ reader \in Readers
  /\ log_then \in Seq(Telemetry)
  /\ reader.snapshot = Reverse(log_then)
  /\ reader.cursor <= Len(reader.snapshot)
  /\ shown = SubSeq(reader.snapshot, 1, reader.cursor)
  /\ reader.ended => reader.cursor = Len(reader.snapshot)

ReadersInv == Inv /\ CopyInv

\* A reversed sequence is a sequence of the same length.
LEMMA ReverseSeq ==
  ASSUME NEW S, NEW s \in Seq(S)
  PROVE  Reverse(s) \in Seq(S) /\ Len(Reverse(s)) = Len(s)
<1>1. \A i \in 1..Len(s) : s[(Len(s) - i) + 1] \in S
  OBVIOUS
<1> QED BY <1>1 DEF Reverse

\* The rows before a cursor and the next n of the rest are the rows before
\* the advanced cursor.
LEMMA PrefixGrows ==
  ASSUME NEW S, NEW s \in Seq(S), NEW c \in 0..Len(s), NEW n \in 0..(Len(s) - c),
         NEW rest, rest = SubSeq(s, c + 1, Len(s))
  PROVE  SubSeq(s, 1, c) \o SubSeq(rest, 1, n) = SubSeq(s, 1, c + n)
<1> DEFINE head == SubSeq(s, 1, c)
           next == SubSeq(rest, 1, n)
           both == SubSeq(s, 1, c + n)
<1>1. head \in Seq(S) /\ Len(head) = c /\ \A i \in 1..c : head[i] = s[i]
  OBVIOUS
<1>2. rest \in Seq(S) /\ Len(rest) = Len(s) - c /\ \A i \in 1..(Len(s) - c) : rest[i] = s[c + i]
  OBVIOUS
<1>3. next \in Seq(S) /\ Len(next) = n /\ \A i \in 1..n : next[i] = s[c + i]
  BY <1>2
<1>4. both \in Seq(S) /\ Len(both) = c + n /\ \A i \in 1..(c + n) : both[i] = s[i]
  OBVIOUS
<1> HIDE DEF head, next, both
<1>5. /\ head \o next \in Seq(S) /\ Len(head \o next) = c + n
      /\ \A i \in 1..(c + n) : (head \o next)[i] = IF i <= c THEN head[i] ELSE next[i - c]
  BY <1>1, <1>3
<1>6. ASSUME NEW i \in 1..(c + n) PROVE (head \o next)[i] = both[i]
  <2>1. CASE i <= c
    <3>1. i \in 1..c
      BY <2>1
    <3>2. (head \o next)[i] = head[i]
      BY <1>5, <2>1
    <3> QED BY <1>1, <1>4, <3>1, <3>2
  <2>2. CASE i > c
    <3>1. i - c \in 1..n /\ c + (i - c) = i
      BY <2>2
    <3>2. next[i - c] = s[i]
      BY <1>3, <3>1
    <3>3. (head \o next)[i] = next[i - c]
      BY <1>5, <2>2
    <3> QED BY <1>4, <3>2, <3>3
  <2>3. i \in Int /\ c \in Int
    OBVIOUS
  <2>4. i <= c \/ i > c
    BY ONLY <2>3
  <2> QED BY ONLY <2>1, <2>2, <2>4
<1>7. head \o next = both
  BY <1>4, <1>5, <1>6, SeqEqual
<1> QED BY <1>7 DEF head, next, both

LEMMA ReadersInitInv == ReadersInit => ReadersInv
  BY InitInv DEF ReadersInit, ReadersInv, CopyInv, Readers, NoReader, Reverse

\* A new reader has its copy, and has shown nothing.
LEMMA BeginIsCopy ==
  ASSUME ReadersInv, NEW function \in {"firebird_last_query", "firebird_query_log"},
         NEW snapshot \in Seq(Telemetry), NEW moment \in Seq(Telemetry),
         snapshot = Reverse(moment), Begin(function, snapshot, moment)
  PROVE  CopyInv'
<1>1. /\ reader' = [function |-> function, snapshot |-> snapshot, cursor |-> 0, ended |-> FALSE]
      /\ log_then' = moment /\ shown' = shown
  BY DEF Begin, readers
<1>2. shown = <<>>
  <2>1. reader = NoReader
    BY DEF Begin
  <2> QED BY <2>1 DEF ReadersInv, CopyInv, NoReader
<1>3. /\ reader' \in Readers /\ reader'.snapshot = snapshot
      /\ reader'.cursor = 0 /\ reader'.ended = FALSE
  BY <1>1 DEF Readers
<1>4. SubSeq(snapshot, 1, 0) = <<>> /\ Len(snapshot) \in Nat
  OBVIOUS
<1> QED BY <1>1, <1>2, <1>3, <1>4 DEF CopyInv

\* A reader copies the log as it is, newest first; the slot is one row or none.
LEMMA BeginKeepsInv ==
  ASSUME ReadersInv, LastQueryInitGlobal \/ QueryLogInitGlobal
  PROVE  CopyInv'
<1>1. last \in Telemetry /\ log \in Seq(Telemetry)
  BY DEF ReadersInv, Inv, TypeOK
<1>2. CASE LastQueryInitGlobal
  <2>1. GetLastQuery \in Seq(Telemetry) /\ Reverse(GetLastQuery) = GetLastQuery
    BY <1>1 DEF GetLastQuery, Reverse
  <2> QED BY <1>2, <2>1, BeginIsCopy DEF LastQueryInitGlobal
<1>3. CASE QueryLogInitGlobal
  <2>1. SnapshotLog \in Seq(Telemetry)
    BY <1>1, ReverseSeq DEF SnapshotLog
  <2> QED BY <1>1, <1>3, <2>1, BeginIsCopy DEF QueryLogInitGlobal, SnapshotLog
<1> QED BY <1>2, <1>3

\* A chunk advances the cursor and shows the rows it passes.
LEMMA EmitKeepsInv ==
  ASSUME ReadersInv, NEW n \in 0..Len(Rest), Emit(n), n = 0 => Len(Rest) = 0
  PROVE  CopyInv'
<1> DEFINE s == reader.snapshot
           c == reader.cursor
<1>1. s \in Seq(Telemetry) /\ c \in 0..Len(s) /\ shown = SubSeq(s, 1, c)
  BY DEF ReadersInv, CopyInv, Readers
<1>2. Rest = SubSeq(s, c + 1, Len(s)) /\ Len(Rest) = Len(s) - c
  BY <1>1 DEF Rest
<1>3. /\ reader' \in Readers /\ reader'.snapshot = s /\ reader'.cursor = c + n
      /\ reader'.ended <=> n = 0
  <2> DEFINE moved == [reader EXCEPT !.cursor = c + n]
  <2>1. moved \in Readers /\ moved.snapshot = s /\ moved.cursor = c + n
    <3>1. reader \in Readers
      BY DEF ReadersInv, CopyInv
    <3>2. c + n \in Nat
      BY <1>1, <1>2
    <3> QED BY <3>1, <3>2 DEF Readers
  <2>2. reader' = [moved EXCEPT !.ended = (n = 0)]
    BY DEF Emit
  <2> HIDE DEF moved
  <2> QED BY <2>1, <2>2 DEF Readers
<1>4. n \in 0..(Len(s) - c)
  BY <1>2
<1>5. shown' = SubSeq(s, 1, c + n)
  <2>1. shown' = SubSeq(s, 1, c) \o SubSeq(Rest, 1, n)
    BY <1>1 DEF Emit
  <2> HIDE DEF s, c
  <2>2. SubSeq(s, 1, c) \o SubSeq(Rest, 1, n) = SubSeq(s, 1, c + n)
    BY <1>1, <1>2, <1>4, PrefixGrows
  <2> QED BY <2>1, <2>2
<1>6. c + n <= Len(s) /\ (n = 0 => c + n = Len(s))
  <2>1. Len(s) \in Nat /\ c \in Nat /\ n \in Nat /\ n <= Len(s) - c
    BY <1>1, <1>4
  <2>2. n = 0 => Len(s) - c = 0
    BY <1>2
  <2> HIDE DEF s, c
  <2> QED BY <2>1, <2>2
<1> QED BY <1>3, <1>5, <1>6 DEF ReadersInv, CopyInv, Emit

LEMMA ReadersNextInv == ReadersInv /\ [ReadersNext]_<<vars, readers>> => ReadersInv'
<1> SUFFICES ASSUME ReadersInv, [ReadersNext]_<<vars, readers>> PROVE ReadersInv'
  OBVIOUS
<1> USE DEF ReadersInv
<1>1. CASE Recording
  BY <1>1, NextInv DEF Recording, readers, CopyInv
<1>2. CASE LastQueryInitGlobal \/ QueryLogInitGlobal
  <2>1. UNCHANGED vars
    BY <1>2 DEF LastQueryInitGlobal, QueryLogInitGlobal, Begin
  <2> QED BY <1>2, <2>1, NextInv, BeginKeepsInv
<1>3. ASSUME LastQueryFunction \/ QueryLogFunction PROVE ReadersInv'
  <2>1. Len(Rest) \in Nat
    <3>1. Rest \in Seq(Telemetry)
      BY DEF CopyInv, Readers, Rest
    <3> QED BY <3>1
  <2>2. PICK n \in 0..Len(Rest) : Emit(n) /\ (n = 0 => Len(Rest) = 0)
    BY <1>3, <2>1, VectorAssumption DEF LastQueryFunction, QueryLogFunction
  <2>3. UNCHANGED vars
    BY <2>2 DEF Emit
  <2> QED BY <2>2, <2>3, NextInv, EmitKeepsInv
<1>4. CASE UNCHANGED <<vars, readers>>
  BY <1>4, NextInv DEF readers, CopyInv
<1> QED BY <1>1, <1>2, <1>3, <1>4 DEF ReadersNext

\* What the invariant says of the rows shown.
LEMMA CopyShowsOneMoment == CopyInv => ReadsOneMoment
<1> SUFFICES ASSUME CopyInv PROVE ReadsOneMoment
  OBVIOUS
<1> DEFINE s == reader.snapshot
           c == reader.cursor
<1>1. s \in Seq(Telemetry) /\ c \in 0..Len(s) /\ shown = SubSeq(s, 1, c) /\ s = Reverse(log_then)
  BY DEF CopyInv, Readers
<1>2. Len(shown) = c /\ SubSeq(shown, 1, c) = shown
  BY <1>1
<1>3. IsPrefix(shown, s)
  BY <1>1, <1>2 DEF IsPrefix
<1>4. SubSeq(s, 1, Len(s)) = s
  BY <1>1
<1> QED BY <1>1, <1>3, <1>4 DEF CopyInv, ReadsOneMoment

\* However many chunks a reader takes, and whatever is recorded, evicted or
\* switched off in between, its rows are the log at one moment, for any size
\* of the log and of the vector (SnapshotLog, QueryLogFunction).
THEOREM ReadersSeeOneMoment == ReadersSpec => []ReadsOneMoment
  BY ReadersInitInv, ReadersNextInv, CopyShowsOneMoment, PTL DEF ReadersSpec, ReadersInv
=============================================================================
