------------------------------ MODULE Statement ------------------------------
(***************************************************************************)
(* FirebirdStatement: the statements that one lease of a connection makes, *)
(* one after the other.  A constructor allocates a handle on the server,   *)
(* prepares, binds and executes; Fetch moves the cursor; ReadBlob collects *)
(* the segments of the BLOB of the row; the destructor drops the handle.   *)
(* Each of these calls of the client library may fail, and Check turns the *)
(* failure into an exception.                                              *)
(*                                                                         *)
(* A BLOB is its bytes and the places where its segments end: two ends at  *)
(* the same place have an empty segment between them.                      *)
(***************************************************************************)
EXTENDS Integers, Sequences

CONSTANTS
  Results,        \* what a query may select: sequences of rows, one BLOB each
  Buffer,         \* sizeof(segment)
  Width,          \* row_width_bytes_
  MaxStatements, MaxFaults     \* bounds on the lease and on the failures

Ascending(ends) == \A j, k \in 1..Len(ends) : j <= k => ends[j] <= ends[k]
EndsAt(ends, n) == IF ends = << >> THEN n = 0 ELSE ends[Len(ends)] = n
Blob ==
  {b \in [bytes : Seq(0..255), ends : Seq(Nat)] :
     Ascending(b.ends) /\ EndsAt(b.ends, Len(b.bytes))}
NoBlob == [bytes |-> << >>, ends |-> << >>]

ASSUME StatementAssumption ==
  /\ Results \subseteq Seq(Blob)
  /\ Buffer \in Nat \ {0} /\ Width \in Nat
  /\ MaxStatements \in Nat /\ MaxFaults \in Nat

VARIABLES
  pc,             \* where the constructor or the owner of the statement is
  kind,           \* which constructor runs
  rows,           \* what the cursor has still to return
  row,            \* the BLOB of the row in the buffers
  bytes_read,
  reading,        \* ReadBlob of this row: "no", "yes", "returned"; "none" without a row
  handle,         \* the BLOB handle in the client is not null
  rest, sent,     \* of the library: the ends of the segments to come, the bytes read
  segment, out,   \* of ReadBlob; segment is cut at seg_len
  statements_open, blobs_open,        \* handles on the server
  lost,           \* history: handles nobody can close any more
  taken, expected,    \* history: the bytes handed out, and those transferred
  statements, faults

cursor == <<rows, row>>
blob   == <<reading, handle, rest, sent, segment, out>>
server == <<statements_open, blobs_open, lost>>
bytes  == <<bytes_read, taken, expected>>
vars   == <<pc, kind, cursor, blob, server, bytes, statements, faults>>

PCs == {"none", "prepare", "bind", "execute", "described", "open", "thrown"}
Kinds == {"plain", "params", "describe"}

Init ==
  /\ pc = "none" /\ kind = "plain"
  /\ rows = << >> /\ row = NoBlob
  /\ reading = "none" /\ handle = FALSE
  /\ rest = << >> /\ sent = 0 /\ segment = << >> /\ out = << >>
  /\ statements_open = 0 /\ blobs_open = 0 /\ lost = 0
  /\ bytes_read = 0 /\ taken = 0 /\ expected = 0
  /\ statements = 0 /\ faults = 0

Fault == faults < MaxFaults /\ faults' = faults + 1
NoFault == UNCHANGED faults

-----------------------------------------------------------------------------
(* The constructors.                                                       *)
AllocateStatement(k) ==
  /\ pc = "none" /\ statements < MaxStatements
  /\ statements' = statements + 1 /\ kind' = k
  /\ bytes_read' = 0 /\ taken' = 0 /\ expected' = 0
  /\ \/ /\ NoFault /\ pc' = "prepare"
        /\ statements_open' = statements_open + 1
     \/ Fault /\ UNCHANGED <<pc, statements_open>>
  /\ UNCHANGED <<cursor, blob, blobs_open, lost>>

\* The object was never constructed, so its destructor does not run and the
\* handle stays on the server.
ConstructorThrows ==
  /\ pc' = "none" /\ lost' = lost + 1
  /\ UNCHANGED <<kind, cursor, blob, statements_open, blobs_open, bytes, statements>>

\* Prepare, the second describe and AllocateBuffers.
Prepare ==
  /\ pc = "prepare"
  /\ pc' = CASE kind = "params" -> "bind"
             [] kind = "plain" -> "execute"
             [] kind = "describe" -> "described"
  /\ UNCHANGED <<kind, cursor, blob, server, bytes, statements, faults>>

PrepareFails == pc = "prepare" /\ Fault /\ ConstructorThrows

\* Without parameters the constructor executes as the plain one does.
BindInputParameters ==
  /\ pc = "bind"
  /\ pc' = "execute"
  /\ UNCHANGED <<kind, cursor, blob, server, bytes, statements, faults>>

\* The server describes another number of placeholders, or a type that has no
\* encoding, or the describe fails.
BindInputParametersFails == pc = "bind" /\ Fault /\ ConstructorThrows

Execute ==
  /\ pc = "execute"
  /\ pc' = "open" /\ rows' \in Results
  /\ UNCHANGED <<kind, row, blob, server, bytes, statements, faults>>

ExecuteFails == pc = "execute" /\ Fault /\ ConstructorThrows

-----------------------------------------------------------------------------
(* The cursor.                                                             *)
NotReading == reading # "yes"

\* An exception of a method reaches the owner, who destroys the statement.
Thrown == pc' = "thrown"

FetchRow ==
  /\ pc = "open" /\ NotReading /\ rows # << >>
  /\ row' = Head(rows) /\ rows' = Tail(rows)
  /\ reading' = "no" /\ out' = << >>
  /\ bytes_read' = bytes_read + Width /\ expected' = expected + Width
  /\ UNCHANGED <<pc, kind, handle, rest, sent, segment, server, taken, statements, faults>>

\* Fault: the width is added before the end of the cursor is seen.
NoMoreRowsCounted ==
  /\ pc = "open" /\ NotReading /\ rows = << >>
  /\ bytes_read' = bytes_read + Width
  /\ pc' = "described"
  /\ UNCHANGED <<kind, cursor, blob, server, taken, expected, statements, faults>>

\* Fetch returns false and the owner asks no more.
NoMoreRows ==
  /\ pc = "open" /\ NotReading /\ rows = << >>
  /\ pc' = "described"
  /\ UNCHANGED <<kind, cursor, blob, server, bytes, statements, faults>>

FetchFails ==
  /\ pc = "open" /\ NotReading /\ Fault /\ Thrown
  /\ UNCHANGED <<kind, cursor, blob, server, bytes, statements>>

TakeBytesRead ==
  /\ pc \in {"open", "described"} /\ NotReading /\ bytes_read # 0
  /\ taken' = taken + bytes_read /\ bytes_read' = 0
  /\ UNCHANGED <<pc, kind, cursor, blob, server, expected, statements, faults>>

-----------------------------------------------------------------------------
(* ReadBlob.                                                               *)
OpenBlob ==
  /\ pc = "open" /\ reading = "no"
  /\ \/ /\ NoFault
        /\ reading' = "yes" /\ handle' = TRUE /\ blobs_open' = blobs_open + 1
        /\ rest' = row.ends /\ sent' = 0 /\ segment' = << >> /\ out' = << >>
        /\ UNCHANGED pc
     \/ Fault /\ Thrown /\ UNCHANGED <<blob, blobs_open>>
  /\ UNCHANGED <<kind, cursor, statements_open, lost, bytes, statements>>

InLoop == pc = "open" /\ reading = "yes"

Truncated == Head(rest) - sent > Buffer

\* The library fills the buffer; a segment that does not fit goes on with the
\* next call, which rc = isc_segment announces.
GetSegment ==
  /\ sent' = IF Truncated THEN sent + Buffer ELSE Head(rest)
  /\ rest' = IF Truncated THEN rest ELSE Tail(rest)
  /\ segment' = SubSeq(row.bytes, sent + 1, sent')

\* rc = 0 or isc_segment: both append and loop.
AppendSegment ==
  /\ InLoop /\ handle /\ rest # << >>
  /\ GetSegment
  /\ out' = out \o segment'
  /\ UNCHANGED <<pc, kind, cursor, reading, handle, server, bytes, statements, faults>>

\* isc_close_blob on a handle that is not null, which fails or not.
CloseHandle(failed) ==
  IF failed THEN lost' = lost + 1 /\ UNCHANGED <<statements_open, blobs_open>>
  ELSE blobs_open' = blobs_open - 1 /\ UNCHANGED <<statements_open, lost>>

Return ==
  /\ bytes_read' = bytes_read + Len(out)
  /\ expected' = expected + Len(row.bytes)
  /\ reading' = "returned" /\ handle' = FALSE
  /\ UNCHANGED <<pc, kind, cursor, rest, sent, segment, out, taken, statements>>

\* Fault: rc = 0 ends the loop, as it used to.
EndOfFirstSegment ==
  /\ InLoop /\ handle
  /\ rest = << >> \/ (out # << >> /\ Len(segment) < Buffer)
  /\ CloseHandle(FALSE) /\ NoFault /\ Return

\* Fault: the loop does not know isc_segstr_eof.
EndOfBlobIgnored ==
  /\ InLoop /\ handle /\ rest = << >>
  /\ UNCHANGED vars

\* rc = isc_segstr_eof: the only end of the loop.  The outcome of the close is
\* not looked at.
EndOfBlob ==
  /\ InLoop /\ handle /\ rest = << >>
  /\ \/ CloseHandle(FALSE) /\ NoFault
     \/ CloseHandle(TRUE) /\ Fault
  /\ Return

\* Any other rc: isc_close_blob overwrites status, so Check sees the outcome of
\* the close.  When that succeeds, what the buffer still holds is appended and
\* the loop goes on with a null handle.
SegmentErrorMasked ==
  /\ InLoop /\ handle /\ Fault
  /\ CloseHandle(FALSE)
  /\ handle' = FALSE /\ out' = out \o segment
  /\ UNCHANGED <<pc, kind, cursor, reading, rest, sent, segment, bytes, statements>>

\* The connection is gone: the close fails too and Check throws.
SegmentErrorThrown ==
  /\ InLoop /\ handle /\ faults + 1 < MaxFaults /\ faults' = faults + 2
  /\ CloseHandle(TRUE)
  /\ Thrown /\ reading' = "no" /\ handle' = FALSE
  /\ UNCHANGED <<kind, cursor, rest, sent, segment, out, bytes, statements>>

\* With a null handle the read and the close fail, and Check throws.
NullHandleThrown ==
  /\ InLoop /\ ~handle
  /\ Thrown /\ reading' = "no"
  /\ UNCHANGED <<kind, cursor, handle, rest, sent, segment, out, server, bytes, statements,
                 faults>>

-----------------------------------------------------------------------------
\* The members of the object are gone.
Forget ==
  /\ rows' = << >> /\ row' = NoBlob /\ reading' = "none"
  /\ rest' = << >> /\ sent' = 0 /\ segment' = << >> /\ out' = << >>

\* Fault: the destructor only frees the memory.
DestroyKeepsHandle ==
  /\ pc \in {"described", "open", "thrown"} /\ NotReading
  /\ pc' = "none" /\ Forget
  /\ UNCHANGED <<kind, server, handle, bytes, statements, faults>>

\* The destructor; a failing drop is not looked at.
Destroy ==
  /\ pc \in {"described", "open", "thrown"} /\ NotReading
  /\ pc' = "none" /\ Forget
  /\ \/ statements_open' = statements_open - 1 /\ NoFault /\ UNCHANGED lost
     \/ lost' = lost + 1 /\ Fault /\ UNCHANGED statements_open
  /\ UNCHANGED <<kind, handle, blobs_open, bytes, statements>>

ReadBlob ==
  \/ AppendSegment \/ EndOfBlob
  \/ SegmentErrorMasked \/ SegmentErrorThrown \/ NullHandleThrown

Next ==
  \/ \E k \in Kinds : AllocateStatement(k)
  \/ Prepare \/ PrepareFails \/ BindInputParameters \/ BindInputParametersFails
  \/ Execute \/ ExecuteFails
  \/ FetchRow \/ NoMoreRows \/ FetchFails \/ TakeBytesRead
  \/ OpenBlob \/ ReadBlob \/ Destroy

Spec == Init /\ [][Next]_vars

\* The loop of ReadBlob runs on.
FairSpec == Spec /\ WF_vars(ReadBlob)

-----------------------------------------------------------------------------
\* A BLOB that is returned is the whole BLOB of the row: nothing is lost between
\* segments or inside one that is longer than the buffer, and a read that failed
\* on the way is never returned.
BlobWhole == reading = "returned" => out = row.bytes

\* The estimate counts each transferred row and each returned BLOB once, however
\* it is drained.
BytesCounted == bytes_read + taken = expected

\* Every handle on the server belongs to the living statement or to its BLOB
\* loop; the rest are those of constructors that threw and of closes that failed.
HandlesAccounted ==
  statements_open + blobs_open =
    lost + (IF pc = "none" THEN 0 ELSE 1) + (IF handle THEN 1 ELSE 0)

\* The loop of ReadBlob ends, also when it goes on after an error.
ReadBlobEnds == InLoop ~> ~InLoop
=============================================================================
