--------------------------- MODULE StatementProofs ---------------------------
(***************************************************************************)
(* What the statements of one lease promise, for any results and whatever  *)
(* calls fail: each constructor, cursor and BLOB loop gives back the handle *)
(* it took or leaves it in lost; a BLOB that is returned is whole; each row *)
(* and BLOB is counted once.                                                *)
(***************************************************************************)
EXTENDS Statement, TLAPS

\* The handles that somebody will still drop.
Living  == IF pc = "none" THEN 0 ELSE 1
Looping == IF handle THEN 1 ELSE 0

\* A BLOB handle in the client belongs to a loop that runs.
HandleInv ==
  /\ statements_open \in Int /\ blobs_open \in Int /\ lost \in Int
  /\ handle => InLoop
  /\ statements_open + blobs_open = lost + Living + Looping

LEMMA InitInv == Init => HandleInv
<1> SUFFICES ASSUME Init PROVE HandleInv
  OBVIOUS
<1>1. Looping = 0 /\ ~handle
  BY DEF Init, Looping
<1>2. Living = 0
  BY DEF Init, Living
<1>3. statements_open = 0 /\ blobs_open = 0 /\ lost = 0
  BY DEF Init
<1> QED BY <1>1, <1>2, <1>3 DEF HandleInv

\* The values the two counts may have.
LEMMA Counts ==
  /\ Living = 0 <=> pc = "none"
  /\ Living = 1 <=> pc # "none"
  /\ Looping = 0 <=> ~handle
  /\ Looping = 1 <=> handle
<1>1. (Living = 0 <=> pc = "none") /\ (Living = 1 <=> pc # "none")
  BY DEF Living
<1>2. (Looping = 0 <=> ~handle) /\ (Looping = 1 <=> handle)
  <2>1. CASE handle
    BY <2>1 DEF Looping
  <2>2. CASE ~handle
    BY <2>2 DEF Looping
  <2> QED BY <2>1, <2>2
<1> QED BY <1>1, <1>2

LEMMA CountsAfter ==
  /\ Living' = 0 <=> pc' = "none"
  /\ Living' = 1 <=> pc' # "none"
  /\ Looping' = 0 <=> ~handle'
  /\ Looping' = 1 <=> handle'
<1>1. (Living' = 0 <=> pc' = "none") /\ (Living' = 1 <=> pc' # "none")
  BY DEF Living
<1>2. (Looping' = 0 <=> ~handle') /\ (Looping' = 1 <=> handle')
  <2>1. CASE handle'
    BY <2>1 DEF Looping
  <2>2. CASE ~handle'
    BY <2>2 DEF Looping
  <2> QED BY <2>1, <2>2
<1> QED BY <1>1, <1>2

\* A step that takes and gives back nothing.
LEMMA NoHandle ==
  ASSUME HandleInv, UNCHANGED server, (pc' = "none") <=> (pc = "none"),
         \/ ~handle /\ ~handle'
         \/ handle /\ handle' /\ UNCHANGED <<reading, pc>>
  PROVE  HandleInv'
<1>1. Living' = Living
  BY DEF Living
<1>2. Looping' = Looping
  BY DEF Looping
<1>3. handle' => InLoop'
  BY DEF HandleInv, InLoop
<1> QED BY <1>1, <1>2, <1>3 DEF HandleInv, server

\* The statement comes or goes, with its handle or leaving it in lost.
LEMMA StatementHandle ==
  ASSUME HandleInv, ~handle, ~handle', blobs_open' = blobs_open,
         statements_open' \in Int, lost' \in Int,
         statements_open' - statements_open + Living = lost' - lost + Living'
  PROVE  HandleInv'
<1>1. Looping = 0 /\ Looping' = 0
  BY Counts, CountsAfter
<1>2. Living \in Int /\ Living' \in Int
  BY DEF Living
<1> QED BY <1>1, <1>2 DEF HandleInv

\* The BLOB handle is closed, or its close fails and it is lost.
LEMMA BlobHandle ==
  ASSUME HandleInv, NEW failed \in BOOLEAN, CloseHandle(failed), InLoop, handle, ~handle',
         pc' # "none"
  PROVE  HandleInv'
<1>1. Looping = 1 /\ Looping' = 0 /\ Living = 1 /\ Living' = 1
  BY Counts, CountsAfter DEF InLoop
<1>2. /\ statements_open' = statements_open
      /\ \/ blobs_open' = blobs_open - 1 /\ lost' = lost
         \/ blobs_open' = blobs_open /\ lost' = lost + 1
  BY DEF CloseHandle
<1> QED BY <1>1, <1>2 DEF HandleInv

\* There are three constructors.
KindInv == kind \in Kinds

LEMMA NextKind == KindInv /\ [Next]_vars => KindInv'
BY DEF KindInv, Next, vars, AllocateStatement, Prepare, PrepareFails, BindInputParameters,
       BindInputParametersFails, Execute, ExecuteFails, ConstructorThrows, FetchRow, NoMoreRows,
       FetchFails, TakeBytesRead, OpenBlob, ReadBlob, AppendSegment, EndOfBlob, Return,
       SegmentErrorMasked, SegmentErrorThrown, NullHandleThrown, Destroy

LEMMA NextInv == HandleInv /\ KindInv /\ [Next]_vars => HandleInv'
<1> SUFFICES ASSUME HandleInv, KindInv, [Next]_vars PROVE HandleInv'
  OBVIOUS
<1>0. statements_open \in Int /\ lost \in Int /\ (handle => pc = "open" /\ reading = "yes")
  BY DEF HandleInv, InLoop
<1>1. ASSUME NEW k \in Kinds, AllocateStatement(k) PROVE HandleInv'
  <2>1. /\ pc = "none" /\ ~handle /\ ~handle' /\ UNCHANGED <<blobs_open, lost>>
        /\ \/ pc' = "prepare" /\ statements_open' = statements_open + 1
           \/ UNCHANGED <<pc, statements_open>>
    BY <1>0, <1>1 DEF AllocateStatement, blob
  <2> QED BY <1>0, <2>1, Counts, CountsAfter, StatementHandle
<1>2. CASE PrepareFails \/ BindInputParametersFails \/ ExecuteFails
  <2>1. /\ pc \in {"prepare", "bind", "execute"} /\ pc' = "none" /\ ~handle /\ ~handle'
        /\ UNCHANGED <<statements_open, blobs_open>> /\ lost' = lost + 1
    BY <1>0, <1>2 DEF PrepareFails, BindInputParametersFails, ExecuteFails, ConstructorThrows, blob
  <2>2. Living = 1 /\ Living' = 0
    BY <2>1, Counts, CountsAfter
  <2> QED BY <1>0, <2>1, <2>2, StatementHandle
<1>3. CASE Prepare \/ BindInputParameters \/ Execute
  <2>1. /\ pc \in {"prepare", "bind", "execute"} /\ ~handle /\ ~handle' /\ UNCHANGED server
    BY <1>0, <1>3 DEF Prepare, BindInputParameters, Execute, blob
  <2>2. pc' # "none"
    <3>1. CASE Prepare
      BY <3>1 DEF Prepare, KindInv, Kinds
    <3>2. CASE BindInputParameters \/ Execute
      BY <3>2 DEF BindInputParameters, Execute
    <3> QED BY <1>3, <3>1, <3>2
  <2> QED BY <2>1, <2>2, NoHandle
<1>4. CASE FetchRow \/ NoMoreRows \/ FetchFails \/ TakeBytesRead
  <2>1. /\ ~handle /\ ~handle' /\ UNCHANGED server /\ pc # "none" /\ pc' # "none"
    BY <1>0, <1>4
       DEF FetchRow, NoMoreRows, FetchFails, TakeBytesRead, NotReading, Thrown, blob
  <2> QED BY <2>1, NoHandle
<1>5. CASE OpenBlob
  <2>1. /\ pc = "open" /\ ~handle /\ UNCHANGED <<statements_open, lost>>
        /\ \/ InLoop' /\ handle' = TRUE /\ blobs_open' = blobs_open + 1
           \/ pc' = "thrown" /\ ~handle' /\ blobs_open' = blobs_open
    BY <1>0, <1>5 DEF OpenBlob, Thrown, InLoop, blob
  <2>2. Living = 1 /\ Living' = 1 /\ Looping = 0
    BY <2>1, Counts, CountsAfter DEF InLoop
  <2>3. CASE handle' = TRUE
    <3>1. Looping' = 1
      BY <2>3, CountsAfter
    <3> QED BY <2>1, <2>2, <2>3, <3>1 DEF HandleInv
  <2>4. CASE ~handle'
    <3>1. Looping' = 0
      BY <2>4, CountsAfter
    <3>2. blobs_open' = blobs_open
      BY <2>1, <2>4
    <3> QED BY <2>1, <2>2, <2>4, <3>1, <3>2 DEF HandleInv
  <2> QED BY <2>1, <2>3, <2>4
<1>6. CASE AppendSegment
  <2>1. handle /\ handle' /\ UNCHANGED <<reading, pc, server>>
    BY <1>6 DEF AppendSegment
  <2> QED BY <2>1, NoHandle DEF server
<1>7. CASE NullHandleThrown
  <2>1. /\ ~handle /\ ~handle' /\ UNCHANGED server /\ pc = "open" /\ pc' = "thrown"
    BY <1>7 DEF NullHandleThrown, InLoop, Thrown
  <2> QED BY <2>1, NoHandle
<1>8. CASE EndOfBlob \/ SegmentErrorMasked \/ SegmentErrorThrown
  <2>1. /\ InLoop /\ handle /\ ~handle' /\ pc' # "none"
        /\ CloseHandle(FALSE) \/ CloseHandle(TRUE)
    BY <1>8 DEF EndOfBlob, SegmentErrorMasked, SegmentErrorThrown, Return, Thrown, InLoop
  <2> QED BY <2>1, BlobHandle
<1>9. CASE Destroy
  <2>1. /\ pc # "none" /\ pc' = "none" /\ ~handle /\ ~handle' /\ UNCHANGED blobs_open
        /\ \/ statements_open' = statements_open - 1 /\ UNCHANGED lost
           \/ lost' = lost + 1 /\ UNCHANGED statements_open
    BY <1>0, <1>9 DEF Destroy, NotReading
  <2>2. Living = 1 /\ Living' = 0
    BY <2>1, Counts, CountsAfter
  <2> QED BY <1>0, <2>1, <2>2, StatementHandle
<1>10. CASE UNCHANGED vars
  BY <1>10, NoHandle DEF vars, blob
<1> QED
  BY <1>1, <1>2, <1>3, <1>4, <1>5, <1>6, <1>7, <1>8, <1>9, <1>10 DEF Next, ReadBlob

\* Every handle on the server is the statement's, its BLOB loop's, or among
\* those of constructors that threw and of closes that failed, for any results,
\* any number of statements and any failing calls (~FirebirdStatement, ReadBlob).
THEOREM HandlesAreAccounted == Spec => []HandlesAccounted
<1>1. HandleInv => HandlesAccounted
  BY DEF HandleInv, HandlesAccounted, Living, Looping
<1>2. Init => KindInv
  BY DEF Init, KindInv, Kinds
<1> QED BY <1>1, <1>2, InitInv, NextInv, NextKind, PTL DEF Spec

-----------------------------------------------------------------------------
(* What ReadBlob has collected.                                            *)

LEMMA SubSeqGrows ==
  ASSUME NEW S, NEW b \in Seq(S), NEW m \in 0..Len(b), NEW n \in m..Len(b)
  PROVE  /\ SubSeq(b, 1, m) \o SubSeq(b, m + 1, n) = SubSeq(b, 1, n)
         /\ SubSeq(b, 1, m) \in Seq(S)
OBVIOUS

LEMMA SubSeqWhole ==
  ASSUME NEW S, NEW b \in Seq(S)
  PROVE  SubSeq(b, 1, Len(b)) = b /\ SubSeq(b, 1, 0) = << >>
OBVIOUS

\* The ends of the segments to come: the next one is not behind what was sent,
\* and the last one is the end of the BLOB.
RestInv ==
  /\ rest \in Seq(Nat) /\ sent \in 0..Len(row.bytes)
  /\ \A k \in 1..Len(rest) : sent <= rest[k] /\ rest[k] <= Len(row.bytes)
  /\ Ascending(rest)
  /\ IF rest = << >> THEN sent = Len(row.bytes)
     ELSE rest[Len(rest)] = Len(row.bytes)
  /\ out = SubSeq(row.bytes, 1, sent)

BlobInv ==
  /\ row \in Blob /\ rows \in Seq(Blob)
  /\ handle => reading = "yes" /\ RestInv
  /\ reading = "returned" => out = row.bytes

BytesInv ==
  /\ bytes_read \in Nat /\ taken \in Nat /\ expected \in Nat
  /\ BytesCounted

LEMMA NoBlobIsBlob == NoBlob \in Blob
<1>1. << >> \in Seq(0..255) /\ << >> \in Seq(Nat) /\ Len(<< >>) = 0
  OBVIOUS
<1>2. Ascending(<< >>) /\ EndsAt(<< >>, 0)
  BY <1>1 DEF Ascending, EndsAt
<1> QED BY <1>1, <1>2 DEF NoBlob, Blob

\* Every end lies inside the BLOB, and the last one is its end.
LEMMA OpenedRest ==
  ASSUME NEW b \in Blob
  PROVE  /\ b.bytes \in Seq(0..255) /\ b.ends \in Seq(Nat) /\ Ascending(b.ends)
         /\ Len(b.bytes) \in Nat
         /\ \A k \in 1..Len(b.ends) : 0 <= b.ends[k] /\ b.ends[k] <= Len(b.bytes)
         /\ b.ends = << >> => Len(b.bytes) = 0
         /\ b.ends # << >> => b.ends[Len(b.ends)] = Len(b.bytes)
<1>1. /\ b.bytes \in Seq(0..255) /\ b.ends \in Seq(Nat) /\ Ascending(b.ends)
      /\ EndsAt(b.ends, Len(b.bytes)) /\ Len(b.ends) \in Nat /\ Len(b.bytes) \in Nat
  BY DEF Blob
<1>2. ASSUME NEW k \in 1..Len(b.ends)
      PROVE  0 <= b.ends[k] /\ b.ends[k] <= Len(b.bytes)
  <2>1. b.ends # << >> /\ Len(b.ends) \in 1..Len(b.ends) /\ k <= Len(b.ends)
    BY <1>1
  <2>2. b.ends[Len(b.ends)] = Len(b.bytes)
    BY <1>1, <2>1 DEF EndsAt
  <2>3. b.ends[k] <= b.ends[Len(b.ends)]
    BY <1>1, <2>1 DEF Ascending
  <2> QED BY <1>1, <2>2, <2>3
<1> QED BY <1>1, <1>2 DEF EndsAt

LEMMA InitBlobInv == Init => BlobInv /\ BytesInv
<1> SUFFICES ASSUME Init PROVE BlobInv /\ BytesInv
  OBVIOUS
<1>1. row \in Blob /\ rows \in Seq(Blob)
  BY NoBlobIsBlob DEF Init
<1>2. ~handle /\ reading # "returned"
  BY DEF Init
<1>3. BytesInv
  BY DEF Init, BytesInv, BytesCounted
<1> QED BY <1>1, <1>2, <1>3 DEF BlobInv

\* A call that fills the buffer takes the bytes up to the next end or as many as
\* fit.
LEMMA SegmentTaken ==
  ASSUME row \in Blob, RestInv, rest # << >>, GetSegment, row' = row,
         out' = out \o segment'
  PROVE  RestInv'
<1> DEFINE L == Len(row.bytes)
<1>1. row.bytes \in Seq(0..255) /\ L \in Nat
  BY OpenedRest
<1>2. /\ rest \in Seq(Nat) /\ sent \in 0..L /\ 1 \in 1..Len(rest) /\ Len(rest) \in 1..Len(rest)
      /\ Head(rest) = rest[1] /\ Tail(rest) \in Seq(Nat) /\ Len(Tail(rest)) = Len(rest) - 1
      /\ \A k \in 1..Len(Tail(rest)) : Tail(rest)[k] = rest[k + 1]
  BY <1>1 DEF RestInv
<1>3. \A k \in 1..Len(rest) : rest[k] \in Nat /\ sent <= rest[k] /\ rest[k] <= L
  BY <1>2 DEF RestInv
<1>4. Buffer \in Nat /\ Buffer > 0
  BY StatementAssumption
<1>5. sent' \in sent..L /\ sent' <= Head(rest)
  BY <1>1, <1>2, <1>3, <1>4 DEF GetSegment, Truncated
<1>6. out' = SubSeq(row.bytes, 1, sent')
  <2>1. out = SubSeq(row.bytes, 1, sent) /\ segment' = SubSeq(row.bytes, sent + 1, sent')
    BY DEF RestInv, GetSegment
  <2>2. sent \in 0..L /\ sent' \in sent..L
    BY <1>2, <1>5
  <2> HIDE DEF L
  <2>3. row.bytes \in Seq(0..255) /\ L = Len(row.bytes)
    BY <1>1 DEF L
  <2>4. SubSeq(row.bytes, 1, sent) \o SubSeq(row.bytes, sent + 1, sent')
          = SubSeq(row.bytes, 1, sent')
    BY ONLY <2>2, <2>3, SubSeqGrows
  <2> QED BY <2>1, <2>4
<1>7. /\ rest' \in Seq(Nat) /\ Ascending(rest')
      /\ \A k \in 1..Len(rest') : sent' <= rest'[k] /\ rest'[k] <= L
      /\ IF rest' = << >> THEN sent' = L ELSE rest'[Len(rest')] = L
  <2>1. \A j, k \in 1..Len(rest) : j <= k => rest[j] <= rest[k]
    BY DEF RestInv, Ascending
  <2>2. rest[Len(rest)] = L
    BY DEF RestInv
  <2>3. CASE Truncated
    <3>1. rest' = rest
      BY <2>3 DEF GetSegment
    <3>2. \A k \in 1..Len(rest) : sent' <= rest[k]
      BY <1>2, <1>3, <1>5, <2>1
    <3>3. rest' # << >> /\ rest'[Len(rest')] = L
      BY <2>2, <3>1
    <3>4. Ascending(rest')
      BY <2>1, <3>1 DEF Ascending
    <3>5. \A k \in 1..Len(rest') : sent' <= rest'[k] /\ rest'[k] <= L
      BY <1>3, <3>1, <3>2
    <3> QED BY <1>2, <3>1, <3>3, <3>4, <3>5
  <2>4. CASE ~Truncated
    <3>1. rest' = Tail(rest) /\ sent' = rest[1]
      BY <1>2, <2>4 DEF GetSegment
    <3>2. \A k \in 1..Len(Tail(rest)) :
            k + 1 \in 1..Len(rest) /\ rest[1] <= rest[k + 1] /\ rest[k + 1] <= L
      BY <1>2, <1>3, <2>1
    <3>3. \A j, k \in 1..Len(Tail(rest)) : j <= k => Tail(rest)[j] <= Tail(rest)[k]
      BY <1>2, <2>1, <3>2
    <3>4. Tail(rest) = << >> => Len(rest) = 1
      <4>1. Len(Tail(rest)) = Len(rest) - 1 /\ Len(rest) \in Nat
        BY <1>2
      <4>2. \A t : t = << >> => Len(t) = 0
        OBVIOUS
      <4>3. Tail(rest) = << >> => Len(Tail(rest)) = 0
        BY ONLY <4>2
      <4> QED BY ONLY <4>1, <4>3
    <3> QED BY <1>2, <2>2, <3>1, <3>2, <3>3, <3>4 DEF Ascending
  <2> QED BY <2>3, <2>4
<1>8. sent' \in 0..L
  BY <1>1, <1>2, <1>5
<1>9. L = Len(row'.bytes)
  OBVIOUS
<1> HIDE DEF L
<1>10. out' = SubSeq(row'.bytes, 1, sent')
  BY <1>6
<1> QED BY ONLY <1>7, <1>8, <1>9, <1>10 DEF RestInv

\* The loop starts with nothing sent and all ends to come.
LEMMA LoopStarts ==
  ASSUME row \in Blob, row' = row, rest' = row.ends, sent' = 0, out' = << >>
  PROVE  RestInv'
<1>1. /\ row.bytes \in Seq(0..255) /\ row.ends \in Seq(Nat) /\ Ascending(row.ends)
      /\ Len(row.bytes) \in Nat
      /\ \A k \in 1..Len(row.ends) : 0 <= row.ends[k] /\ row.ends[k] <= Len(row.bytes)
      /\ row.ends = << >> => Len(row.bytes) = 0
      /\ row.ends # << >> => row.ends[Len(row.ends)] = Len(row.bytes)
  BY OpenedRest
<1>2. SubSeq(row.bytes, 1, 0) = << >>
  BY <1>1, SubSeqWhole
<1> QED BY <1>1, <1>2 DEF RestInv

\* When no segment is left the loop has collected the whole BLOB.
LEMMA LoopEnds ==
  ASSUME row \in Blob, RestInv, rest = << >>
  PROVE  out = row.bytes
BY OpenedRest, SubSeqWhole DEF RestInv

LEMMA NextBlobInv == HandleInv /\ BlobInv /\ [Next]_vars => BlobInv'
<1> SUFFICES ASSUME HandleInv, BlobInv, [Next]_vars PROVE BlobInv'
  OBVIOUS
<1>0. /\ row \in Blob /\ rows \in Seq(Blob) /\ (handle => reading = "yes")
      /\ (handle => RestInv) /\ (reading = "returned" => out = row.bytes)
      /\ handle => pc = "open"
  BY DEF BlobInv, HandleInv, InLoop
\* The steps between two statements and the cursor's other than a row.
<1>1. ASSUME UNCHANGED <<cursor, blob>> PROVE BlobInv'
  <2>1. RestInv' <=> RestInv
    BY <1>1 DEF cursor, blob, RestInv
  <2> QED BY <1>0, <1>1, <2>1 DEF BlobInv, cursor, blob
<1>2. CASE Execute
  <2>1. rows' \in Seq(Blob) /\ row' = row /\ UNCHANGED blob
    BY <1>2, StatementAssumption DEF Execute
  <2>2. RestInv' <=> RestInv
    BY <2>1 DEF blob, RestInv
  <2> QED BY <1>0, <2>1, <2>2 DEF BlobInv, blob
<1>3. CASE FetchRow
  <2>1. row' \in Blob /\ rows' \in Seq(Blob)
    BY <1>0, <1>3 DEF FetchRow
  <2>2. ~handle' /\ reading' = "no"
    BY <1>0, <1>3 DEF FetchRow, NotReading
  <2> QED BY <2>1, <2>2 DEF BlobInv
<1>4. CASE OpenBlob
  <2>1. CASE UNCHANGED blob
    <3>1. UNCHANGED cursor
      BY <1>4 DEF OpenBlob
    <3> QED BY <1>1, <2>1, <3>1
  <2>2. CASE ~UNCHANGED blob
    <3>1. /\ UNCHANGED <<row, rows>> /\ reading' = "yes"
          /\ rest' = row.ends /\ sent' = 0 /\ out' = << >>
      BY <1>4, <2>2 DEF OpenBlob, cursor
    <3>2. RestInv'
      BY <1>0, <3>1, LoopStarts
    <3> QED BY <1>0, <3>1, <3>2 DEF BlobInv
  <2> QED BY <2>1, <2>2
<1>5. CASE AppendSegment
  <2>1. /\ handle /\ rest # << >> /\ GetSegment /\ out' = out \o segment'
        /\ UNCHANGED <<row, rows, reading, handle>>
    BY <1>5 DEF AppendSegment, cursor
  <2>2. RestInv'
    BY <1>0, <2>1, SegmentTaken
  <2> QED BY <1>0, <2>1, <2>2 DEF BlobInv
<1>6. CASE EndOfBlob
  <2>1. /\ handle /\ rest = << >> /\ ~handle' /\ UNCHANGED <<row, rows, out>>
    BY <1>6 DEF EndOfBlob, Return, cursor
  <2>2. out = row.bytes
    BY <1>0, <2>1, LoopEnds
  <2> QED BY <1>0, <2>1, <2>2 DEF BlobInv
<1>7. CASE SegmentErrorMasked
  <2>1. UNCHANGED <<row, rows, reading>> /\ ~handle' /\ reading = "yes"
    BY <1>7 DEF SegmentErrorMasked, InLoop, cursor
  <2> QED BY <1>0, <2>1 DEF BlobInv
<1>8. CASE SegmentErrorThrown \/ NullHandleThrown
  <2>1. UNCHANGED <<row, rows>> /\ ~handle' /\ reading' = "no"
    <3>1. CASE SegmentErrorThrown
      BY <3>1 DEF SegmentErrorThrown, cursor
    <3>2. CASE NullHandleThrown
      BY <3>2, Zenon DEF NullHandleThrown, cursor
    <3> QED BY <1>8, <3>1, <3>2
  <2> QED BY <1>0, <2>1 DEF BlobInv
<1>9. CASE Destroy
  <2>1. rows' = << >> /\ row' = NoBlob /\ reading' = "none" /\ ~handle'
    BY <1>0, <1>9 DEF Destroy, Forget, NotReading
  <2> QED BY <2>1, NoBlobIsBlob DEF BlobInv
<1>10. ASSUME NEW k \in Kinds, AllocateStatement(k) PROVE BlobInv'
  BY <1>1, <1>10 DEF AllocateStatement
<1>11. CASE Prepare \/ PrepareFails \/ BindInputParameters \/ BindInputParametersFails
            \/ ExecuteFails
  BY <1>1, <1>11
     DEF Prepare, PrepareFails, BindInputParameters, BindInputParametersFails, ExecuteFails,
         ConstructorThrows
<1>12. CASE NoMoreRows \/ FetchFails \/ TakeBytesRead
  BY <1>1, <1>12 DEF NoMoreRows, FetchFails, TakeBytesRead
<1>13. CASE UNCHANGED vars
  BY <1>1, <1>13 DEF vars
<1> QED
  BY <1>2, <1>3, <1>4, <1>5, <1>6, <1>7, <1>8, <1>9, <1>10, <1>11, <1>12, <1>13
     DEF Next, ReadBlob

\* A BLOB that ReadBlob returns is the BLOB of the row, for any cut into segments,
\* empty ones and ones longer than the buffer among them, and any failing reads
\* and closes (ReadBlob).
THEOREM BlobsAreWhole == Spec => []BlobWhole
<1>1. BlobInv => BlobWhole
  BY DEF BlobInv, BlobWhole
<1>2. Init => HandleInv /\ KindInv /\ BlobInv
  BY InitInv, InitBlobInv DEF Init, KindInv, Kinds
<1>3. HandleInv /\ KindInv /\ BlobInv /\ [Next]_vars => (HandleInv /\ KindInv /\ BlobInv)'
  BY NextInv, NextKind, NextBlobInv
<1> QED BY <1>1, <1>2, <1>3, PTL DEF Spec

-----------------------------------------------------------------------------
(* What the estimate has counted.                                          *)

LEMMA NextBytesInv == BlobInv /\ BytesInv /\ [Next]_vars => BytesInv'
<1> SUFFICES ASSUME BlobInv, BytesInv, [Next]_vars PROVE BytesInv'
  OBVIOUS
<1>0. /\ bytes_read \in Nat /\ taken \in Nat /\ expected \in Nat
      /\ bytes_read + taken = expected /\ Width \in Nat
  BY StatementAssumption DEF BytesInv, BytesCounted
<1>1. ASSUME UNCHANGED bytes PROVE BytesInv'
  BY <1>0, <1>1 DEF BytesInv, BytesCounted, bytes
<1>2. ASSUME NEW k \in Kinds, AllocateStatement(k) PROVE BytesInv'
  BY <1>2 DEF AllocateStatement, BytesInv, BytesCounted
<1>3. CASE FetchRow
  <2>1. bytes_read' = bytes_read + Width /\ expected' = expected + Width /\ taken' = taken
    BY <1>3 DEF FetchRow
  <2> QED BY <1>0, <2>1 DEF BytesInv, BytesCounted
<1>4. CASE TakeBytesRead
  <2>1. taken' = taken + bytes_read /\ bytes_read' = 0 /\ expected' = expected
    BY <1>4 DEF TakeBytesRead
  <2> QED BY <1>0, <2>1 DEF BytesInv, BytesCounted
<1>5. CASE EndOfBlob
  <2>1. /\ bytes_read' = bytes_read + Len(out) /\ expected' = expected + Len(row.bytes)
        /\ taken' = taken /\ handle /\ rest = << >>
    BY <1>5 DEF EndOfBlob, Return
  <2>2. out = row.bytes
    BY <2>1, LoopEnds DEF BlobInv
  <2>3. Len(row.bytes) \in Nat
    BY OpenedRest DEF BlobInv
  <2> QED BY <1>0, <2>1, <2>2, <2>3 DEF BytesInv, BytesCounted
<1>6. CASE Prepare \/ PrepareFails \/ BindInputParameters \/ BindInputParametersFails
           \/ Execute \/ ExecuteFails
  BY <1>1, <1>6
     DEF Prepare, PrepareFails, BindInputParameters, BindInputParametersFails, Execute,
         ExecuteFails, ConstructorThrows
<1>7. CASE NoMoreRows \/ FetchFails \/ OpenBlob \/ AppendSegment \/ Destroy
  BY <1>1, <1>7 DEF NoMoreRows, FetchFails, OpenBlob, AppendSegment, Destroy
<1>8. CASE SegmentErrorMasked \/ SegmentErrorThrown \/ NullHandleThrown
  BY <1>1, <1>8 DEF SegmentErrorMasked, SegmentErrorThrown, NullHandleThrown
<1>9. CASE UNCHANGED vars
  BY <1>1, <1>9 DEF vars
<1> QED
  BY <1>2, <1>3, <1>4, <1>5, <1>6, <1>7, <1>8, <1>9 DEF Next, ReadBlob

\* The estimate of the bytes counts every fetched row and every returned BLOB
\* exactly once, however often and whenever TakeBytesRead drains it (Fetch,
\* ReadBlob, TakeBytesRead).
THEOREM BytesAreCounted == Spec => []BytesCounted
<1>1. BytesInv => BytesCounted
  BY DEF BytesInv
<1>2. Init => HandleInv /\ KindInv /\ BlobInv /\ BytesInv
  BY InitInv, InitBlobInv DEF Init, KindInv, Kinds
<1>3. /\ HandleInv /\ KindInv /\ BlobInv /\ BytesInv /\ [Next]_vars
      => (HandleInv /\ KindInv /\ BlobInv /\ BytesInv)'
  BY NextInv, NextKind, NextBlobInv, NextBytesInv
<1> QED BY <1>1, <1>2, <1>3, PTL DEF Spec
=============================================================================
