----------------------- MODULE PartitionedScanProofs ------------------------
(***************************************************************************)
(* Partitions are exclusive, cursors live on their own connections, the    *)
(* unpushed-filter guard acts once and every row fetched is counted once,  *)
(* for any number of workers, rows and partitions; and the racing workers  *)
(* implement TableScan: no row is delivered twice, and a scan that ends    *)
(* without an error has delivered the rows it was asked for.               *)
(*                                                                         *)
(* Almost every step of the scan is Go(i, from, r): one worker moves to a  *)
(* record r computed from its own.  So the first part is about r: Good     *)
(* says what a worker's record is, GoKeeps that replacing one good record  *)
(* by another keeps the invariant.                                         *)
(*                                                                         *)
(* The second part, the refinement, is about what a worker holds and not   *)
(* about its timers and counters of bytes.  WorkerMoves reduces every step *)
(* to one of seven moves; each part of the invariant is kept by each move: *)
(*   CutInv    the partitions cut the range the statement was bound to     *)
(*   OnceInv   nobody holds what another holds or what was delivered, and  *)
(*             nothing of a partition that has no cursor yet is taken      *)
(*   DrainInv  what a worker that has stopped is sure of                   *)
(*   AllInv    without a slice: every row is taken or in such a partition  *)
(*   SliceInv  with one: how many rows are taken                           *)
(*                                                                         *)
(* The last sections prove that the query log adds up: WorkerLogs reduces  *)
(* every step to one of six changes of the log, and LogInv says which      *)
(* entries are the running query's, what they sum to and whom they blame.  *)
(***************************************************************************)
EXTENDS PartitionedScan, FunctionLemmas, FiniteSetTheorems

\* Where a worker is sure to own a connection.
Connected == Steps \ {"unstarted", "threw", "release", "closed"}

\* A worker's record: typed, its cursor on a live connection that is not about
\* to be released, its timer not ahead of the clock.
Good(r) ==
  /\ r \in Worker
  /\ r.cursor => r.conn /\ r.pc # "release"
  /\ r.pc \in Connected => r.conn
  /\ r.t0 <= now

\* Partitions are popped in order, each by one worker.
PartInv ==
  \A i \in Workers : w[i].part # NoWork =>
    /\ w[i].part < next_partition
    /\ \A j \in Workers : i # j => w[j].part # w[i].part

\* The guard has acted at most once, and not before the flag was set.
GuardInv == OneReport /\ (reports = 1 => unpushed_reported)

ScanInv ==
  /\ TypeOK
  /\ \A i \in Workers : Good(w[i])
  /\ PartInv
  /\ GuardInv

LEMMA InitScanInv == Init => ScanInv
<1> SUFFICES ASSUME Init PROVE ScanInv
  OBVIOUS
<1>1. Idle \in Worker /\ ~Idle.cursor /\ Idle.t0 = 0 /\ Idle.part = NoWork
      /\ Idle.pc \notin Connected
  BY ScanAssumption DEF Idle, Worker, Steps, Connected
<1>2. w = [i \in Workers |-> Idle] /\ now = 0
  BY DEF Init
<1>3. \A i \in Workers : Good(w[i]) /\ w[i].part = NoWork
  BY <1>1, <1>2 DEF Good
<1>4. w \in [Workers -> Worker]
  BY <1>1, <1>2
<1>5. delivered \in [Rows -> Nat]
  BY DEF Init
<1>6. probe \in [found : {"unprobed", "no", "yes"}, lo : Int, hi : Int]
  BY DEF Init, Unprobed, NoRange
<1>7. /\ bind \in Binds /\ table \subseteq Rows
      /\ base \subseteq table
  BY DEF Init, Rows
<1>8. /\ query \in Nat
      /\ now \in Nat
      /\ errors \in Nat
      /\ partitions \in Nat
      /\ next_partition \in 0..partitions
      /\ reports \in Nat /\ pool_bytes \in Nat
      /\ reports = 0
  BY ScanAssumption DEF Init
<1>9. /\ status \in {"idle", "running", "done", "aborted"}
      /\ unpushed_reported \in BOOLEAN
  BY DEF Init
<1>10. TypeOK
  BY <1>4, <1>5, <1>6, <1>7, <1>8, <1>9 DEF TypeOK
<1> QED BY <1>3, <1>8, <1>10 DEF ScanInv, PartInv, GuardInv, OneReport

-----------------------------------------------------------------------------
(* The parts of a scan that compute a worker's record.                     *)

LEMMA SetPc ==
  ASSUME NEW r \in Worker, NEW p \in Steps
  PROVE  [r EXCEPT !.pc = p] \in Worker
  BY DEF Worker

LEMMA SetBytes ==
  ASSUME NEW r \in Worker, NEW b \in Nat, NEW c \in Nat
  PROVE  [r EXCEPT !.bytes_fetched = b, !.cursor_bytes = c] \in Worker
  BY DEF Worker

\* Moving a good record to another step keeps it good.
LEMMA GotoGood ==
  ASSUME NEW r, Good(r), NEW p \in Steps, p # "release", p \in Connected => r.conn
  PROVE  /\ Good([r EXCEPT !.pc = p])
         /\ [r EXCEPT !.pc = p].part = r.part
<1>1. /\ r \in Worker /\ (r.cursor => r.conn /\ r.pc # "release")
      /\ (r.pc \in Connected => r.conn) /\ r.t0 <= now
  BY DEF Good
<1>2. /\ [r EXCEPT !.pc = p].part = r.part
      /\ [r EXCEPT !.pc = p].cursor = r.cursor
      /\ [r EXCEPT !.pc = p].conn = r.conn
      /\ [r EXCEPT !.pc = p].t0 = r.t0
      /\ [r EXCEPT !.pc = p].pc = p
  BY <1>1 DEF Worker
<1> QED BY <1>1, <1>2, SetPc DEF Good

LEMMA TakeBytesGood ==
  ASSUME NEW r, Good(r)
  PROVE  /\ Good(TakeBytes(r))
         /\ TakeBytes(r).part = r.part
         /\ TakeBytes(r).conn = r.conn
<1>1. /\ r \in Worker /\ (r.cursor => r.conn /\ r.pc # "release")
      /\ (r.pc \in Connected => r.conn) /\ r.t0 <= now
  BY DEF Good
<1>2. r.bytes_fetched + r.cursor_bytes \in Nat
  BY <1>1 DEF Worker
<1>3. TakeBytes(r) = [r EXCEPT !.bytes_fetched = r.bytes_fetched + r.cursor_bytes,
                               !.cursor_bytes = 0]
  BY <1>1 DEF TakeBytes, Worker
<1>4. TakeBytes(r) \in Worker
  <2>1. r \in Worker
    BY <1>1
  <2> QED BY <1>2, <1>3, <2>1, SetBytes
<1>5. /\ TakeBytes(r).part = r.part
      /\ TakeBytes(r).cursor = r.cursor
      /\ TakeBytes(r).conn = r.conn
      /\ TakeBytes(r).t0 = r.t0
      /\ TakeBytes(r).pc = r.pc
  BY <1>1, <1>3 DEF Worker
<1> QED BY <1>1, <1>4, <1>5 DEF Good

\* A closed cursor satisfies the condition on cursors whatever the connection.
LEMMA CloseCursorGood ==
  ASSUME NEW r, Good(r)
  PROVE  /\ Good(CloseCursor(r))
         /\ CloseCursor(r).part = r.part
         /\ CloseCursor(r).conn = r.conn
<1> DEFINE t == TakeBytes(r)
<1>1. Good(t) /\ t.part = r.part /\ t.conn = r.conn
  BY TakeBytesGood
<1>2. CloseCursor(r) = [t EXCEPT !.cursor = FALSE, !.todo = {}]
  BY DEF CloseCursor
<1> HIDE DEF t
<1>3. t \in Worker /\ t.t0 <= now /\ (t.pc \in Connected => t.conn)
  BY <1>1 DEF Good
<1>4. CloseCursor(r) \in Worker
  BY <1>2, <1>3 DEF Worker
<1>5. /\ CloseCursor(r).part = t.part
      /\ CloseCursor(r).conn = t.conn
      /\ CloseCursor(r).pc = t.pc
      /\ CloseCursor(r).cursor = FALSE
      /\ CloseCursor(r).t0 = t.t0
  BY <1>2, <1>3 DEF Worker
<1> QED BY <1>1, <1>3, <1>4, <1>5 DEF Good

LEMMA LeaveLoopGood ==
  ASSUME NEW r, Good(r), r.conn
  PROVE  Good(LeaveLoop(r)) /\ LeaveLoop(r).part = r.part
<1> DEFINE t == TakeBytes(r)
<1>1. Good(t) /\ t.part = r.part /\ t.conn = r.conn
  BY TakeBytesGood
<1> DEFINE p == IF t.chunk # <<>> THEN "flush_rows" ELSE AfterRows(t)
<1>2. LeaveLoop(r) = [t EXCEPT !.pc = p]
  BY DEF LeaveLoop
<1> HIDE DEF t
<1>3. p \in Steps /\ p # "release"
  BY DEF AfterRows, AfterBytes, Steps
<1> HIDE DEF p
<1> QED BY <1>1, <1>2, <1>3, GotoGood

LEMMA LoopGood ==
  ASSUME NEW r, Good(r), r.conn, now \in Nat
  PROVE  Good(Loop(r)) /\ Loop(r).part = r.part
<1>1. CASE Len(r.chunk) = VectorSize
  BY <1>1, LeaveLoopGood DEF Loop
<1>2. CASE Len(r.chunk) # VectorSize /\ r.cursor
  <2>1. Loop(r) = [r EXCEPT !.pc = "fetch", !.t0 = now]
    BY <1>2 DEF Loop
  <2>2. r \in Worker /\ r.conn /\ "fetch" \in Steps /\ now <= now
    BY <1>2 DEF Good, Steps
  <2>3. Loop(r) \in Worker
    BY <2>1, <2>2 DEF Worker
  <2>4. Loop(r).part = r.part /\ Loop(r).conn = r.conn /\ Loop(r).t0 = now
        /\ Loop(r).pc = "fetch"
    BY <2>1, <2>2 DEF Worker
  <2> QED BY <2>2, <2>3, <2>4 DEF Good
<1>3. CASE Len(r.chunk) # VectorSize /\ ~r.cursor
  <2>1. Loop(r) = [r EXCEPT !.pc = "pop"] /\ "pop" \in Steps
    BY <1>3 DEF Loop, Steps
  <2> QED BY <2>1, GotoGood
<1> QED BY <1>1, <1>2, <1>3

-----------------------------------------------------------------------------
(* One worker moves, and what the others see of it.                        *)

WorkersInv ==
  /\ w \in [Workers -> Worker]
  /\ \A i \in Workers : Good(w[i])
  /\ PartInv

\* A worker that keeps its partition and gets a good record disturbs nobody.
LEMMA GoKeeps ==
  ASSUME WorkersInv, NEW i \in Workers, NEW from, NEW r, Go(i, from, r), Good(r),
         r.part = w[i].part, UNCHANGED <<now, next_partition>>
  PROVE  WorkersInv'
<1>1. r \in Worker /\ w' = [w EXCEPT ![i] = r]
  BY DEF Good, Go
<1>2. w' \in [Workers -> Worker] /\ \A j \in Workers : w'[j] = IF j = i THEN r ELSE w[j]
  BY <1>1 DEF WorkersInv
<1>3. \A j \in Workers : w'[j].part = w[j].part
  BY <1>2
<1>4. ASSUME NEW j \in Workers PROVE Good(w[j])'
  BY <1>2 DEF WorkersInv, Good
<1>5. PartInv'
  BY <1>3 DEF WorkersInv, PartInv
<1> QED BY <1>2, <1>4, <1>5 DEF WorkersInv

\* The usual case: a worker goes on to another step.
LEMMA GotoKeeps ==
  ASSUME WorkersInv, NEW i \in Workers, NEW from, NEW to \in Steps, Goto(i, from, to),
         to # "release", to \in Connected => from \in Connected,
         UNCHANGED <<now, next_partition>>
  PROVE  WorkersInv'
<1>1. Good(w[i]) /\ (to \in Connected => w[i].conn)
  BY DEF WorkersInv, Goto, Go, Good
<1>2. Good([w[i] EXCEPT !.pc = to]) /\ [w[i] EXCEPT !.pc = to].part = w[i].part
  BY <1>1, GotoGood
<1> QED BY <1>2, GoKeeps DEF Goto

\* NextPartition gives a worker a number no other worker has had.
LEMMA NextPartitionKeeps ==
  ASSUME WorkersInv, NEW i \in Workers, next_partition \in Nat, NextPartition(i)
  PROVE  WorkersInv'
<1> DEFINE r == [w[i] EXCEPT !.pc = "record", !.part = next_partition]
<1>1. /\ w' = [w EXCEPT ![i] = r] /\ now' = now
      /\ next_partition' = next_partition + 1
  BY DEF NextPartition, Go
<1>2. w[i] \in Worker /\ Good(w[i]) /\ "record" \in Steps /\ w[i].conn
  BY DEF WorkersInv, Steps, Connected, Good, NextPartition, Go
<1>3. r \in Worker /\ r.part = next_partition
  BY <1>2 DEF Worker
<1>4. r.cursor = w[i].cursor /\ r.conn = w[i].conn /\ r.t0 = w[i].t0 /\ r.pc = "record"
  BY <1>2 DEF Worker
<1> HIDE DEF r
<1>5. w' \in [Workers -> Worker] /\ \A j \in Workers : w'[j] = IF j = i THEN r ELSE w[j]
  BY <1>1, <1>3 DEF WorkersInv
<1>6. ASSUME NEW j \in Workers PROVE Good(w[j])'
  BY <1>1, <1>2, <1>3, <1>4, <1>5 DEF WorkersInv, Good
<1>7. PartInv'
  <2>1. \A j \in Workers : w[j].part # NoWork => w[j].part \in Nat /\ w[j].part < next_partition
    BY DEF WorkersInv, PartInv, Worker
  <2>2. ASSUME NEW j \in Workers, w'[j].part # NoWork
        PROVE  /\ w'[j].part < next_partition'
               /\ \A k \in Workers : j # k => w'[k].part # w'[j].part
    <3>1. CASE j = i
      BY <1>1, <1>3, <1>5, <2>1, <3>1, ScanAssumption
    <3>2. CASE j # i
      BY <1>1, <1>3, <1>5, <2>1, <2>2, <3>2 DEF WorkersInv, PartInv
    <3> QED BY <3>1, <3>2
  <2> QED BY <2>2 DEF PartInv
<1> QED BY <1>5, <1>6, <1>7 DEF WorkersInv

-----------------------------------------------------------------------------
(* The fetch of a row.                                                     *)

LEMMA FetchedGood ==
  ASSUME NEW i \in Workers, Good(w[i]), now \in Nat, NEW k \in w[i].todo
  PROVE  /\ Good(Fetched(i, k))
         /\ Fetched(i, k).part = w[i].part
         /\ Fetched(i, k).conn = w[i].conn
         /\ Fetched(i, k).rows_skipped = w[i].rows_skipped
         /\ Fetched(i, k).rows_emitted = w[i].rows_emitted
<1>1. /\ w[i] \in Worker /\ (w[i].cursor => w[i].conn /\ w[i].pc # "release")
      /\ (w[i].pc \in Connected => w[i].conn) /\ w[i].t0 <= now
  BY DEF Good
<1>2. /\ w[i].todo \ {k} \in SUBSET Rows
      /\ w[i].rows_read + 1 \in Nat
      /\ w[i].cursor_bytes + 1 \in Nat
      /\ w[i].fetch_us + (now - w[i].t0) \in Nat
  <2>1. w[i].todo \ {k} \in SUBSET Rows
    BY <1>1 DEF Worker
  <2>2. /\ w[i].rows_read \in Nat /\ w[i].cursor_bytes \in Nat
        /\ w[i].fetch_us \in Nat /\ w[i].t0 \in Nat
    BY <1>1, ScanAssumption DEF Worker
  <2> QED BY <1>1, <2>1, <2>2
<1>3. Fetched(i, k) =
        [w[i] EXCEPT !.todo = w[i].todo \ {k}, !.rows_read = w[i].rows_read + 1,
                     !.cursor_bytes = w[i].cursor_bytes + 1,
                     !.fetch_us = w[i].fetch_us + (now - w[i].t0)]
  BY <1>1 DEF Fetched, Worker
<1>4. Fetched(i, k) \in Worker
  BY <1>1, <1>2, <1>3 DEF Worker
<1>5. /\ Fetched(i, k).part = w[i].part
      /\ Fetched(i, k).rows_skipped = w[i].rows_skipped
      /\ Fetched(i, k).rows_emitted = w[i].rows_emitted
      /\ Fetched(i, k).cursor = w[i].cursor
      /\ Fetched(i, k).conn = w[i].conn
      /\ Fetched(i, k).t0 = w[i].t0
      /\ Fetched(i, k).pc = w[i].pc
  BY <1>1, <1>3 DEF Worker
<1> QED BY <1>1, <1>4, <1>5 DEF Good

LEMMA SkippedGood ==
  ASSUME NEW f, Good(f),
         NEW g, g = [f EXCEPT !.rows_skipped = @ + 1]
  PROVE  Good(g) /\ g.part = f.part /\ g.conn = f.conn
<1>1. /\ f \in Worker /\ (f.cursor => f.conn /\ f.pc # "release")
      /\ (f.pc \in Connected => f.conn) /\ f.t0 <= now
  BY DEF Good
<1>2. f.rows_skipped + 1 \in Nat
  BY <1>1, ScanAssumption DEF Worker
<1>3. g = [f EXCEPT !.rows_skipped = f.rows_skipped + 1]
  BY <1>1 DEF Worker
<1>4. g \in Worker
  BY <1>1, <1>2, <1>3 DEF Worker
<1>5. g.part = f.part /\ g.cursor = f.cursor /\ g.conn = f.conn /\ g.t0 = f.t0
      /\ g.pc = f.pc
  BY <1>1, <1>3 DEF Worker
<1> QED BY <1>1, <1>4, <1>5 DEF Good

LEMMA AppendedGood ==
  ASSUME NEW f, Good(f), NEW c \in Seq(Rows), NEW e \in Nat
  PROVE  /\ Good([f EXCEPT !.chunk = c, !.rows_emitted = e])
         /\ [f EXCEPT !.chunk = c, !.rows_emitted = e].part = f.part
         /\ [f EXCEPT !.chunk = c, !.rows_emitted = e].conn = f.conn
<1> DEFINE g == [f EXCEPT !.chunk = c, !.rows_emitted = e]
<1>1. /\ f \in Worker /\ (f.cursor => f.conn /\ f.pc # "release")
      /\ (f.pc \in Connected => f.conn) /\ f.t0 <= now
  BY DEF Good
<1>2. g \in Worker
  BY <1>1 DEF Worker
<1>3. g.part = f.part /\ g.cursor = f.cursor /\ g.conn = f.conn /\ g.t0 = f.t0
      /\ g.pc = f.pc
  BY <1>1 DEF Worker
<1> QED BY <1>1, <1>2, <1>3 DEF Good

\* Every outcome of a fetch, and the loop after it, keeps the workers.
LEMMA FetchKeeps ==
  ASSUME WorkersInv, NEW i \in Workers, now \in Nat,
         UNCHANGED <<now, next_partition>>,
         SkipRow(i) \/ StopAtLimit(i) \/ AppendRow(i) \/ FetchThrows(i) \/ EndOfCursor(i)
  PROVE  WorkersInv'
<1>0. Good(w[i]) /\ w[i] \in Worker /\ w[i].conn
  BY DEF WorkersInv, SkipRow, StopAtLimit, AppendRow, FetchThrows, EndOfCursor,
         Go, Goto, Good, Connected, Steps
<1>1. CASE SkipRow(i)
  <2>1. PICK k \in w[i].todo :
          Go(i, "fetch", Loop([Fetched(i, k) EXCEPT !.rows_skipped = @ + 1]))
    BY <1>1 DEF SkipRow
  <2> DEFINE g == [Fetched(i, k) EXCEPT !.rows_skipped = @ + 1]
  <2>3. Good(g) /\ g.part = w[i].part /\ g.conn
    BY <1>0, FetchedGood, SkippedGood
  <2> HIDE DEF g
  <2>4. Good(Loop(g)) /\ Loop(g).part = w[i].part
    BY <2>3, LoopGood
  <2> QED BY <2>1, <2>4, GoKeeps DEF g
<1>2. CASE StopAtLimit(i)
  <2>1. PICK k \in w[i].todo : Go(i, "fetch", LeaveLoop(CloseCursor(Fetched(i, k))))
    BY <1>2 DEF StopAtLimit
  <2>2. /\ Good(Fetched(i, k)) /\ Fetched(i, k).part = w[i].part
        /\ Fetched(i, k).conn
    BY <1>0, FetchedGood
  <2>3. /\ Good(CloseCursor(Fetched(i, k)))
        /\ CloseCursor(Fetched(i, k)).part = w[i].part
        /\ CloseCursor(Fetched(i, k)).conn
    BY <2>2, CloseCursorGood
  <2>4. /\ Good(LeaveLoop(CloseCursor(Fetched(i, k))))
        /\ LeaveLoop(CloseCursor(Fetched(i, k))).part = w[i].part
    BY <2>3, LeaveLoopGood
  <2> QED BY <2>1, <2>4, GoKeeps
<1>3. CASE AppendRow(i)
  <2>1. PICK k \in w[i].todo :
          Go(i, "fetch",
             Loop([Fetched(i, k) EXCEPT
                     !.chunk = Append(@, k),
                     !.rows_emitted = IF LocalSlice THEN @ + 1 ELSE @]))
    BY <1>3 DEF AppendRow
  <2> DEFINE g == [Fetched(i, k) EXCEPT
                     !.chunk = Append(@, k),
                     !.rows_emitted = IF LocalSlice THEN @ + 1 ELSE @]
  <2>2. k \in Rows
    BY <1>0, <2>1 DEF Worker
  <2>4. Good(g) /\ g.part = w[i].part /\ g.conn
    <3> DEFINE f == Fetched(i, k)
    <3>1. Good(f) /\ f.part = w[i].part /\ f.conn
      BY <1>0, FetchedGood
    <3>2. g = [f EXCEPT !.chunk = Append(@, k),
                        !.rows_emitted = IF LocalSlice THEN @ + 1 ELSE @]
      OBVIOUS
    <3> DEFINE c == Append(f.chunk, k)
               e == IF LocalSlice THEN f.rows_emitted + 1 ELSE f.rows_emitted
    <3>3. f \in Worker
      BY <3>1 DEF Good
    <3>4. g = [f EXCEPT !.chunk = c, !.rows_emitted = e]
      BY <3>3 DEF Worker
    <3>5. c \in Seq(Rows) /\ e \in Nat
      <4>1. f.chunk \in Seq(Rows) /\ f.rows_emitted \in Nat
        BY <3>3 DEF Worker
      <4>2. c \in Seq(Rows)
        BY <2>2, <4>1
      <4>3. e \in Nat
        BY <4>1
      <4> QED BY <4>2, <4>3
    <3> HIDE DEF f, g, c, e
    <3>6. Good(g) /\ g.part = f.part /\ g.conn = f.conn
      <4>0. Good(f)
        BY <3>1
      <4>1. /\ Good([f EXCEPT !.chunk = c, !.rows_emitted = e])
            /\ [f EXCEPT !.chunk = c, !.rows_emitted = e].part = f.part
            /\ [f EXCEPT !.chunk = c, !.rows_emitted = e].conn = f.conn
        BY <4>0, <3>5, AppendedGood
      <4> QED BY <3>4, <4>1
    <3> QED BY <3>1, <3>6
  <2> HIDE DEF g
  <2>5. Good(Loop(g)) /\ Loop(g).part = w[i].part
    BY <2>4, LoopGood
  <2> QED BY <2>1, <2>5, GoKeeps DEF g
<1>4. CASE FetchThrows(i)
  <2>0. "scan_error" \in Steps /\ "fetch" \in Connected
    BY DEF Steps, Connected
  <2>1. CASE Goto(i, "fetch", "scan_error")
    BY <2>0, <2>1, GotoKeeps
  <2>2. CASE \E k \in w[i].todo :
               Go(i, "fetch", [Fetched(i, k) EXCEPT !.pc = "scan_error"])
    <3>1. PICK k \in w[i].todo :
            Go(i, "fetch", [Fetched(i, k) EXCEPT !.pc = "scan_error"])
      BY <2>2
    <3>2. /\ Good(Fetched(i, k)) /\ Fetched(i, k).part = w[i].part
          /\ Fetched(i, k).conn
      BY <1>0, FetchedGood
    <3>3. /\ Good([Fetched(i, k) EXCEPT !.pc = "scan_error"])
          /\ [Fetched(i, k) EXCEPT !.pc = "scan_error"].part = w[i].part
      BY <2>0, <3>2, GotoGood
    <3> QED BY <3>1, <3>3, GoKeeps
  <2> QED BY <1>4, <2>1, <2>2 DEF FetchThrows
<1>5. CASE EndOfCursor(i)
  <2> DEFINE u == w[i].fetch_us + (now - w[i].t0)
             g == [w[i] EXCEPT !.fetch_us = u]
  <2>1. u \in Nat
    <3>1. w[i].fetch_us \in Nat /\ w[i].t0 \in Nat
      BY <1>0, ScanAssumption DEF Worker
    <3>2. w[i].t0 <= now
      BY <1>0 DEF Good
    <3>3. now \in Nat
      BY ScanAssumption
    <3> QED BY <3>1, <3>2, <3>3
  <2>2. Go(i, "fetch", Loop(CloseCursor(g)))
    BY <1>0, <1>5 DEF EndOfCursor, Worker
  <2> HIDE DEF u
  <2>3. Good(g) /\ g.part = w[i].part /\ g.conn
    <3>1. g \in Worker
      BY <1>0, <2>1 DEF Worker
    <3>2. g.cursor = w[i].cursor /\ g.conn = w[i].conn /\ g.t0 = w[i].t0
          /\ g.part = w[i].part /\ g.pc = w[i].pc
      BY <1>0 DEF Worker
    <3> QED BY <1>0, <3>1, <3>2 DEF Good
  <2> HIDE DEF g
  <2>4. Good(CloseCursor(g)) /\ CloseCursor(g).part = w[i].part /\ CloseCursor(g).conn
    BY <2>3, CloseCursorGood
  <2>5. Good(Loop(CloseCursor(g))) /\ Loop(CloseCursor(g)).part = w[i].part
    BY <2>4, LoopGood
  <2> QED BY <2>2, <2>5, GoKeeps
<1> QED BY <1>1, <1>2, <1>3, <1>4, <1>5

-----------------------------------------------------------------------------
(* All the steps of a worker.                                              *)

\* The steps that only go on to another step.
LEMMA PlainStepKeeps ==
  ASSUME WorkersInv, NEW i \in Workers, UNCHANGED <<now, next_partition>>,
         \/ InitLocalFails(i) \/ Record(i) \/ GuardThrows(i) \/ OpenCursorFails(i)
         \/ RecordOpenError(i) \/ AddOpenTime(i) \/ FlushRows(i)
         \/ FlushFetchTime(i) \/ RecordScanError(i)
  PROVE  WorkersInv'
<1>1. PICK from, to \in Steps : Goto(i, from, to) /\ to # "release"
                                 /\ (to \in Connected => from \in Connected)
  BY DEF Connected, InitLocalFails, Record, GuardThrows, OpenCursorFails, RecordOpenError,
         AddOpenTime, FlushRows, FlushFetchTime, RecordScanError,
         AfterRows, AfterBytes, Steps
<1> QED BY <1>1, GotoKeeps

\* The steps that set other fields of the worker's record.
LEMMA FieldStepKeeps ==
  ASSUME WorkersInv, NEW i \in Workers, now \in Nat, table \subseteq Rows,
         UNCHANGED <<now, next_partition>>,
         \/ InitLocal(i) \/ GuardPasses(i) \/ OpenCursor(i) \/ FlushBytes(i)
         \/ FlushPool(i) \/ ReturnChunk(i) \/ ReleaseConnection(i)
  PROVE  WorkersInv'
<1>0. Good(w[i]) /\ w[i] \in Worker
  BY DEF WorkersInv, Good
<1>1. CASE InitLocal(i)
  <2> DEFINE g == [w[i] EXCEPT !.pc = "scan", !.conn = TRUE]
  <2>1. Go(i, "unstarted", g) /\ "scan" \in Steps
    BY <1>1 DEF InitLocal, Steps
  <2>2. g \in Worker
    BY <1>0, <2>1 DEF Worker
  <2>3. g.part = w[i].part /\ g.conn /\ g.t0 = w[i].t0 /\ g.pc = "scan"
    BY <1>0 DEF Worker
  <2>4. Good(g)
    BY <1>0, <2>2, <2>3 DEF Good
  <2> HIDE DEF g
  <2> QED BY <2>1, <2>3, <2>4, GoKeeps
<1>2. CASE GuardPasses(i)
  <2> DEFINE g == [w[i] EXCEPT !.pc = "open", !.t0 = now]
  <2>1. Go(i, "guard", g) /\ "open" \in Steps /\ w[i].conn
    BY <1>0, <1>2 DEF GuardPasses, Steps, Connected, Go, Good
  <2>2. g \in Worker
    BY <1>0, <2>1 DEF Worker
  <2>3. g.part = w[i].part /\ g.conn = w[i].conn /\ g.cursor = w[i].cursor /\ g.t0 = now
        /\ g.pc = "open"
    BY <1>0 DEF Worker
  <2>4. Good(g)
    BY <1>0, <2>1, <2>2, <2>3, ScanAssumption DEF Good
  <2> HIDE DEF g
  <2> QED BY <2>1, <2>3, <2>4, GoKeeps
<1>3. CASE OpenCursor(i)
  <2> DEFINE us == now - w[i].t0
             rows == PushedSlice(PartitionRows(w[i].part))
             g == [w[i] EXCEPT !.pc = "open_us", !.cursor = TRUE, !.todo = rows,
                               !.open_us = us]
  <2>1. Go(i, "open", g) /\ "open_us" \in Steps
    BY <1>3 DEF OpenCursor, Steps
  <2>2. us \in Nat
    <3>1. w[i].t0 \in Nat
      BY <1>0 DEF Worker
    <3>2. w[i].t0 <= now
      BY <1>0 DEF Good
    <3> QED BY <3>1, <3>2, ScanAssumption
  <2>3. rows \in SUBSET Rows
    BY DEF PushedSlice, PartitionRows
  <2> HIDE DEF us, rows
  <2>4. g \in Worker
    BY <1>0, <2>1, <2>2, <2>3 DEF Worker
  <2>5. g.part = w[i].part /\ g.conn = w[i].conn /\ g.t0 = w[i].t0
        /\ g.pc = "open_us"
    BY <1>0 DEF Worker
  <2>6. w[i].conn
    BY <1>0, <1>3 DEF OpenCursor, Go, Good, Connected, Steps
  <2>7. Good(g)
    BY <1>0, <2>4, <2>5, <2>6 DEF Good
  <2> HIDE DEF g
  <2> QED BY <2>1, <2>5, <2>7, GoKeeps
<1>4. CASE FlushBytes(i) \/ FlushPool(i)
  <2> DEFINE p == IF w[i].fetch_us > 0 THEN "flush_us" ELSE "flush_total"
             g == [w[i] EXCEPT !.pc = p, !.bytes_fetched = 0]
  <2>1. p \in Steps /\ AfterBytes(w[i]) = p /\ "flush_pool" \in Steps /\ w[i].conn
        /\ p # "release"
    BY <1>0, <1>4 DEF AfterBytes, Steps, FlushBytes, FlushPool, Go, Good, Connected
  <2>2. g \in Worker
    BY <1>0, <2>1 DEF Worker
  <2>3. g.part = w[i].part /\ g.conn = w[i].conn /\ g.cursor = w[i].cursor
        /\ g.t0 = w[i].t0 /\ g.pc = p
    BY <1>0 DEF Worker
  <2>4. Good(g)
    BY <1>0, <2>1, <2>2, <2>3 DEF Good
  <2>5. /\ Good([w[i] EXCEPT !.pc = "flush_pool"])
        /\ [w[i] EXCEPT !.pc = "flush_pool"].part = w[i].part
    BY <1>0, <2>1, GotoGood
  <2>6. \/ \E from : Go(i, from, g)
        \/ \E from : Go(i, from, [w[i] EXCEPT !.pc = "flush_pool"])
    BY <1>4, <2>1 DEF FlushBytes, FlushPool
  <2> HIDE DEF g
  <2>7. CASE \E from : Go(i, from, g)
    BY <2>3, <2>4, <2>7, GoKeeps
  <2>8. CASE \E from : Go(i, from, [w[i] EXCEPT !.pc = "flush_pool"])
    BY <2>5, <2>8, GoKeeps
  <2> QED BY <2>6, <2>7, <2>8
<1>5. CASE ReturnChunk(i)
  <2> DEFINE p == IF w[i].chunk = <<>> THEN "exhausted" ELSE "scan"
             g == [w[i] EXCEPT !.pc = p, !.chunk = <<>>, !.fetch_us = 0]
  <2>1. Go(i, "flush_total", g) /\ p \in Steps /\ <<>> \in Seq(Rows)
        /\ w[i].conn /\ p # "release"
    BY <1>0, <1>5 DEF ReturnChunk, Steps, Connected, Go, Good
  <2>2. g \in Worker
    BY <1>0, <2>1 DEF Worker
  <2>3. g.part = w[i].part /\ g.conn = w[i].conn /\ g.cursor = w[i].cursor
        /\ g.t0 = w[i].t0 /\ g.pc = p
    BY <1>0 DEF Worker
  <2>4. Good(g)
    BY <1>0, <2>1, <2>2, <2>3 DEF Good
  <2> HIDE DEF g
  <2> QED BY <2>1, <2>3, <2>4, GoKeeps
<1>6. CASE ReleaseConnection(i)
  <2> DEFINE g == [w[i] EXCEPT !.pc = "closed", !.conn = FALSE]
  <2>1. Go(i, "release", g) /\ w[i].pc = "release" /\ "closed" \in Steps
        /\ "closed" \notin Connected
    BY <1>6 DEF ReleaseConnection, Go, Steps, Connected
  <2>2. g \in Worker
    BY <1>0, <2>1 DEF Worker
  <2>3. g.part = w[i].part /\ g.cursor = w[i].cursor /\ g.t0 = w[i].t0
        /\ g.pc = "closed"
    BY <1>0 DEF Worker
  <2>4. Good(g)
    BY <1>0, <2>1, <2>2, <2>3 DEF Good
  <2> HIDE DEF g
  <2> QED BY <2>1, <2>3, <2>4, GoKeeps
<1> QED BY <1>1, <1>2, <1>3, <1>4, <1>5, <1>6

\* The steps that run the head of the loop, leave it, or tear the worker down.
LEMMA LoopStepKeeps ==
  ASSUME WorkersInv, NEW i \in Workers, now \in Nat,
         UNCHANGED <<now, next_partition>>,
         Scan(i) \/ QueueEmpty(i) \/ UpdateOpenTotal(i) \/ TearDownCursor(i)
  PROVE  WorkersInv'
<1>0. Good(w[i])
  BY DEF WorkersInv
<1>1. CASE Scan(i) \/ QueueEmpty(i) \/ UpdateOpenTotal(i)
  <2>1. w[i].conn
    BY <1>0, <1>1 DEF Scan, QueueEmpty, UpdateOpenTotal, Go, Good, Connected, Steps
  <2>2. /\ Good(Loop(w[i])) /\ Loop(w[i]).part = w[i].part
        /\ Good(LeaveLoop(w[i])) /\ LeaveLoop(w[i]).part = w[i].part
    BY <1>0, <2>1, LoopGood, LeaveLoopGood
  <2>3. \E from : Go(i, from, Loop(w[i])) \/ Go(i, from, LeaveLoop(w[i]))
    BY <1>1 DEF Scan, QueueEmpty, UpdateOpenTotal
  <2> QED BY <2>2, <2>3, GoKeeps
<1>2. CASE TearDownCursor(i)
  <2> DEFINE c == CloseCursor(w[i])
             g == [c EXCEPT !.pc = "release", !.chunk = <<>>]
  <2>1. Go(i, w[i].pc, g)
    BY <1>2 DEF TearDownCursor
  <2>2. Good(c) /\ c.part = w[i].part
    BY <1>0, CloseCursorGood
  <2>3. ~c.cursor
    <3>1. TakeBytes(w[i]) \in Worker
      BY <1>0, TakeBytesGood DEF Good
    <3> HIDE DEF g
    <3> QED BY <3>1 DEF CloseCursor, Worker
  <2> HIDE DEF c
  <2>4. c \in Worker /\ c.t0 <= now
    BY <2>2 DEF Good
  <2>5. g \in Worker
    <3>1. "release" \in Steps /\ <<>> \in Seq(Rows)
      BY DEF Steps
    <3> QED BY <2>4, <3>1 DEF Worker
  <2>6. g.part = c.part /\ ~g.cursor /\ g.t0 = c.t0 /\ g.pc = "release"
    BY <2>3, <2>4 DEF Worker
  <2>7. "release" \notin Connected
    BY DEF Connected
  <2>8. Good(g)
    BY <2>4, <2>5, <2>6, <2>7 DEF Good
  <2> HIDE DEF g
  <2> QED BY <2>1, <2>2, <2>6, <2>8, GoKeeps
<1> QED BY <1>1, <1>2

\* Begin gives every worker a fresh record.
LEMMA BeginKeeps ==
  ASSUME Begin, now \in Nat
  PROVE  WorkersInv'
<1>1. /\ Idle \in Worker /\ ~Idle.cursor /\ Idle.t0 = 0 /\ Idle.part = NoWork
      /\ Idle.pc \notin Connected
  BY ScanAssumption DEF Idle, Worker, Steps, Connected
<1>2. w' = [i \in Workers |-> Idle] /\ now' = now
  BY DEF Begin
<1>3. \A i \in Workers : Good(w[i])' /\ w'[i].part = NoWork
  BY <1>1, <1>2 DEF Good
<1> QED BY <1>1, <1>2, <1>3 DEF WorkersInv, PartInv

\* A step that leaves the workers alone, while time may pass.
LEMMA StutterKeeps ==
  ASSUME WorkersInv, UNCHANGED <<w, next_partition>>, now' >= now,
         now \in Int, now' \in Int
  PROVE  WorkersInv'
<1>1. ASSUME NEW j \in Workers PROVE Good(w[j])'
  <2>1. Good(w[j]) /\ w'[j] = w[j] /\ w[j].t0 \in Int
    BY ScanAssumption DEF WorkersInv, Good, Worker
  <2> QED BY <2>1 DEF Good
<1> QED BY <1>1 DEF WorkersInv, PartInv

LEMMA NextWorkersInv ==
  ASSUME TypeOK, WorkersInv, [Next]_vars
  PROVE  WorkersInv'
<1>0. now \in Nat /\ table \subseteq Rows /\ next_partition \in Nat
  BY DEF TypeOK
<1>1. CASE Begin
  BY <1>0, <1>1, BeginKeeps
<1>2. CASE Abort \/ Finish \/ Insert \/ UNCHANGED vars
  <2>1. UNCHANGED <<w, next_partition, now>>
    BY <1>2 DEF Abort, Finish, EndQuery, Insert, vars
  <2> QED BY <1>0, <2>1, StutterKeeps
<1>3. CASE Tick
  <2>1. UNCHANGED <<w, next_partition>> /\ now' = now + 1
    BY <1>3 DEF Tick
  <2> QED BY <1>0, <2>1, StutterKeeps
<1>4. ASSUME NEW i \in Workers, Work(i) \/ Schedule(i)
      PROVE  WorkersInv'
  <2>1. CASE NextPartition(i)
    BY <1>0, <2>1, NextPartitionKeeps
  <2>2. CASE ~NextPartition(i)
    <3>1. UNCHANGED <<now, next_partition>>
      BY <1>4, <2>2 DEF Work, Schedule, QueueEmpty, Record, GuardPasses, GuardThrows,
         OpenCursor, OpenCursorFails, RecordOpenError, AddOpenTime, UpdateOpenTotal,
         SkipRow, StopAtLimit, AppendRow, FetchThrows, EndOfCursor, FlushRows,
         FlushBytes, FlushPool, FlushFetchTime, ReturnChunk, RecordScanError,
         TearDownCursor, ReleaseConnection, InitLocal, InitLocalFails, Scan,
         Local, Recording
    <3>2. CASE \/ InitLocalFails(i) \/ Record(i) \/ GuardThrows(i) \/ OpenCursorFails(i)
               \/ RecordOpenError(i) \/ AddOpenTime(i) \/ FlushRows(i)
               \/ FlushFetchTime(i) \/ RecordScanError(i)
      BY <3>1, <3>2, PlainStepKeeps
    <3>3. CASE \/ InitLocal(i) \/ GuardPasses(i) \/ OpenCursor(i) \/ FlushBytes(i)
               \/ FlushPool(i) \/ ReturnChunk(i) \/ ReleaseConnection(i)
      BY <1>0, <3>1, <3>3, FieldStepKeeps
    <3>4. CASE Scan(i) \/ QueueEmpty(i) \/ UpdateOpenTotal(i) \/ TearDownCursor(i)
      BY <1>0, <3>1, <3>4, LoopStepKeeps
    <3>5. CASE SkipRow(i) \/ StopAtLimit(i) \/ AppendRow(i) \/ FetchThrows(i)
               \/ EndOfCursor(i)
      BY <1>0, <3>1, <3>5, FetchKeeps
    <3> QED BY <1>4, <2>2, <3>2, <3>3, <3>4, <3>5 DEF Work, Schedule
  <2> QED BY <2>1, <2>2
<1> QED BY <1>1, <1>2, <1>3, <1>4 DEF Next

-----------------------------------------------------------------------------
(* The variables the workers share.                                        *)

LEMMA PartitionCountType ==
  ASSUME NEW lo \in Int, NEW hi \in Int, NEW override \in Nat, NEW hw \in Nat
  PROVE  PartitionCount(lo, hi, override, hw) \in Nat \ {0}
<1>1. \A x \in Int : Wrap64(x) \in Int
  BY BoundsAssumption DEF Wrap64, IntMin
<1>2. hi - lo + 1 \in Int
  OBVIOUS
<1> DEFINE range == Wrap64(hi - lo + 1)
<1>3. range \in Int
  BY <1>1, <1>2
<1>4. PickPartitionCount(lo, hi, hw) =
        IF range < 2 * MinRows THEN 1
        ELSE Greatest(1, Least(range \div MinRows, IF hw <= 0 THEN 4 ELSE hw))
  BY DEF PickPartitionCount
<1> DEFINE n == IF override > 0 THEN override ELSE PickPartitionCount(lo, hi, hw)
<1>5. PartitionCount(lo, hi, override, hw) = IF range > 0 THEN Least(n, range) ELSE n
  BY DEF PartitionCount
<1> HIDE DEF range
<1>6. range \div MinRows \in Int
  BY <1>3, BoundsAssumption
<1>7. PickPartitionCount(lo, hi, hw) \in Nat \ {0}
  BY <1>3, <1>4, <1>6 DEF Greatest, Least
<1> HIDE DEF n
<1>8. n \in Nat \ {0}
  BY <1>7 DEF n
<1> QED BY <1>3, <1>5, <1>8 DEF Least

\* Rows are 64-bit keys, and the parameters of a statement numbers.
LEMMA RowsAreKeys == Rows \subseteq Int
<1>1. ASSUME NEW b \in Binds PROVE Env[b].base \subseteq Int64 /\ Env[b].inserts \subseteq Int64
  BY ScanAssumption DEF Surroundings
<1>2. Int64 \subseteq Int
  BY BoundsAssumption DEF Int64, IntMin
<1> QED BY <1>1, <1>2 DEF Rows

LEMMA OverrideType == bind \in Binds => Override \in Nat
BY ScanAssumption DEF Override, Bind

\* Only InitGlobal and NextPartition move the queue.
LEMMA NextQueue ==
  ASSUME TypeOK, [Next]_vars
  PROVE  /\ partitions' \in Nat /\ next_partition' \in 0..partitions'
         /\ probe' \in [found : {"unprobed", "no", "yes"}, lo : Int, hi : Int]
         /\ Begin => partitions' > 0
<1>0. /\ partitions \in Nat /\ next_partition \in 0..partitions /\ table \subseteq Rows
      /\ probe \in [found : {"unprobed", "no", "yes"}, lo : Int, hi : Int]
  BY DEF TypeOK
<1>1. CASE Begin
  <2>1. NoRange \in [found : {"unprobed", "no", "yes"}, lo : Int, hi : Int]
    BY DEF NoRange
  <2>2. \A r \in KeyRanges :
          r \in [found : {"unprobed", "no", "yes"}, lo : Int, hi : Int]
    <3>1. table \subseteq Int
      BY <1>0, RowsAreKeys
    <3> QED BY <3>1 DEF KeyRanges
  <2>3. probe' \in [found : {"unprobed", "no", "yes"}, lo : Int, hi : Int]
    BY <1>0, <1>1, <2>1, <2>2 DEF Begin, BindProbe, ProbePrimaryKey
  <2>4. partitions' \in Nat \ {0}
    <3>1. Override \in Nat /\ HwConcurrency \in Nat
      BY OverrideType, ScanAssumption DEF TypeOK
    <3>2. probe'.lo \in Int /\ probe'.hi \in Int
      BY <2>3
    <3>3. PartitionCount(probe'.lo, probe'.hi, Override, HwConcurrency) \in Nat \ {0}
      BY <3>1, <3>2, PartitionCountType
    <3> QED BY <1>1, <3>3 DEF Begin, InitGlobal
  <2> QED BY <1>1, <2>3, <2>4 DEF Begin, InitGlobal
<1>2. CASE \E i \in Workers : NextPartition(i)
  BY <1>0, <1>2 DEF NextPartition, shared
<1>3. CASE ~Begin /\ ~(\E i \in Workers : NextPartition(i))
  <2>1. UNCHANGED <<partitions, next_partition, probe>>
    BY <1>3 DEF Next, Abort, Finish, EndQuery, Insert, Tick, Work, Schedule,
       QueueEmpty, Record, GuardPasses, GuardThrows,
       OpenCursor, OpenCursorFails, RecordOpenError, AddOpenTime, UpdateOpenTotal,
       SkipRow, StopAtLimit, AppendRow, FetchThrows, EndOfCursor, FlushRows,
       FlushBytes, FlushPool, FlushFetchTime, ReturnChunk, RecordScanError,
       TearDownCursor, ReleaseConnection, InitLocal, InitLocalFails, Scan,
       Local, Recording, shared, vars
  <2> QED BY <1>0, <1>3, <2>1
<1> QED BY <1>1, <1>2, <1>3

\* What every step of a worker leaves alone or only lets grow.
LEMMA WorkerStepFrame ==
  ASSUME TypeOK, WorkersInv, NEW i \in Workers, Work(i) \/ Schedule(i)
  PROVE  /\ UNCHANGED <<bind, table, query, status, base, now>>
         /\ errors' \in Nat
         /\ pool_bytes' \in Nat
         /\ delivered' \in [Rows -> Nat]
<1>0. /\ errors \in Nat /\ pool_bytes \in Nat /\ delivered \in [Rows -> Nat]
      /\ w[i] \in Worker
  BY DEF TypeOK, WorkersInv
<1>1. CASE FlushPool(i)
  <2>1. w[i].bytes_fetched \in Nat
    BY <1>0 DEF Worker
  <2>2. pool_bytes' = pool_bytes + w[i].bytes_fetched
    BY <1>1 DEF FlushPool
  <2> QED BY <1>0, <1>1, <2>1, <2>2 DEF FlushPool, shared
<1>2. CASE ReturnChunk(i)
  <2>1. \A r \in Rows : Count(w[i].chunk, r) \in Nat
    <3>1. w[i].chunk \in Seq(Rows)
      BY <1>0 DEF Worker
    <3>2. Len(w[i].chunk) \in Nat
      BY <3>1
    <3>3. ASSUME NEW r \in Rows PROVE Count(w[i].chunk, r) \in Nat
      <4> DEFINE S == {k \in 1..Len(w[i].chunk) : w[i].chunk[k] = r}
      <4>1. IsFiniteSet(1..Len(w[i].chunk))
        BY <3>2, FS_Interval
      <4>2. IsFiniteSet(S)
        BY <4>1, FS_Subset
      <4> QED BY <4>2, FS_CardinalityType DEF Count
    <3> QED BY <3>3
  <2> QED BY <1>0, <1>2, <2>1 DEF ReturnChunk, shared
<1>3. CASE /\ ~FlushPool(i) /\ ~ReturnChunk(i)
           /\ \/ InitLocalFails(i) \/ OpenCursorFails(i) \/ FetchThrows(i)
  BY <1>0, <1>3, ScanAssumption
     DEF InitLocalFails, OpenCursorFails, FetchThrows, ServerError, shared
<1>4. CASE /\ ~FlushPool(i) /\ ~ReturnChunk(i) /\ ~InitLocalFails(i)
           /\ ~OpenCursorFails(i) /\ ~FetchThrows(i)
  <2>1. UNCHANGED <<bind, table, query, status, base, now, errors, pool_bytes, delivered>>
    BY <1>4 DEF Work, Schedule, NextPartition,
       QueueEmpty, Record, GuardPasses, GuardThrows, OpenCursor, RecordOpenError,
       AddOpenTime, UpdateOpenTotal, SkipRow, StopAtLimit, AppendRow, EndOfCursor,
       FlushRows, FlushBytes, FlushFetchTime, RecordScanError, TearDownCursor,
       ReleaseConnection, InitLocal, Scan, Local, Recording, shared
  <2> QED BY <1>0, <2>1
<1> QED BY <1>1, <1>2, <1>3, <1>4

\* Only the guard and Begin touch the flag and the history of its reports.
LEMMA NextGuardInv ==
  ASSUME TypeOK, GuardInv, [Next]_vars
  PROVE  /\ GuardInv'
         /\ unpushed_reported' \in BOOLEAN /\ reports' \in Nat
<1>0. /\ unpushed_reported \in BOOLEAN /\ reports \in Nat
      /\ reports <= 1 /\ (reports = 1 => unpushed_reported)
  BY DEF TypeOK, GuardInv, OneReport
<1>1. CASE Begin
  <2>1. reports' = 0 /\ unpushed_reported' = FALSE
    BY <1>1 DEF Begin, InitGlobal
  <2>2. unpushed_reported' \in BOOLEAN
    BY <2>1
  <2>3. reports' \in Nat /\ reports' <= 1 /\ reports' # 1
    BY <2>1
  <2> QED BY <2>2, <2>3 DEF GuardInv, OneReport
<1>2. CASE \E i \in Workers : GuardPasses(i) \/ GuardThrows(i)
  <2>1. /\ unpushed_reported' = (unpushed_reported \/ bind.residual)
        /\ \/ reports' = reports
           \/ bind.residual /\ ~unpushed_reported /\ reports' = reports + 1
    BY <1>2 DEF GuardPasses, GuardThrows, FirstReport, Exchange
  <2>2. unpushed_reported' \in BOOLEAN
    BY <2>1
  <2>3. CASE reports' = reports
    BY <1>0, <2>1, <2>2, <2>3 DEF GuardInv, OneReport
  <2>4. CASE bind.residual /\ ~unpushed_reported /\ reports' = reports + 1
    <3>1. reports = 0
      BY <1>0, <2>4
    <3>2. unpushed_reported'
      BY <2>1, <2>4
    <3> QED BY <2>2, <2>4, <3>1, <3>2 DEF GuardInv, OneReport
  <2> QED BY <2>1, <2>3, <2>4
<1>3. CASE ~Begin /\ ~(\E i \in Workers : GuardPasses(i) \/ GuardThrows(i))
  <2>1. UNCHANGED <<unpushed_reported, reports>>
    BY <1>3 DEF Next, Abort, Finish, EndQuery, Insert, Tick, Work, Schedule,
       NextPartition, QueueEmpty, Record,
       OpenCursor, OpenCursorFails, RecordOpenError, AddOpenTime, UpdateOpenTotal,
       SkipRow, StopAtLimit, AppendRow, FetchThrows, EndOfCursor, FlushRows,
       FlushBytes, FlushPool, FlushFetchTime, ReturnChunk, RecordScanError,
       TearDownCursor, ReleaseConnection, InitLocal, InitLocalFails, Scan,
       Local, Recording, shared, vars
  <2> QED BY <1>0, <2>1 DEF GuardInv, OneReport
<1> QED BY <1>1, <1>2, <1>3

LEMMA NextTypeOK ==
  ASSUME TypeOK, WorkersInv, WorkersInv', GuardInv, [Next]_vars
  PROVE  TypeOK'
<1>0. /\ bind \in Binds /\ table \subseteq Rows
      /\ query \in Nat
      /\ status \in {"idle", "running", "done", "aborted"}
      /\ base \subseteq table
      /\ delivered \in [Rows -> Nat]
      /\ pool_bytes \in Nat
      /\ now \in Nat
      /\ errors \in Nat
  BY DEF TypeOK
<1>1. /\ partitions' \in Nat /\ next_partition' \in 0..partitions'
      /\ probe' \in [found : {"unprobed", "no", "yes"}, lo : Int, hi : Int]
  BY NextQueue
<1>2. unpushed_reported' \in BOOLEAN /\ reports' \in Nat
  BY NextGuardInv
<1>3. w' \in [Workers -> Worker]
  BY DEF WorkersInv
<1>4. /\ bind' \in Binds /\ table' \subseteq Rows
      /\ query' \in Nat
      /\ status' \in {"idle", "running", "done", "aborted"}
      /\ base' \subseteq table'
      /\ delivered' \in [Rows -> Nat]
      /\ pool_bytes' \in Nat
      /\ now' \in Nat
      /\ errors' \in Nat
  <2>1. CASE Begin
    <3>1. errors' \in Nat
      BY <1>0, <2>1, ScanAssumption DEF Begin, BindProbe
    <3>2. query' \in Nat
      BY <1>0, <2>1, ScanAssumption DEF Begin
    <3>3. delivered' \in [Rows -> Nat]
      BY <2>1 DEF Begin
    <3> QED BY <1>0, <2>1, <3>1, <3>2, <3>3 DEF Begin
  <2>2. CASE Abort \/ Finish
    BY <1>0, <2>2 DEF Abort, Finish, EndQuery
  <2>3. CASE Insert
    BY <1>0, <2>3 DEF Insert, shared, Rows
  <2>4. CASE Tick
    <3>1. now' \in Nat
      BY <1>0, <2>4, ScanAssumption DEF Tick
    <3> QED BY <1>0, <2>4, <3>1 DEF Tick, shared
  <2>5. CASE \E i \in Workers : Work(i) \/ Schedule(i)
    BY <1>0, <2>5, WorkerStepFrame
  <2>6. CASE UNCHANGED vars
    BY <1>0, <2>6 DEF vars, shared
  <2> QED BY <2>1, <2>2, <2>3, <2>4, <2>5, <2>6 DEF Next
<1> QED BY <1>1, <1>2, <1>3, <1>4 DEF TypeOK

LEMMA NextScanInv == ScanInv /\ [Next]_vars => ScanInv'
<1> SUFFICES ASSUME ScanInv, [Next]_vars PROVE ScanInv'
  OBVIOUS
<1>1. TypeOK /\ GuardInv
  BY DEF ScanInv
<1>2. WorkersInv
  BY DEF ScanInv, TypeOK, WorkersInv
<1>3. WorkersInv'
  BY <1>1, <1>2, NextWorkersInv
<1>4. TypeOK'
  BY <1>1, <1>2, <1>3, NextTypeOK
<1>5. GuardInv'
  BY <1>1, NextGuardInv
<1> QED BY <1>3, <1>4, <1>5 DEF ScanInv, WorkersInv

-----------------------------------------------------------------------------
(* In error mode, a scan with residual filters cannot end well: until the   *)
(* flag is set nobody gets past the guard, and whoever sets it throws.      *)

\* A worker that has popped nothing.
Untouched(r) ==
  \/ r.pc = "threw"
  \/ r.pc \in {"unstarted", "scan", "pop"} /\ ~r.cursor /\ r.chunk = <<>>

Pending ==
  IF unpushed_reported
  THEN \E i \in Workers : w[i].pc \in {"scan_error", "threw"}
  ELSE \/ next_partition = 0 /\ \A i \in Workers : Untouched(w[i])
       \/ \E i \in Workers : w[i].pc \in {"record", "guard", "threw"}

MustFail == bind.residual /\ Mode = "error"

ErrorInv ==
  MustFail => /\ status # "done"
              /\ status = "running" => partitions > 0 /\ Pending

\* A step of a worker replaces its record only.
LEMMA OneMoves ==
  ASSUME WorkersInv, NEW i \in Workers, Work(i) \/ Schedule(i)
  PROVE  /\ \A j \in Workers \ {i} : w'[j] = w[j]
         /\ UNCHANGED <<bind, status, partitions>>
<1>1. \E r : w' = [w EXCEPT ![i] = r]
  BY DEF Work, Schedule, Go, Goto, NextPartition, QueueEmpty, Record, GuardPasses, GuardThrows,
       OpenCursor, OpenCursorFails, RecordOpenError, AddOpenTime, UpdateOpenTotal, SkipRow,
       StopAtLimit, AppendRow, FetchThrows, EndOfCursor, FlushRows, FlushBytes, FlushPool,
       FlushFetchTime, ReturnChunk, RecordScanError, TearDownCursor, ReleaseConnection,
       InitLocal, InitLocalFails, Scan
<1>2. \A j \in Workers \ {i} : w'[j] = w[j]
  BY <1>1 DEF WorkersInv
<1>3. UNCHANGED <<bind, status, partitions>>
  BY DEF Work, Schedule, NextPartition, QueueEmpty, Record, GuardPasses, GuardThrows,
       OpenCursor, OpenCursorFails, RecordOpenError, AddOpenTime, UpdateOpenTotal, SkipRow,
       StopAtLimit, AppendRow, FetchThrows, EndOfCursor, FlushRows, FlushBytes, FlushPool,
       FlushFetchTime, ReturnChunk, RecordScanError, TearDownCursor, ReleaseConnection,
       InitLocal, InitLocalFails, Scan, Local, Recording, shared
<1> QED BY <1>2, <1>3

\* What a worker can do from the places Pending speaks of.
LEMMA StepFrom ==
  ASSUME NEW i \in Workers, Work(i) \/ Schedule(i), status = "running"
  PROVE  /\ w[i].pc # "threw"
         /\ w[i].pc = "unstarted" => InitLocal(i) \/ InitLocalFails(i)
         /\ w[i].pc = "scan" => Scan(i)
         /\ w[i].pc = "pop" => NextPartition(i) \/ QueueEmpty(i)
         /\ w[i].pc = "record" => Record(i)
         /\ w[i].pc = "guard" => GuardPasses(i) \/ GuardThrows(i)
         /\ w[i].pc = "scan_error" => RecordScanError(i)
BY DEF Work, Schedule, Go, Goto, NextPartition, QueueEmpty, Record, GuardPasses, GuardThrows,
       OpenCursor, OpenCursorFails, RecordOpenError, AddOpenTime, UpdateOpenTotal, SkipRow,
       StopAtLimit, AppendRow, FetchThrows, EndOfCursor, FlushRows, FlushBytes, FlushPool,
       FlushFetchTime, ReturnChunk, RecordScanError, TearDownCursor, MayTearDown,
       ReleaseConnection, InitLocal, InitLocalFails, Scan

\* In error mode the flag is set by an exception only.
LEMMA FlagSet ==
  ASSUME TypeOK, MustFail, NEW i \in Workers, Work(i) \/ Schedule(i)
  PROVE  /\ unpushed_reported => unpushed_reported'
         /\ ~unpushed_reported => GuardThrows(i) \/ (~unpushed_reported' /\ ~GuardPasses(i))
<1>1. CASE GuardPasses(i) \/ GuardThrows(i)
  BY <1>1 DEF GuardPasses, GuardThrows, FirstReport, Exchange, MustFail
<1>2. CASE ~(GuardPasses(i) \/ GuardThrows(i))
  <2>1. UNCHANGED unpushed_reported
    BY <1>2 DEF Work, Schedule, NextPartition, QueueEmpty, Record,
       OpenCursor, OpenCursorFails, RecordOpenError, AddOpenTime, UpdateOpenTotal, SkipRow,
       StopAtLimit, AppendRow, FetchThrows, EndOfCursor, FlushRows, FlushBytes, FlushPool,
       FlushFetchTime, ReturnChunk, RecordScanError, TearDownCursor, ReleaseConnection,
       InitLocal, InitLocalFails, Scan, Local, Recording
  <2> QED BY <1>2, <2>1
<1> QED BY <1>1, <1>2

\* The first moves of a worker.
LEMMA FirstMoves ==
  ASSUME TypeOK, WorkersInv, NEW i \in Workers, Work(i) \/ Schedule(i), status = "running",
         partitions > 0, next_partition = 0, Untouched(w[i])
  PROVE  \/ Untouched(w'[i]) /\ next_partition' = 0 /\ UNCHANGED unpushed_reported
         \/ w'[i].pc = "record" /\ UNCHANGED unpushed_reported
<1>0. w[i] \in Worker /\ VectorSize # 0 /\ w \in [Workers -> Worker]
  BY ScanAssumption DEF WorkersInv
<1>1. CASE InitLocal(i) \/ InitLocalFails(i)
  <2>1. w[i].pc = "unstarted" /\ UNCHANGED <<next_partition, unpushed_reported>>
    BY <1>1 DEF InitLocal, InitLocalFails, Go, Goto, Local
  <2>2. ~w[i].cursor /\ w[i].chunk = <<>>
    BY <2>1 DEF Untouched
  <2>3. \/ w'[i] = [w[i] EXCEPT !.pc = "scan", !.conn = TRUE]
        \/ w'[i] = [w[i] EXCEPT !.pc = "threw"]
    BY <1>0, <1>1 DEF InitLocal, InitLocalFails, Go, Goto
  <2>4. Untouched(w'[i])
    BY <1>0, <2>2, <2>3 DEF Untouched, Worker
  <2> QED BY <2>1, <2>4
<1>2. CASE Scan(i)
  <2>1. w[i].pc = "scan" /\ w'[i] = Loop(w[i]) /\ UNCHANGED <<next_partition, unpushed_reported>>
    BY <1>0, <1>2 DEF Scan, Go, Local
  <2>2. ~w[i].cursor /\ w[i].chunk = <<>>
    BY <2>1 DEF Untouched
  <2>3. Len(w[i].chunk) # VectorSize
    BY <1>0, <2>2
  <2>4. w'[i] = [w[i] EXCEPT !.pc = "pop"]
    BY <2>1, <2>2, <2>3 DEF Loop
  <2>5. Untouched(w'[i])
    BY <1>0, <2>2, <2>4 DEF Untouched, Worker
  <2> QED BY <2>1, <2>5
<1>3. CASE NextPartition(i)
  <2>1. UNCHANGED unpushed_reported
    BY <1>3 DEF NextPartition
  <2>2. w'[i] = [w[i] EXCEPT !.pc = "record", !.part = next_partition]
    BY <1>0, <1>3 DEF NextPartition, Go
  <2>3. w'[i].pc = "record"
    BY <1>0, <2>2 DEF Worker
  <2> QED BY <2>1, <2>3
<1>4. ~QueueEmpty(i)
  BY DEF QueueEmpty, TypeOK
<1> QED BY <1>1, <1>2, <1>3, <1>4, StepFrom DEF Untouched

LEMMA WorkKeepsPending ==
  ASSUME TypeOK, WorkersInv, MustFail, status = "running", partitions > 0, Pending,
         NEW i \in Workers, Work(i) \/ Schedule(i)
  PROVE  Pending'
<1>0. /\ w \in [Workers -> Worker] /\ unpushed_reported \in BOOLEAN
      /\ \A j \in Workers \ {i} : w'[j] = w[j]
  BY OneMoves DEF WorkersInv, TypeOK
<1>1. GuardThrows(i) => w'[i].pc = "scan_error" /\ unpushed_reported'
  <2>1. GuardThrows(i) => w'[i] = [w[i] EXCEPT !.pc = "scan_error"] /\ unpushed_reported'
    BY <1>0 DEF GuardThrows, Goto, Go, Exchange, FirstReport
  <2> QED BY <1>0, <2>1 DEF Worker
<1>2. RecordScanError(i) => w'[i].pc = "threw"
  <2>1. RecordScanError(i) => w'[i] = [w[i] EXCEPT !.pc = "threw"]
    BY <1>0 DEF RecordScanError, Goto, Go
  <2> QED BY <1>0, <2>1 DEF Worker
<1>3. Record(i) => w'[i].pc = "guard"
  <2>1. Record(i) => w'[i] = [w[i] EXCEPT !.pc = "guard"]
    BY <1>0 DEF Record, Goto, Go
  <2> QED BY <1>0, <2>1 DEF Worker
<1>4. CASE unpushed_reported
  <2>1. PICK j \in Workers : w[j].pc \in {"scan_error", "threw"}
    BY <1>4 DEF Pending
  <2>2. w'[j].pc \in {"scan_error", "threw"}
    BY <1>0, <1>2, <2>1, StepFrom
  <2> QED BY <1>4, <2>2, FlagSet DEF Pending
<1>5. CASE ~unpushed_reported /\ \E j \in Workers : w[j].pc \in {"record", "guard", "threw"}
  <2>1. PICK j \in Workers : w[j].pc \in {"record", "guard", "threw"}
    BY <1>5
  <2>2. CASE GuardThrows(i)
    BY <1>1, <2>2 DEF Pending
  <2>3. CASE ~GuardThrows(i)
    <3>1. ~unpushed_reported' /\ ~GuardPasses(i)
      BY <1>5, <2>3, FlagSet
    <3>2. w'[j].pc \in {"record", "guard", "threw"}
      BY <1>0, <1>3, <2>1, <2>3, <3>1, StepFrom
    <3> QED BY <3>1, <3>2 DEF Pending
  <2> QED BY <2>2, <2>3
<1>6. CASE ~unpushed_reported /\ next_partition = 0 /\ \A j \in Workers : Untouched(w[j])
  BY <1>0, <1>6, FirstMoves DEF Pending
<1> QED BY <1>4, <1>5, <1>6 DEF Pending

LEMMA NextErrorInv == ScanInv /\ ErrorInv /\ [Next]_vars => ErrorInv'
<1> SUFFICES ASSUME ScanInv, ErrorInv, [Next]_vars PROVE ErrorInv'
  OBVIOUS
<1>0. TypeOK /\ WorkersInv
  BY DEF ScanInv, TypeOK, WorkersInv
<1>1. CASE Begin
  <2>1. /\ status' = "running" /\ partitions' > 0
        /\ next_partition' = 0 /\ unpushed_reported' = FALSE
        /\ w' = [i \in Workers |-> Idle]
    BY <1>0, <1>1, NextQueue DEF Begin, InitGlobal
  <2>2. Untouched(Idle)
    BY DEF Untouched, Idle
  <2>3. Pending'
    BY <2>1, <2>2 DEF Pending
  <2> QED BY <2>1, <2>3 DEF ErrorInv
<1>2. CASE \E i \in Workers : Work(i) \/ Schedule(i)
  <2>1. PICK i \in Workers : Work(i) \/ Schedule(i)
    BY <1>2
  <2>2. UNCHANGED <<bind, status, partitions>>
    BY <1>0, <2>1, OneMoves
  <2>3. MustFail' = MustFail
    BY <2>2 DEF MustFail, Mode
  <2>4. MustFail /\ status = "running" => Pending'
    BY <1>0, <2>1, WorkKeepsPending DEF ErrorInv
  <2> QED BY <2>2, <2>3, <2>4 DEF ErrorInv
<1>3. CASE Finish
  <2>1. MustFail => FALSE
    <3> SUFFICES ASSUME MustFail PROVE FALSE
      OBVIOUS
    <3>1. Pending
      BY <1>3 DEF Finish, ErrorInv
    <3>2. /\ \A i \in Workers : w[i].pc \in {"unstarted", "exhausted", "release", "closed"}
          /\ \E i \in Workers : w[i].pc # "unstarted"
      BY <1>3 DEF Finish
    <3> QED BY <3>1, <3>2 DEF Pending, Untouched
  <2>2. UNCHANGED bind
    BY <1>3 DEF Finish, EndQuery
  <2> QED BY <2>1, <2>2 DEF ErrorInv, MustFail, Mode
<1>4. CASE Abort
  BY <1>4 DEF Abort, EndQuery, ErrorInv
<1>5. CASE Insert \/ Tick \/ UNCHANGED vars
  <2>1. UNCHANGED <<bind, status, partitions, unpushed_reported, next_partition, w>>
    BY <1>5 DEF Insert, Tick, vars, shared
  <2> QED BY <2>1 DEF ErrorInv, MustFail, Mode, Pending
<1> QED BY <1>1, <1>2, <1>3, <1>4, <1>5 DEF Next

-----------------------------------------------------------------------------
(* Totals.                                                                 *)

LEMMA UnitsFinite ==
  ASSUME NEW S, IsFiniteSet(S), NEW f \in [S -> Nat]
  PROVE  IsFiniteSet(Units(f))
<1> DEFINE h == [i \in S |-> {i} \X (1..f[i])]
           I == {{i} \X (1..f[i]) : i \in S}
<1>1. h \in Surjection(S, I)
  BY DEF Surjection
<1>2. IsFiniteSet(I)
  BY <1>1, FS_Surjection
<1>3. ASSUME NEW i \in S PROVE IsFiniteSet({i} \X (1..f[i]))
  <2>1. 1 \in Int /\ f[i] \in Int
    OBVIOUS
  <2>2. IsFiniteSet(1..f[i])
    BY <2>1, FS_Interval
  <2> QED BY <2>2, FS_Singleton, FS_Product
<1>4. \A u \in I : IsFiniteSet(u)
  BY <1>3
<1>5. Units(f) = UNION I
  BY DEF Units
<1> HIDE DEF I
<1> QED BY <1>2, <1>4, <1>5, FS_UNION

\* A total changes as one of its values does.
LEMMA TotalChanges ==
  ASSUME NEW S, IsFiniteSet(S), NEW f \in [S -> Nat], NEW g \in [S -> Nat],
         NEW i \in S, \A j \in S \ {i} : g[j] = f[j]
  PROVE  Total(f) \in Nat /\ Total(g) \in Nat /\ Total(g) + f[i] = Total(f) + g[i]
<1> DEFINE Rest == {u \in Units(f) : u[1] # i}
<1>1. \A j \in S : \A n : <<j, n>> \in Units(f) <=> n \in 1..f[j]
  BY DEF Units
<1>2. \A j \in S : \A n : <<j, n>> \in Units(g) <=> n \in 1..g[j]
  BY DEF Units
<1>3. \A u \in Units(f) \cup Units(g) : \E j \in S, n \in Nat : u = <<j, n>>
  BY DEF Units
<1>4. Rest \cup ({i} \X (1..f[i])) = Units(f)
  BY <1>1, <1>3
<1>5. Rest \cup ({i} \X (1..g[i])) = Units(g)
  BY <1>1, <1>2, <1>3
<1>6. Rest \cap ({i} \X (1..f[i])) = {} /\ Rest \cap ({i} \X (1..g[i])) = {}
  OBVIOUS
<1>7. IsFiniteSet(Rest) /\ Cardinality(Rest) \in Nat
  BY UnitsFinite, FS_Subset, FS_CardinalityType
<1> HIDE DEF Rest
<1>8. ASSUME NEW n \in Nat
      PROVE  IsFiniteSet({i} \X (1..n)) /\ Cardinality({i} \X (1..n)) = n
  <2>1. IsFiniteSet({i}) /\ Cardinality({i}) = 1
    BY FS_Singleton
  <2>2. 1 \in Int /\ n \in Int /\ (IF 1 > n THEN 0 ELSE n - 1 + 1) = n
    OBVIOUS
  <2>3. IsFiniteSet(1..n) /\ Cardinality(1..n) = n
    BY ONLY <2>2, FS_Interval
  <2>4. 1 * n = n
    OBVIOUS
  <2>5. Cardinality({i} \X (1..n)) = Cardinality({i}) * Cardinality(1..n)
    BY ONLY <2>1, <2>3, FS_Product
  <2>6. IsFiniteSet({i} \X (1..n))
    BY ONLY <2>1, <2>3, FS_Product
  <2> QED BY <2>1, <2>3, <2>4, <2>5, <2>6
<1>9. ASSUME NEW n \in Nat, Rest \cap ({i} \X (1..n)) = {}
      PROVE  Cardinality(Rest \cup ({i} \X (1..n))) = Cardinality(Rest) + n
  <2> DEFINE P == {i} \X (1..n)
  <2>1. IsFiniteSet(P) /\ Cardinality(P) = n /\ Cardinality(Rest \cap P) = 0
    BY <1>8, <1>9, FS_EmptySet
  <2> HIDE DEF P
  <2>2. Cardinality(Rest \cup P) = Cardinality(Rest) + Cardinality(P) - Cardinality(Rest \cap P)
    BY ONLY <1>7, <2>1, FS_Union
  <2> QED BY <1>7, <2>1, <2>2 DEF P
<1>10. Total(f) = Cardinality(Rest) + f[i]
  BY <1>4, <1>6, <1>9 DEF Total
<1>11. Total(g) = Cardinality(Rest) + g[i]
  BY <1>5, <1>6, <1>9 DEF Total
<1>12. f[i] \in Nat /\ g[i] \in Nat
  OBVIOUS
<1> QED BY <1>7, <1>10, <1>11, <1>12

LEMMA TotalZero ==
  ASSUME NEW S, NEW f \in [S -> Nat], \A i \in S : f[i] = 0
  PROVE  Total(f) = 0
<1>1. Units(f) = {}
  BY DEF Units
<1> QED BY <1>1, FS_EmptySet DEF Total
\* Values of 0 do not count.
LEMMA TotalOfPart ==
  ASSUME NEW S, NEW R, S \subseteq R, NEW f \in [S -> Nat], NEW g \in [R -> Nat],
         \A i \in R : g[i] = IF i \in S THEN f[i] ELSE 0
  PROVE  Total(g) = Total(f)
<1>1. \A j, n : <<j, n>> \in Units(f) <=> j \in S /\ n \in 1..f[j]
  BY DEF Units
<1>2. \A j, n : <<j, n>> \in Units(g) <=> j \in R /\ n \in 1..g[j]
  BY DEF Units
<1>3. \A u \in Units(f) : \E j \in S, n \in Nat : u = <<j, n>>
  BY DEF Units
<1>4. \A u \in Units(g) : \E j \in R, n \in Nat : u = <<j, n>>
  BY DEF Units
<1>5. ASSUME NEW j, NEW n
      PROVE  (j \in R /\ n \in 1..g[j]) <=> (j \in S /\ n \in 1..f[j])
  <2>1. CASE j \in S
    BY <2>1
  <2>2. CASE j \in R /\ j \notin S
    <3>1. g[j] = 0
      BY <2>2
    <3>2. n \notin 1..0
      OBVIOUS
    <3> QED BY <2>2, <3>1, <3>2
  <2>3. CASE j \notin R
    BY <2>3
  <2> QED BY <2>1, <2>2, <2>3
<1>6. Units(g) = Units(f)
  BY <1>1, <1>2, <1>3, <1>4, <1>5
<1> QED BY <1>6 DEF Total

\* A total does not depend on where the numbering starts.
LEMMA TotalShifted ==
  ASSUME NEW d \in Int, NEW n \in Nat, NEW f \in [1..n -> Nat],
         NEW g \in [(d + 1)..(d + n) -> Nat], \A k \in 1..n : g[d + k] = f[k]
  PROVE  Total(g) = Total(f)
<1> DEFINE h == [u \in Units(f) |-> <<d + u[1], u[2]>>]
<1>1. \A k, m : <<k, m>> \in Units(f) <=> k \in 1..n /\ m \in 1..f[k]
  BY DEF Units
<1>2. \A k, m : <<k, m>> \in Units(g) <=> k \in (d + 1)..(d + n) /\ m \in 1..g[k]
  BY DEF Units
<1>3. \A u \in Units(f) : \E k \in 1..n, m \in Nat : u = <<k, m>> /\ m \in 1..f[k]
  BY DEF Units
<1>4. \A u \in Units(g) : \E k \in (d + 1)..(d + n), m \in Nat : u = <<k, m>> /\ m \in 1..g[k]
  BY DEF Units
<1>5. ASSUME NEW u \in Units(f) PROVE h[u] \in Units(g)
  <2>1. PICK k \in 1..n, m \in Nat : u = <<k, m>> /\ m \in 1..f[k]
    BY <1>3
  <2>2. h[u] = <<d + k, m>>
    BY <2>1
  <2>3. d + k \in (d + 1)..(d + n) /\ m \in 1..g[d + k]
    BY <2>1
  <2> QED BY <1>2, <2>2, <2>3
<1>6. ASSUME NEW u \in Units(f), NEW v \in Units(f), h[u] = h[v] PROVE u = v
  <2>1. PICK k \in 1..n, m \in Nat : u = <<k, m>>
    BY <1>3
  <2>2. PICK l \in 1..n, o \in Nat : v = <<l, o>>
    BY <1>3
  <2>3. h[u] = <<d + k, m>> /\ h[v] = <<d + l, o>>
    BY <2>1, <2>2
  <2>4. d + k = d + l /\ m = o
    BY <1>6, <2>3
  <2>5. k = l
    BY <2>4
  <2> QED BY <2>1, <2>2, <2>4, <2>5
<1>7. ASSUME NEW v \in Units(g) PROVE \E u \in Units(f) : h[u] = v
  <2>1. PICK k \in (d + 1)..(d + n), m \in Nat : v = <<k, m>> /\ m \in 1..g[k]
    BY <1>4
  <2>2. PICK l \in 1..n : k = d + l
    <3>1. k - d \in 1..n /\ k = d + (k - d)
      OBVIOUS
    <3> QED BY <3>1
  <2>3. <<l, m>> \in Units(f)
    BY <1>1, <2>1, <2>2
  <2>4. h[<<l, m>>] = <<d + l, m>>
    BY <2>3
  <2> QED BY <2>1, <2>2, <2>3, <2>4
<1>8. h \in Bijection(Units(f), Units(g))
  BY <1>5, <1>6, <1>7 DEF Bijection, Injection, Surjection, IsInjective
<1>9. IsFiniteSet(Units(f))
  <2>1. IsFiniteSet(1..n)
    BY FS_Interval
  <2> QED BY <2>1, UnitsFinite
<1> HIDE DEF h
<1>10. ExistsBijection(Units(f), Units(g))
  BY <1>8 DEF ExistsBijection
<1> QED BY <1>9, <1>10, FS_Bijection DEF Total

\* One more for each of some different indices.
OneMoreEach(S, f, g, c) ==
  /\ \A m, n \in 1..Len(c) : c[m] = c[n] => m = n
  /\ \A k \in S : g[k] = IF \E n \in 1..Len(c) : c[n] = k THEN f[k] + 1 ELSE f[k]

LEMMA TotalOfMore ==
  ASSUME NEW S, IsFiniteSet(S), NEW f \in [S -> Nat], NEW g \in [S -> Nat],
         NEW c \in Seq(S), OneMoreEach(S, f, g, c)
  PROVE  Total(f) \in Nat /\ Total(g) = Total(f) + Len(c)
<1> USE DEF OneMoreEach
<1> DEFINE h == [n \in 1..Len(c) |-> <<c[n], f[c[n]] + 1>>]
           New == {<<c[n], f[c[n]] + 1>> : n \in 1..Len(c)}
<1>0. \A n \in 1..Len(c) : c[n] \in S /\ f[c[n]] \in Nat
  OBVIOUS
<1>1. \A k, m : <<k, m>> \in Units(f) <=> k \in S /\ m \in 1..f[k]
  BY DEF Units
<1>2. \A k, m : <<k, m>> \in Units(g) <=> k \in S /\ m \in 1..g[k]
  BY DEF Units
<1>3. \A u \in Units(f) \cup Units(g) : \E k \in S, m \in Nat : u = <<k, m>>
  BY DEF Units
<1>4. ASSUME NEW k \in S, NEW m \in Nat
      PROVE  <<k, m>> \in Units(g) <=> <<k, m>> \in Units(f) \/ <<k, m>> \in New
  <2>1. f[k] \in Nat
    OBVIOUS
  <2>2. CASE \E n \in 1..Len(c) : c[n] = k
    <3>1. PICK n \in 1..Len(c) : c[n] = k
      BY <2>2
    <3>2. g[k] = f[k] + 1
      BY <2>2
    <3>3. <<k, m>> \in New <=> m = f[k] + 1
      BY <3>1
    <3>4. m \in 1..(f[k] + 1) <=> m \in 1..f[k] \/ m = f[k] + 1
      BY <2>1
    <3> HIDE DEF New
    <3> QED BY <1>1, <1>2, <3>2, <3>3, <3>4
  <2>3. CASE ~\E n \in 1..Len(c) : c[n] = k
    <3>1. <<k, m>> \notin New
      BY <2>3
    <3>2. g[k] = f[k]
      BY <2>3
    <3> HIDE DEF New
    <3> QED BY <1>1, <1>2, <3>1, <3>2
  <2> QED BY <2>2, <2>3
<1>5. \A u \in New : \E k \in S, m \in Nat : u = <<k, m>> /\ m = f[k] + 1
  BY <1>0
<1>6. Units(g) = Units(f) \cup New
  <2> HIDE DEF New
  <2> QED BY <1>3, <1>4, <1>5
<1>7. Units(f) \cap New = {}
  <2> HIDE DEF New
  <2> SUFFICES ASSUME NEW u \in New PROVE u \notin Units(f)
    OBVIOUS
  <2>1. PICK k \in S, m \in Nat : u = <<k, m>> /\ m = f[k] + 1
    BY <1>5
  <2>2. f[k] \in Nat /\ m \notin 1..f[k]
    BY <2>1
  <2> QED BY <1>1, <2>1, <2>2
<1>8. h \in Bijection(1..Len(c), New)
  <2>1. \A m, n \in 1..Len(c) : h[m] = h[n] => m = n
    OBVIOUS
  <2>2. h \in [1..Len(c) -> New] /\ \A u \in New : \E n \in 1..Len(c) : h[n] = u
    OBVIOUS
  <2> HIDE DEF h, New
  <2> QED BY <2>1, <2>2 DEF Bijection, Injection, Surjection, IsInjective
<1> HIDE DEF h, New
<1>9. Len(c) \in Nat /\ IsFiniteSet(1..Len(c)) /\ Cardinality(1..Len(c)) = Len(c)
  <2>1. Len(c) \in Nat /\ 1 \in Int /\ Len(c) \in Int
    OBVIOUS
  <2>2. (IF 1 > Len(c) THEN 0 ELSE Len(c) - 1 + 1) = Len(c)
    BY <2>1
  <2> QED BY ONLY <2>1, <2>2, FS_Interval
<1>10. IsFiniteSet(New) /\ Cardinality(New) = Len(c)
  <2>1. ExistsBijection(1..Len(c), New)
    BY <1>8 DEF ExistsBijection
  <2> QED BY ONLY <1>9, <2>1, FS_Bijection
<1>11. IsFiniteSet(Units(f)) /\ Cardinality(Units(f)) \in Nat
  BY UnitsFinite, FS_CardinalityType
<1>12. Cardinality(Units(f) \cap New) = 0
  BY <1>7, FS_EmptySet
<1>13. Cardinality(Units(f) \cup New) = Cardinality(Units(f)) + Cardinality(New) - 0
  BY ONLY <1>10, <1>11, <1>12, FS_Union
<1> QED BY <1>6, <1>9, <1>10, <1>11, <1>13 DEF Total

-----------------------------------------------------------------------------
(* Every row fetched is counted once: a step of a worker moves its count   *)
(* from the cursor to the worker and on to the pool, and only Fetch adds   *)
(* to it.                                                                  *)

SameCount(r, s) == r.rows_read = s.rows_read /\ Bytes(r) = Bytes(s)

LEMMA GoneToCount ==
  ASSUME NEW r \in Worker, NEW p \in Steps
  PROVE  [r EXCEPT !.pc = p] \in Worker /\ SameCount([r EXCEPT !.pc = p], r)
BY DEF Worker, SameCount, Bytes

LEMMA TakeBytesCount ==
  ASSUME NEW r \in Worker
  PROVE  TakeBytes(r) \in Worker /\ SameCount(TakeBytes(r), r)
<1> DEFINE b == r.bytes_fetched + r.cursor_bytes
           t == [r EXCEPT !.bytes_fetched = b, !.cursor_bytes = 0]
<1>1. b \in Nat
  BY DEF Worker
<1>2. TakeBytes(r) = t
  BY DEF TakeBytes, Worker
<1>3. Bytes(r) = b
  BY DEF Bytes
<1> HIDE DEF b
<1>4. t \in Worker
  BY <1>1, SetBytes
<1>5. t.rows_read = r.rows_read /\ t.bytes_fetched = b /\ t.cursor_bytes = 0
  BY DEF Worker
<1> HIDE DEF t
<1> QED BY <1>1, <1>2, <1>3, <1>4, <1>5 DEF SameCount, Bytes

LEMMA CloseCursorCount ==
  ASSUME NEW r \in Worker
  PROVE  CloseCursor(r) \in Worker /\ SameCount(CloseCursor(r), r)
<1> DEFINE t == TakeBytes(r)
<1>1. t \in Worker /\ SameCount(t, r)
  BY TakeBytesCount
<1>2. CloseCursor(r) = [t EXCEPT !.cursor = FALSE, !.todo = {}]
  BY DEF CloseCursor
<1> HIDE DEF t
<1>3. CloseCursor(r) \in Worker
  BY <1>1, <1>2 DEF Worker
<1>4. /\ CloseCursor(r).rows_read = t.rows_read
      /\ CloseCursor(r).bytes_fetched = t.bytes_fetched
      /\ CloseCursor(r).cursor_bytes = t.cursor_bytes
  BY <1>1, <1>2 DEF Worker
<1> QED BY <1>1, <1>3, <1>4 DEF SameCount, Bytes

LEMMA LeaveLoopCount ==
  ASSUME NEW r \in Worker
  PROVE  LeaveLoop(r) \in Worker /\ SameCount(LeaveLoop(r), r)
<1> DEFINE t == TakeBytes(r)
           p == IF t.chunk # <<>> THEN "flush_rows" ELSE AfterRows(t)
<1>1. t \in Worker /\ SameCount(t, r)
  BY TakeBytesCount
<1>2. LeaveLoop(r) = [t EXCEPT !.pc = p]
  BY DEF LeaveLoop
<1> HIDE DEF t
<1>3. p \in Steps
  BY DEF AfterRows, AfterBytes, Steps
<1> HIDE DEF p
<1> QED BY <1>1, <1>2, <1>3, GoneToCount DEF SameCount

LEMMA LoopCount ==
  ASSUME NEW r \in Worker, now \in Nat
  PROVE  Loop(r) \in Worker /\ SameCount(Loop(r), r)
<1>1. CASE Len(r.chunk) = VectorSize
  BY <1>1, LeaveLoopCount DEF Loop
<1>2. CASE Len(r.chunk) # VectorSize /\ r.cursor
  <2>1. Loop(r) = [r EXCEPT !.pc = "fetch", !.t0 = now]
    BY <1>2 DEF Loop
  <2> QED BY <2>1 DEF Worker, Steps, SameCount, Bytes
<1>3. CASE Len(r.chunk) # VectorSize /\ ~r.cursor
  <2>1. Loop(r) = [r EXCEPT !.pc = "pop"] /\ "pop" \in Steps
    BY <1>3 DEF Loop, Steps
  <2> QED BY <2>1, GoneToCount
<1> QED BY <1>1, <1>2, <1>3

\* One more row is one more unit.
LEMMA FetchedCount ==
  ASSUME NEW i \in Workers, Good(w[i]), now \in Nat, NEW k \in w[i].todo
  PROVE  /\ Fetched(i, k) \in Worker
         /\ Fetched(i, k).rows_read = w[i].rows_read + 1
         /\ Bytes(Fetched(i, k)) = Bytes(w[i]) + 1
<1>1. Fetched(i, k) \in Worker
  BY FetchedGood DEF Good
<1>2. w[i] \in Worker
  BY DEF Good
<1>3. /\ Fetched(i, k).rows_read = w[i].rows_read + 1
      /\ Fetched(i, k).bytes_fetched = w[i].bytes_fetched
      /\ Fetched(i, k).cursor_bytes = w[i].cursor_bytes + 1
  BY <1>2 DEF Fetched, Worker
<1>4. w[i].bytes_fetched \in Nat /\ w[i].cursor_bytes \in Nat
  BY <1>2 DEF Worker
<1> QED BY <1>1, <1>3, <1>4 DEF Bytes

\* What a step of a worker does to the counts.
BytesKept(i) ==
  \E d \in {0, 1} :
    /\ w'[i].rows_read = w[i].rows_read + d
    /\ pool_bytes' + Bytes(w'[i]) = pool_bytes + Bytes(w[i]) + d

LEMMA SameIsKept ==
  ASSUME NEW i \in Workers, w[i] \in Worker, pool_bytes \in Nat, UNCHANGED pool_bytes,
         SameCount(w'[i], w[i])
  PROVE  BytesKept(i)
<1>1. w[i].rows_read \in Nat /\ Bytes(w[i]) \in Nat
  BY DEF Worker, Bytes
<1>2. /\ w'[i].rows_read = w[i].rows_read + 0
      /\ pool_bytes' + Bytes(w'[i]) = pool_bytes + Bytes(w[i]) + 0
  BY <1>1 DEF SameCount
<1> QED BY <1>2 DEF BytesKept

LEMMA OneIsKept ==
  ASSUME NEW i \in Workers, w[i] \in Worker, pool_bytes \in Nat, UNCHANGED pool_bytes,
         w'[i].rows_read = w[i].rows_read + 1, Bytes(w'[i]) = Bytes(w[i]) + 1
  PROVE  BytesKept(i)
<1>1. w[i].rows_read \in Nat /\ Bytes(w[i]) \in Nat
  BY SMTT(30) DEF Worker, Bytes
<1>2. /\ w'[i].rows_read = w[i].rows_read + 1
      /\ pool_bytes' + Bytes(w'[i]) = pool_bytes + Bytes(w[i]) + 1
  BY <1>1
<1> QED BY <1>2 DEF BytesKept

LEMMA WorkKeepsBytes ==
  ASSUME TypeOK, WorkersInv, Attached, NEW i \in Workers, Work(i) \/ Schedule(i)
  PROVE  BytesKept(i)
<1>0. /\ w \in [Workers -> Worker] /\ w[i] \in Worker /\ Good(w[i])
      /\ now \in Nat /\ pool_bytes \in Nat
  BY DEF WorkersInv, TypeOK
<1>1. ASSUME NEW from, NEW r, Go(i, from, r) PROVE w'[i] = r
  BY <1>0, <1>1 DEF Go
<1>2. ASSUME NEW from, NEW to \in Steps, Goto(i, from, to) PROVE SameCount(w'[i], w[i])
  <2>1. w'[i] = [w[i] EXCEPT !.pc = to]
    BY <1>1, <1>2 DEF Goto
  <2> QED BY <1>0, <2>1, GoneToCount
<1>3. CASE \/ InitLocalFails(i) \/ Record(i) \/ GuardThrows(i) \/ OpenCursorFails(i)
           \/ RecordOpenError(i) \/ AddOpenTime(i) \/ FlushRows(i)
           \/ FlushFetchTime(i) \/ RecordScanError(i)
  <2>1. PICK from, to \in Steps : Goto(i, from, to)
    BY <1>3 DEF InitLocalFails, Record, GuardThrows, OpenCursorFails, RecordOpenError,
       AddOpenTime, FlushRows, FlushFetchTime, RecordScanError, AfterRows, AfterBytes, Steps
  <2>2. UNCHANGED pool_bytes
    BY <1>3 DEF InitLocalFails, Record, GuardThrows, OpenCursorFails, RecordOpenError,
       AddOpenTime, FlushRows, FlushFetchTime, RecordScanError, Recording
  <2> QED BY <1>0, <1>2, <2>1, <2>2, SameIsKept
<1>4. CASE Scan(i) \/ QueueEmpty(i) \/ UpdateOpenTotal(i)
  <2>1. w'[i] \in {Loop(w[i]), LeaveLoop(w[i])} /\ UNCHANGED pool_bytes
    BY <1>1, <1>4 DEF Scan, QueueEmpty, UpdateOpenTotal, Local, Recording
  <2>2. SameCount(w'[i], w[i])
    BY <1>0, <2>1, LoopCount, LeaveLoopCount
  <2> QED BY <1>0, <2>1, <2>2, SameIsKept
<1>5. CASE InitLocal(i) \/ NextPartition(i) \/ GuardPasses(i) \/ OpenCursor(i)
           \/ ReturnChunk(i) \/ ReleaseConnection(i)
  <2>1. UNCHANGED pool_bytes
    BY <1>5 DEF InitLocal, NextPartition, GuardPasses, OpenCursor, ReturnChunk,
       ReleaseConnection, Local
  <2>2. \/ w'[i] = [w[i] EXCEPT !.pc = "scan", !.conn = TRUE]
        \/ w'[i] = [w[i] EXCEPT !.pc = "record", !.part = next_partition]
        \/ w'[i] = [w[i] EXCEPT !.pc = "open", !.t0 = now]
        \/ \E rows, us : w'[i] = [w[i] EXCEPT !.pc = "open_us", !.cursor = TRUE,
                                              !.todo = rows, !.open_us = us]
        \/ \E p : w'[i] = [w[i] EXCEPT !.pc = p, !.chunk = <<>>, !.fetch_us = 0]
        \/ w'[i] = [w[i] EXCEPT !.pc = "closed", !.conn = FALSE]
    BY <1>1, <1>5 DEF InitLocal, NextPartition, GuardPasses, OpenCursor, ReturnChunk,
       ReleaseConnection
  <2>3. SameCount(w'[i], w[i])
    BY <1>0, <2>2 DEF Worker, SameCount, Bytes
  <2> QED BY <1>0, <2>1, <2>3, SameIsKept
<1>6. CASE SkipRow(i) \/ AppendRow(i)
  <2>1. UNCHANGED pool_bytes
    BY <1>6 DEF SkipRow, AppendRow, Local
  <2>2. PICK k \in w[i].todo :
          \/ w'[i] = Loop([Fetched(i, k) EXCEPT !.rows_skipped = @ + 1])
          \/ w'[i] = Loop([Fetched(i, k) EXCEPT
                             !.chunk = Append(@, k),
                             !.rows_emitted = IF LocalSlice THEN @ + 1 ELSE @])
    BY <1>1, <1>6 DEF SkipRow, AppendRow
  <2> DEFINE f == Fetched(i, k)
  <2>3. f \in Worker /\ f.rows_read = w[i].rows_read + 1 /\ Bytes(f) = Bytes(w[i]) + 1
    BY <1>0, FetchedCount
  <2>4. k \in Rows
    BY <1>0, <2>2 DEF Worker
  <2>5. \E s \in Nat, c \in Seq(Rows), e \in Nat :
          w'[i] = Loop([f EXCEPT !.rows_skipped = s, !.chunk = c, !.rows_emitted = e])
    <3> HIDE DEF f
    <3>1. /\ f.rows_skipped \in Nat /\ f.rows_emitted \in Nat /\ f.chunk \in Seq(Rows)
          /\ f.rows_skipped + 1 \in Nat /\ f.rows_emitted + 1 \in Nat
          /\ Append(f.chunk, k) \in Seq(Rows)
      BY <2>3, <2>4 DEF Worker
    <3>2. [f EXCEPT !.rows_skipped = @ + 1] =
            [f EXCEPT !.rows_skipped = f.rows_skipped + 1, !.chunk = f.chunk,
                      !.rows_emitted = f.rows_emitted]
      BY <2>3 DEF Worker
    <3> DEFINE e == IF LocalSlice THEN f.rows_emitted + 1 ELSE f.rows_emitted
    <3>3. [f EXCEPT !.chunk = Append(@, k),
                    !.rows_emitted = IF LocalSlice THEN @ + 1 ELSE @] =
            [f EXCEPT !.rows_skipped = f.rows_skipped, !.chunk = Append(f.chunk, k),
                      !.rows_emitted = e]
      BY <2>3 DEF Worker
    <3>4. e \in Nat
      BY <3>1
    <3> HIDE DEF e
    <3>5. \/ w'[i] = Loop([f EXCEPT !.rows_skipped = @ + 1])
          \/ w'[i] = Loop([f EXCEPT !.chunk = Append(@, k),
                                    !.rows_emitted = IF LocalSlice THEN @ + 1 ELSE @])
      BY <2>2 DEF f
    <3>6. CASE w'[i] = Loop([f EXCEPT !.rows_skipped = @ + 1])
      <4>1. w'[i] = Loop([f EXCEPT !.rows_skipped = f.rows_skipped + 1, !.chunk = f.chunk,
                                   !.rows_emitted = f.rows_emitted])
        BY ONLY <3>2, <3>6
      <4> QED BY ONLY <3>1, <4>1, Zenon
    <3>7. CASE w'[i] = Loop([f EXCEPT !.chunk = Append(@, k),
                                      !.rows_emitted = IF LocalSlice THEN @ + 1 ELSE @])
      <4>1. w'[i] = Loop([f EXCEPT !.rows_skipped = f.rows_skipped,
                                   !.chunk = Append(f.chunk, k), !.rows_emitted = e])
        BY ONLY <3>3, <3>7
      <4> QED BY ONLY <3>1, <3>4, <4>1, Zenon
    <3> QED BY <3>5, <3>6, <3>7
  <2> HIDE DEF f
  <2>6. PICK s \in Nat, c \in Seq(Rows), e \in Nat :
          w'[i] = Loop([f EXCEPT !.rows_skipped = s, !.chunk = c, !.rows_emitted = e])
    BY <2>5
  <2> DEFINE g == [f EXCEPT !.rows_skipped = s, !.chunk = c, !.rows_emitted = e]
  <2>7. g \in Worker /\ SameCount(g, f)
    BY <2>3 DEF Worker, SameCount, Bytes
  <2> HIDE DEF g
  <2>8. SameCount(w'[i], g)
    BY <1>0, <2>6, <2>7, LoopCount DEF g
  <2> QED BY <1>0, <2>1, <2>3, <2>7, <2>8, OneIsKept DEF SameCount
<1>7. CASE StopAtLimit(i)
  <2>1. UNCHANGED pool_bytes
    BY <1>7 DEF StopAtLimit, Local
  <2>2. PICK k \in w[i].todo : w'[i] = LeaveLoop(CloseCursor(Fetched(i, k)))
    BY <1>1, <1>7 DEF StopAtLimit
  <2> DEFINE f == Fetched(i, k)
  <2>3. f \in Worker /\ f.rows_read = w[i].rows_read + 1 /\ Bytes(f) = Bytes(w[i]) + 1
    BY <1>0, FetchedCount
  <2> HIDE DEF f
  <2>4. CloseCursor(f) \in Worker /\ SameCount(CloseCursor(f), f)
    BY <2>3, CloseCursorCount
  <2>5. SameCount(w'[i], CloseCursor(f))
    BY <2>2, <2>4, LeaveLoopCount DEF f
  <2> QED BY <1>0, <2>1, <2>3, <2>4, <2>5, OneIsKept DEF SameCount
<1>8. CASE FetchThrows(i)
  <2>1. UNCHANGED pool_bytes
    BY <1>8 DEF FetchThrows
  <2>2. CASE Goto(i, "fetch", "scan_error")
    <3>1. "scan_error" \in Steps
      BY DEF Steps
    <3> QED BY <1>0, <1>2, <2>1, <2>2, <3>1, SameIsKept
  <2>3. CASE \E k \in w[i].todo : Go(i, "fetch", [Fetched(i, k) EXCEPT !.pc = "scan_error"])
    <3>1. PICK k \in w[i].todo : w'[i] = [Fetched(i, k) EXCEPT !.pc = "scan_error"]
      BY <1>1, <2>3
    <3> DEFINE f == Fetched(i, k)
    <3>2. f \in Worker /\ f.rows_read = w[i].rows_read + 1 /\ Bytes(f) = Bytes(w[i]) + 1
      BY <1>0, FetchedCount
    <3> HIDE DEF f
    <3>3. "scan_error" \in Steps
      BY DEF Steps
    <3>4. SameCount(w'[i], f)
      BY <3>1, <3>2, <3>3, GoneToCount DEF f
    <3> QED BY <1>0, <2>1, <3>2, <3>4, OneIsKept DEF SameCount
  <2> QED BY <1>8, <2>2, <2>3 DEF FetchThrows
<1>9. CASE EndOfCursor(i)
  <2>1. UNCHANGED pool_bytes
    BY <1>9 DEF EndOfCursor, Local
  <2> DEFINE u == w[i].fetch_us + (now - w[i].t0)
             g == [w[i] EXCEPT !.fetch_us = u]
  <2>2. u \in Nat
    <3>1. w[i].fetch_us \in Nat /\ w[i].t0 \in Nat /\ w[i].t0 <= now
      BY <1>0 DEF Worker, Good
    <3> QED BY <1>0, <3>1
  <2>3. w'[i] = Loop(CloseCursor(g))
    BY <1>0, <1>1, <1>9 DEF EndOfCursor, Worker
  <2> HIDE DEF u
  <2>4. g \in Worker /\ SameCount(g, w[i])
    BY <1>0, <2>2 DEF Worker, SameCount, Bytes
  <2> HIDE DEF g
  <2>5. CloseCursor(g) \in Worker /\ SameCount(CloseCursor(g), g)
    BY <2>4, CloseCursorCount
  <2>6. SameCount(w'[i], CloseCursor(g))
    BY <1>0, <2>3, <2>5, LoopCount
  <2> QED BY <1>0, <2>1, <2>4, <2>5, <2>6, SameIsKept DEF SameCount
<1>10. CASE FlushBytes(i)
  <2>1. w'[i] = [w[i] EXCEPT !.pc = "flush_pool"] /\ UNCHANGED pool_bytes
    BY <1>1, <1>10 DEF FlushBytes, Recording
  <2>2. SameCount(w'[i], w[i])
    BY <1>0, <2>1 DEF Worker, SameCount, Bytes
  <2> QED BY <1>0, <2>1, <2>2, SameIsKept
<1>11. CASE FlushPool(i)
  <2> DEFINE p == AfterBytes(w[i])
  <2>1. /\ w'[i] = [w[i] EXCEPT !.pc = p, !.bytes_fetched = 0]
        /\ pool_bytes' = pool_bytes + w[i].bytes_fetched
    BY <1>1, <1>11 DEF FlushPool
  <2> HIDE DEF p
  <2>2. /\ w'[i].rows_read = w[i].rows_read /\ w'[i].bytes_fetched = 0
        /\ w'[i].cursor_bytes = w[i].cursor_bytes
    BY <1>0, <2>1 DEF Worker
  <2>3. w[i].rows_read \in Nat /\ w[i].bytes_fetched \in Nat /\ w[i].cursor_bytes \in Nat
    BY <1>0 DEF Worker
  <2>4. /\ w'[i].rows_read = w[i].rows_read + 0
        /\ pool_bytes' + Bytes(w'[i]) = pool_bytes + Bytes(w[i]) + 0
    BY <1>0, <2>1, <2>2, <2>3 DEF Bytes
  <2> QED BY <2>4 DEF BytesKept
<1>12. CASE TearDownCursor(i)
  <2>1. w'[i] = [CloseCursor(w[i]) EXCEPT !.pc = "release", !.chunk = <<>>] /\ UNCHANGED pool_bytes
    BY <1>1, <1>12 DEF TearDownCursor, Local
  <2> DEFINE c == CloseCursor(w[i])
  <2>2. c \in Worker /\ SameCount(c, w[i])
    BY <1>0, CloseCursorCount
  <2> HIDE DEF c
  <2>3. SameCount(w'[i], c)
    BY <2>1, <2>2 DEF c, Worker, SameCount, Bytes
  <2> QED BY <1>0, <2>1, <2>2, <2>3, SameIsKept DEF SameCount
<1> QED BY <1>3, <1>4, <1>5, <1>6, <1>7, <1>8, <1>9, <1>10, <1>11, <1>12 DEF Work, Schedule

\* Nothing is fetched, and the pool's counter untouched, before the first query.
BytesInv ==
  Attached =>
    /\ query = 0 => status # "running" /\ w = [i \in Workers |-> Idle] /\ pool_bytes = 0
    /\ BytesConserved

RowsRead == [i \in Workers |-> w[i].rows_read]
AllBytes == [i \in Workers |-> Bytes(w[i])]

LEMMA CountsType ==
  ASSUME NEW v \in [Workers -> Worker]
  PROVE  /\ [i \in Workers |-> v[i].rows_read] \in [Workers -> Nat]
         /\ [i \in Workers |-> Bytes(v[i])] \in [Workers -> Nat]
<1>1. \A r \in Worker : r.rows_read \in Nat /\ Bytes(r) \in Nat
  BY DEF Worker, Bytes
<1> QED BY <1>1

\* A step that keeps the bytes keeps the two totals in step.
LEMMA BytesKeptInStep ==
  ASSUME WorkersInv, WorkersInv', NEW i \in Workers, \A j \in Workers \ {i} : w'[j] = w[j],
         BytesKept(i), pool_bytes \in Nat, pool_bytes' \in Nat,
         Total(RowsRead) = pool_bytes + Total(AllBytes)
  PROVE  Total(RowsRead') = pool_bytes' + Total(AllBytes')
<1>1. /\ RowsRead \in [Workers -> Nat] /\ AllBytes \in [Workers -> Nat]
      /\ RowsRead' \in [Workers -> Nat] /\ AllBytes' \in [Workers -> Nat]
  BY CountsType DEF WorkersInv, RowsRead, AllBytes
<1>2. \A j \in Workers : /\ RowsRead[j] = w[j].rows_read /\ AllBytes[j] = Bytes(w[j])
                         /\ RowsRead'[j] = w'[j].rows_read /\ AllBytes'[j] = Bytes(w'[j])
  BY DEF RowsRead, AllBytes
<1>3. \A j \in Workers \ {i} : RowsRead'[j] = RowsRead[j] /\ AllBytes'[j] = AllBytes[j]
  BY <1>2
<1>4. /\ Total(RowsRead) \in Nat /\ Total(RowsRead') \in Nat
      /\ Total(RowsRead') + RowsRead[i] = Total(RowsRead) + RowsRead'[i]
  <2>1. \A j \in Workers \ {i} : RowsRead'[j] = RowsRead[j]
    BY <1>3
  <2> QED BY ONLY <1>1, <2>1, FiniteWorkers, i \in Workers, TotalChanges
<1>5. /\ Total(AllBytes) \in Nat /\ Total(AllBytes') \in Nat
      /\ Total(AllBytes') + AllBytes[i] = Total(AllBytes) + AllBytes'[i]
  <2>1. \A j \in Workers \ {i} : AllBytes'[j] = AllBytes[j]
    BY <1>3
  <2> QED BY ONLY <1>1, <2>1, FiniteWorkers, i \in Workers, TotalChanges
<1>6. PICK d \in {0, 1} : /\ RowsRead'[i] = RowsRead[i] + d
                          /\ pool_bytes' + AllBytes'[i] = pool_bytes + AllBytes[i] + d
  BY <1>2 DEF BytesKept
<1>7. /\ RowsRead[i] \in Nat /\ RowsRead'[i] \in Nat
      /\ AllBytes[i] \in Nat /\ AllBytes'[i] \in Nat
  BY <1>1
<1> HIDE DEF RowsRead, AllBytes
<1> QED BY <1>4, <1>5, <1>6, <1>7

LEMMA InitBytesInv == Init => BytesInv
BY DEF Init, BytesInv, BytesConserved

LEMMA NextBytesInv == ScanInv /\ ScanInv' /\ BytesInv /\ [Next]_vars => BytesInv'
<1> SUFFICES ASSUME ScanInv, ScanInv', BytesInv, [Next]_vars PROVE BytesInv'
  OBVIOUS
<1>0. TypeOK /\ TypeOK' /\ WorkersInv /\ WorkersInv'
  BY DEF ScanInv, TypeOK, WorkersInv
<1>1. CASE Begin
  <2>1. /\ query' = query + 1 /\ w' = [i \in Workers |-> Idle] /\ UNCHANGED <<bind, pool_bytes>>
    BY <1>1 DEF Begin
  <2>2. query \in Nat
    BY <1>0 DEF TypeOK
  <2>3. CASE Attached /\ query = 0
    <3>1. pool_bytes' = 0
      BY <2>1, <2>3 DEF BytesInv
    <3>2. Idle.rows_read = 0 /\ Bytes(Idle) = 0
      BY DEF Idle, Bytes
    <3>3. /\ RowsRead' \in [Workers -> Nat] /\ AllBytes' \in [Workers -> Nat]
          /\ \A i \in Workers : RowsRead'[i] = 0 /\ AllBytes'[i] = 0
      BY <2>1, <3>2 DEF RowsRead, AllBytes
    <3>4. Total(RowsRead') = 0 /\ Total(AllBytes') = 0
      BY <3>3, TotalZero
    <3> QED BY <2>1, <2>3, <3>1, <3>4 DEF BytesInv, BytesConserved, RowsRead, AllBytes
  <2>4. CASE ~(Attached /\ query = 0)
    <3>1. Attached' => query' # 0 /\ query' # 1
      BY <2>1, <2>2, <2>4 DEF Attached
    <3> QED BY <3>1 DEF BytesInv, BytesConserved
  <2> QED BY <2>3, <2>4
<1>2. CASE Abort \/ Finish \/ Insert \/ Tick \/ UNCHANGED vars
  <2>1. UNCHANGED <<bind, query, w, pool_bytes>>
    BY <1>2 DEF Abort, Finish, EndQuery, Insert, Tick, shared, vars
  <2>2. status' = "running" => status = "running"
    BY <1>2 DEF Abort, Finish, EndQuery, Insert, Tick, shared, vars
  <2> QED BY <2>1, <2>2 DEF BytesInv, BytesConserved, Attached
<1>3. ASSUME NEW i \in Workers, Work(i) \/ Schedule(i) PROVE BytesInv'
  <2>1. UNCHANGED <<bind, query, status>> /\ \A j \in Workers \ {i} : w'[j] = w[j]
    BY <1>0, <1>3, WorkerStepFrame, OneMoves
  <2> SUFFICES ASSUME Attached PROVE BytesInv'
    BY <2>1 DEF BytesInv, Attached
  <2>2. query # 0
    <3> SUFFICES ASSUME query = 0 PROVE FALSE
      OBVIOUS
    <3>1. w[i] = Idle /\ status # "running"
      BY DEF BytesInv
    <3>2. w[i].pc = "unstarted"
      BY <3>1 DEF Idle
    <3> QED BY <1>3, <3>1, <3>2 DEF Work, Schedule, Go, Goto, NextPartition, QueueEmpty, Record,
       GuardPasses, GuardThrows, OpenCursor, OpenCursorFails, RecordOpenError, AddOpenTime,
       UpdateOpenTotal, SkipRow, StopAtLimit, AppendRow, FetchThrows, EndOfCursor, FlushRows,
       FlushBytes, FlushPool, FlushFetchTime, ReturnChunk, RecordScanError, TearDownCursor,
       MayTearDown, ReleaseConnection, InitLocal, InitLocalFails, MayStart, Scan
  <2>3. BytesKept(i)
    BY <1>0, <1>3, WorkKeepsBytes
  <2>4. pool_bytes \in Nat /\ pool_bytes' \in Nat
    BY <1>0 DEF TypeOK
  <2>5. query = 1 => Total(RowsRead') = pool_bytes' + Total(AllBytes')
    <3> SUFFICES ASSUME query = 1 PROVE Total(RowsRead') = pool_bytes' + Total(AllBytes')
      OBVIOUS
    <3>1. Total(RowsRead) = pool_bytes + Total(AllBytes)
      BY DEF BytesInv, BytesConserved, RowsRead, AllBytes
    <3> QED BY <1>0, <2>1, <2>3, <2>4, <3>1, BytesKeptInStep
  <2> QED BY <2>1, <2>2, <2>5 DEF BytesInv, BytesConserved, RowsRead, AllBytes
<1> QED BY <1>1, <1>2, <1>3 DEF Next

-----------------------------------------------------------------------------
(* The theorems.                                                           *)

\* The inductive invariant.
THEOREM ScanInvariant == Spec => []ScanInv
<1> QED BY InitScanInv, NextScanInv, PTL DEF Spec

\* FirebirdGlobalState and FirebirdLocalState stay within their types: the
\* queue index never passes the number of partitions and timers never run
\* backwards.
THEOREM TypeCorrect == Spec => []TypeOK
<1>1. ScanInv => TypeOK
  BY DEF ScanInv
<1> QED BY <1>1, ScanInvariant, PTL

\* NextPartition hands a partition to one worker only, however many race.
THEOREM PartitionsAreExclusive == Spec => []PartitionsExclusive
<1>1. ScanInv => PartitionsExclusive
  <2> SUFFICES ASSUME ScanInv, NEW i \in Workers, NEW j \in Workers, i # j,
                      w[i].part # NoWork
               PROVE  w[i].part # w[j].part /\ w[i].part < next_partition
    BY DEF PartitionsExclusive
  <2>1. PartInv
    BY DEF ScanInv
  <2> QED BY <2>1 DEF PartInv
<1> QED BY <1>1, ScanInvariant, PTL

\* No cursor outlives the lease of the connection it runs on, on any way out
\* of a scan (~FirebirdLocalState closes the cursor first).
THEOREM CursorsAreOnOwnConnections == Spec => []CursorOnOwnConnection
<1>1. ScanInv => CursorOnOwnConnection
  BY DEF ScanInv, Good, CursorOnOwnConnection
<1> QED BY <1>1, ScanInvariant, PTL

\* The unpushed-filter guard acts at most once per scan, for any number of
\* workers opening their first cursors together.
THEOREM GuardReportsOnce == Spec => []OneReport
<1>1. ScanInv => OneReport
  BY DEF ScanInv, GuardInv
<1> QED BY <1>1, ScanInvariant, PTL

\* firebird_unpushed_mode='error': a scan with residual filters never ends as
\* if nothing had happened, whichever worker wins the exchange and however many
\* have started or failed before.
THEOREM ErrorModeAlwaysFails == Spec => []ErrorModeFails
<1>1. Init => ErrorInv
  BY DEF Init, ErrorInv
<1>2. ErrorInv => ErrorModeFails
  BY DEF ErrorInv, MustFail, ErrorModeFails
<1> QED BY <1>1, <1>2, NextErrorInv, ScanInvariant, PTL DEF Spec

\* While the first query of an ATTACHed catalog runs, the pool's byte counter
\* and what the workers have not handed over yet add up to the rows fetched, on
\* every way out of a cursor and for any number of workers (TakeBytesRead).
THEOREM BytesAreConserved == Spec => []BytesConserved
<1>1. BytesInv => BytesConserved
  BY DEF BytesInv, BytesConserved
<1> QED BY <1>1, InitBytesInv, NextBytesInv, ScanInvariant, PTL DEF Spec

-----------------------------------------------------------------------------
(* The refinement.                                                         *)

\* Where a worker can be, by what it means for the rows it holds.
Running == {"scan", "pop", "open_us", "open_total", "fetch"}
Opening == {"record", "guard", "open"}
Broken  == {"open_error", "scan_error", "threw"}
Through == {"flush_rows", "flush_bytes", "flush_pool", "flush_us", "flush_total"}
Drained == {"exhausted", "release", "closed"}

Appended(r) == {r.chunk[n] : n \in 1..Len(r.chunk)}
Held(r) == r.todo \cup Appended(r)

-----------------------------------------------------------------------------
(* What the parts of a scan do to a worker's record.                       *)

Counts(r, s) == r.rows_skipped = s.rows_skipped /\ r.rows_emitted = s.rows_emitted
Same(r, s) ==
  /\ r.part = s.part /\ r.cursor = s.cursor /\ r.todo = s.todo /\ r.chunk = s.chunk
  /\ Counts(r, s)
Closed(r, s) ==
  /\ r.part = s.part /\ ~r.cursor /\ r.todo = {} /\ r.chunk = s.chunk
  /\ Counts(r, s)

\* The ways out of the head of the loop.
LoopEnd(r) ==
  \/ r.pc = "fetch" /\ r.cursor
  \/ r.pc = "pop" /\ ~r.cursor
  \/ r.pc = "flush_rows" /\ r.chunk # <<>>

LEMMA SetPcIs ==
  ASSUME NEW r \in Worker, NEW p \in Steps
  PROVE  /\ [r EXCEPT !.pc = p] \in Worker
         /\ [r EXCEPT !.pc = p].pc = p /\ Same([r EXCEPT !.pc = p], r)
BY DEF Worker, Same, Counts

LEMMA TakeBytesIs ==
  ASSUME NEW r \in Worker
  PROVE  /\ TakeBytes(r) \in Worker
         /\ Same(TakeBytes(r), r) /\ TakeBytes(r).pc = r.pc
<1> DEFINE b == r.bytes_fetched + r.cursor_bytes
           t == [r EXCEPT !.bytes_fetched = b, !.cursor_bytes = 0]
<1>1. b \in Nat
  BY DEF Worker
<1>2. TakeBytes(r) = t
  BY DEF TakeBytes, Worker
<1> HIDE DEF b
<1>3. t \in Worker
  BY <1>1, SetBytes
<1>4. /\ t.part = r.part /\ t.cursor = r.cursor /\ t.todo = r.todo /\ t.chunk = r.chunk
      /\ t.rows_skipped = r.rows_skipped /\ t.rows_emitted = r.rows_emitted /\ t.pc = r.pc
  BY DEF Worker
<1> HIDE DEF t
<1> QED BY <1>2, <1>3, <1>4 DEF Same, Counts

LEMMA CloseCursorIs ==
  ASSUME NEW r \in Worker
  PROVE  /\ CloseCursor(r) \in Worker
         /\ Closed(CloseCursor(r), r) /\ CloseCursor(r).pc = r.pc
<1>1. TakeBytes(r) \in Worker /\ Same(TakeBytes(r), r) /\ TakeBytes(r).pc = r.pc
  BY TakeBytesIs
<1> QED BY <1>1 DEF CloseCursor, Worker, Same, Closed, Counts

LEMMA LeaveLoopIs ==
  ASSUME NEW r \in Worker
  PROVE  /\ LeaveLoop(r) \in Worker
         /\ Same(LeaveLoop(r), r) /\ LeaveLoop(r).pc \in Through
         /\ r.chunk # <<>> => LeaveLoop(r).pc = "flush_rows"
<1> DEFINE t == TakeBytes(r)
           p == IF t.chunk # <<>> THEN "flush_rows" ELSE AfterRows(t)
<1>1. t \in Worker /\ Same(t, r)
  BY TakeBytesIs
<1>2. LeaveLoop(r) = [t EXCEPT !.pc = p]
  BY DEF LeaveLoop
<1> HIDE DEF t
<1>3. p \in Steps /\ p \in Through /\ (t.chunk # <<>> => p = "flush_rows")
  BY DEF AfterRows, AfterBytes, Steps, Through
<1> HIDE DEF p
<1> QED BY <1>1, <1>2, <1>3, SetPcIs DEF Same, Counts

LEMMA LoopIs ==
  ASSUME NEW r \in Worker, now \in Nat
  PROVE  Loop(r) \in Worker /\ Same(Loop(r), r) /\ LoopEnd(Loop(r))
<1>0. VectorSize # 0
  BY ScanAssumption
<1>1. CASE Len(r.chunk) = VectorSize
  <2>1. r.chunk # <<>>
    BY <1>0, <1>1
  <2> QED BY <1>1, <2>1, LeaveLoopIs DEF Loop, LoopEnd, Same
<1>2. CASE Len(r.chunk) # VectorSize /\ r.cursor
  <2>1. Loop(r) = [r EXCEPT !.pc = "fetch", !.t0 = now]
    BY <1>2 DEF Loop
  <2> QED BY <1>2, <2>1 DEF Worker, Steps, Same, Counts, LoopEnd
<1>3. CASE Len(r.chunk) # VectorSize /\ ~r.cursor
  <2>1. Loop(r) = [r EXCEPT !.pc = "pop"] /\ "pop" \in Steps
    BY <1>3 DEF Loop, Steps
  <2> QED BY <1>3, <2>1, SetPcIs DEF LoopEnd, Same
<1> QED BY <1>1, <1>2, <1>3

LEMMA FetchedIs ==
  ASSUME NEW i \in Workers, w[i] \in Worker, now \in Nat, w[i].t0 <= now, NEW k \in w[i].todo
  PROVE  /\ Fetched(i, k) \in Worker
         /\ Fetched(i, k).part = w[i].part /\ Fetched(i, k).cursor = w[i].cursor
         /\ Fetched(i, k).todo = w[i].todo \ {k} /\ Fetched(i, k).chunk = w[i].chunk
         /\ Counts(Fetched(i, k), w[i])
<1>1. /\ w[i].todo \ {k} \in SUBSET Rows
      /\ w[i].rows_read + 1 \in Nat
      /\ w[i].cursor_bytes + 1 \in Nat
      /\ w[i].t0 \in Nat /\ w[i].fetch_us \in Nat
  BY SMTT(30) DEF Worker
<1>2. w[i].fetch_us + (now - w[i].t0) \in Nat
  BY <1>1
<1>3. Fetched(i, k) =
        [w[i] EXCEPT !.todo = w[i].todo \ {k}, !.rows_read = w[i].rows_read + 1,
                     !.cursor_bytes = w[i].cursor_bytes + 1,
                     !.fetch_us = w[i].fetch_us + (now - w[i].t0)]
  BY DEF Fetched, Worker
<1> QED BY <1>1, <1>2, <1>3 DEF Worker, Counts

-----------------------------------------------------------------------------
(* The moves of a worker.                                                  *)

\* The rows of a query stay where they are.
Passes(i) ==
  /\ Same(w'[i], w[i])
  /\ UNCHANGED <<delivered, next_partition>>
  /\ \/ w[i].pc = "unstarted" /\ MayStart /\ w'[i].pc \in {"scan", "threw"}
     \/ /\ w[i].pc \in Running /\ w'[i].pc \in Running
        /\ w'[i].pc = "pop" => ~w[i].cursor
     \/ /\ w[i].pc \in Running /\ w'[i].pc \in Through
        /\ w[i].chunk # <<>> \/ (w[i].pc = "pop" /\ next_partition >= partitions)
     \/ w[i].pc \in Opening /\ w'[i].pc \in Opening
     \/ w[i].pc \in Opening \cup Broken \cup Running /\ w'[i].pc \in Broken
     \/ w[i].pc \in Through /\ w'[i].pc \in Through
     \/ w[i].pc \in Drained /\ w'[i].pc \in Drained

Pops(i) ==
  /\ w[i].pc = "pop" /\ w'[i].pc = "record"
  /\ next_partition < partitions /\ next_partition' = next_partition + 1
  /\ w'[i].part = next_partition
  /\ w'[i].cursor = w[i].cursor /\ w'[i].todo = w[i].todo /\ w'[i].chunk = w[i].chunk
  /\ Counts(w'[i], w[i])
  /\ UNCHANGED delivered

Opens(i) ==
  /\ w[i].pc = "open" /\ w'[i].pc = "open_us"
  /\ w'[i].cursor /\ w'[i].todo = PushedSlice(PartitionRows(w[i].part))
  /\ w'[i].part = w[i].part /\ w'[i].chunk = w[i].chunk /\ Counts(w'[i], w[i])
  /\ UNCHANGED <<delivered, next_partition>>

\* A row leaves the cursor: it is skipped, appended, or lost to an error.
Fetches(i, k) ==
  /\ w[i].pc = "fetch" /\ k \in w[i].todo
  /\ w'[i].part = w[i].part /\ w'[i].cursor = w[i].cursor /\ w'[i].todo = w[i].todo \ {k}
  /\ \/ /\ Skips(i) /\ LoopEnd(w'[i])
        /\ w'[i].chunk = w[i].chunk
        /\ w'[i].rows_skipped = w[i].rows_skipped + 1
        /\ w'[i].rows_emitted = w[i].rows_emitted
     \/ /\ ~Skips(i) /\ ~AtLimit(i) /\ LoopEnd(w'[i])
        /\ w'[i].chunk = Append(w[i].chunk, k)
        /\ w'[i].rows_skipped = w[i].rows_skipped
        /\ w'[i].rows_emitted = IF LocalSlice THEN w[i].rows_emitted + 1 ELSE w[i].rows_emitted
     \/ /\ w'[i].pc = "scan_error" /\ w'[i].chunk = w[i].chunk /\ Counts(w'[i], w[i])
  /\ UNCHANGED <<delivered, next_partition>>

\* The cursor is closed, at its end or at the limit.
Closes(i) ==
  /\ w[i].pc = "fetch" /\ Closed(w'[i], w[i])
  /\ \/ w[i].todo = {} /\ LoopEnd(w'[i])
     \/ /\ w[i].todo # {} /\ AtLimit(i) /\ w'[i].pc \in Through
        /\ w'[i].chunk # <<>> => w'[i].pc = "flush_rows"
  /\ UNCHANGED <<delivered, next_partition>>

Returns(i) ==
  /\ w[i].pc = "flush_total"
  /\ w'[i].pc = IF w[i].chunk = <<>> THEN "exhausted" ELSE "scan"
  /\ w'[i].chunk = <<>>
  /\ w'[i].part = w[i].part /\ w'[i].cursor = w[i].cursor /\ w'[i].todo = w[i].todo
  /\ Counts(w'[i], w[i])
  /\ delivered' = IF status = "running"
                  THEN [r \in Rows |-> delivered[r] + Count(w[i].chunk, r)]
                  ELSE delivered
  /\ UNCHANGED next_partition

TearsDown(i) ==
  /\ MayTearDown(i) /\ w'[i].pc = "release"
  /\ ~w'[i].cursor /\ w'[i].todo = {} /\ w'[i].chunk = <<>>
  /\ w'[i].part = w[i].part /\ Counts(w'[i], w[i])
  /\ UNCHANGED <<delivered, next_partition>>

LEMMA PassingSteps ==
  ASSUME WorkersInv, NEW i \in Workers, now \in Nat,
         \/ InitLocal(i) \/ InitLocalFails(i) \/ Scan(i) \/ QueueEmpty(i) \/ Record(i)
         \/ GuardPasses(i) \/ GuardThrows(i) \/ OpenCursorFails(i) \/ RecordOpenError(i)
         \/ AddOpenTime(i) \/ UpdateOpenTotal(i) \/ FlushRows(i) \/ FlushBytes(i)
         \/ FlushPool(i) \/ FlushFetchTime(i) \/ RecordScanError(i) \/ ReleaseConnection(i)
         \/ Goto(i, "fetch", "scan_error") /\ UNCHANGED <<delivered, next_partition>>
  PROVE  Passes(i)
<1>0. w \in [Workers -> Worker] /\ w[i] \in Worker
  BY DEF WorkersInv
<1>1. ASSUME NEW from, NEW r, Go(i, from, r)
      PROVE  w[i].pc = from /\ w'[i] = r
  BY <1>0, <1>1 DEF Go
<1>2. ASSUME NEW from, NEW to \in Steps, Goto(i, from, to)
      PROVE  w[i].pc = from /\ Same(w'[i], w[i]) /\ w'[i].pc = to
  <2>1. w[i].pc = from /\ w'[i] = [w[i] EXCEPT !.pc = to]
    BY <1>1, <1>2 DEF Goto
  <2> QED BY <1>0, <2>1, SetPcIs
<1>3. CASE InitLocal(i)
  <2>1. w[i].pc = "unstarted" /\ w'[i] = [w[i] EXCEPT !.pc = "scan", !.conn = TRUE]
    BY <1>1, <1>3 DEF InitLocal
  <2>2. Same(w'[i], w[i]) /\ w'[i].pc = "scan"
    BY <1>0, <2>1 DEF Worker, Same, Counts
  <2> QED BY <1>3, <2>1, <2>2 DEF InitLocal, Passes, Local
<1>4. CASE InitLocalFails(i)
  <2>1. w[i].pc = "unstarted" /\ Same(w'[i], w[i]) /\ w'[i].pc = "threw"
    BY <1>2, <1>4 DEF InitLocalFails, Steps
  <2> QED BY <1>4, <2>1 DEF InitLocalFails, Passes
<1>5. CASE Scan(i) \/ UpdateOpenTotal(i)
  <2>1. w[i].pc \in {"scan", "open_total"} /\ w'[i] = Loop(w[i])
    BY <1>1, <1>5 DEF Scan, UpdateOpenTotal
  <2>2. Same(w'[i], w[i]) /\ LoopEnd(w'[i])
    BY <1>0, <2>1, LoopIs
  <2>3. UNCHANGED <<delivered, next_partition>>
    BY <1>5 DEF Scan, UpdateOpenTotal, Local, Recording
  <2> QED BY <2>1, <2>2, <2>3 DEF Passes, LoopEnd, Same, Running, Through
<1>6. CASE QueueEmpty(i)
  <2>1. w[i].pc = "pop" /\ w'[i] = LeaveLoop(w[i]) /\ next_partition >= partitions
    BY <1>1, <1>6 DEF QueueEmpty
  <2>2. Same(w'[i], w[i]) /\ w'[i].pc \in Through
    BY <1>0, <2>1, LeaveLoopIs
  <2> QED BY <1>6, <2>1, <2>2 DEF QueueEmpty, Local, Passes, Running
<1>7. CASE Record(i) \/ GuardThrows(i) \/ OpenCursorFails(i)
  <2>1. \E from \in Opening, to \in Opening \cup Broken : Goto(i, from, to)
    BY <1>7 DEF Record, GuardThrows, OpenCursorFails, Opening, Broken
  <2>2. Opening \cup Broken \subseteq Steps
    BY DEF Opening, Broken, Steps
  <2>3. w[i].pc \in Opening /\ Same(w'[i], w[i]) /\ w'[i].pc \in Opening \cup Broken
    BY <1>2, <2>1, <2>2
  <2>4. UNCHANGED <<delivered, next_partition>>
    BY <1>7 DEF Record, GuardThrows, OpenCursorFails, Recording
  <2> QED BY <2>3, <2>4 DEF Passes
<1>8. CASE GuardPasses(i)
  <2>1. w[i].pc = "guard" /\ w'[i] = [w[i] EXCEPT !.pc = "open", !.t0 = now]
    BY <1>1, <1>8 DEF GuardPasses
  <2>2. Same(w'[i], w[i]) /\ w'[i].pc = "open"
    BY <1>0, <2>1 DEF Worker, Same, Counts
  <2> QED BY <1>8, <2>1, <2>2 DEF GuardPasses, Passes, Opening
<1>9. CASE \/ RecordOpenError(i) \/ RecordScanError(i)
           \/ Goto(i, "fetch", "scan_error") /\ UNCHANGED <<delivered, next_partition>>
  <2>1. \E from \in Broken \cup Running, to \in Broken : Goto(i, from, to)
    BY <1>9 DEF RecordOpenError, RecordScanError, Broken, Running
  <2>2. Broken \subseteq Steps
    BY DEF Broken, Steps
  <2>3. w[i].pc \in Broken \cup Running /\ Same(w'[i], w[i]) /\ w'[i].pc \in Broken
    BY <1>2, <2>1, <2>2
  <2>4. UNCHANGED <<delivered, next_partition>>
    BY <1>9 DEF RecordOpenError, RecordScanError, Recording
  <2> QED BY <2>3, <2>4 DEF Passes
<1>10. CASE AddOpenTime(i)
  <2>1. w[i].pc = "open_us" /\ Same(w'[i], w[i]) /\ w'[i].pc = "open_total"
    BY <1>2, <1>10 DEF AddOpenTime, Steps
  <2> QED BY <1>10, <2>1 DEF AddOpenTime, Recording, Passes, Running
<1>11. CASE FlushRows(i) \/ FlushFetchTime(i)
  <2>1. \E from \in Through, to \in Through : Goto(i, from, to)
    BY <1>11 DEF FlushRows, FlushFetchTime, Through, AfterRows, AfterBytes
  <2>2. Through \subseteq Steps
    BY DEF Through, Steps
  <2>3. w[i].pc \in Through /\ Same(w'[i], w[i]) /\ w'[i].pc \in Through
    BY <1>2, <2>1, <2>2
  <2>4. UNCHANGED <<delivered, next_partition>>
    BY <1>11 DEF FlushRows, FlushFetchTime, Recording
  <2> QED BY <2>3, <2>4 DEF Passes
<1>12. CASE FlushBytes(i) \/ FlushPool(i)
  <2> DEFINE p == AfterBytes(w[i])
  <2>1. /\ w[i].pc \in Through
        /\ \/ w'[i] = [w[i] EXCEPT !.pc = "flush_pool"]
           \/ w'[i] = [w[i] EXCEPT !.pc = p, !.bytes_fetched = 0]
    BY <1>1, <1>12 DEF FlushBytes, FlushPool, Through
  <2>2. p \in Through /\ "flush_pool" \in Through
    BY DEF AfterBytes, Through
  <2> HIDE DEF p
  <2>3. Same(w'[i], w[i]) /\ w'[i].pc \in Through
    BY <1>0, <2>1, <2>2 DEF Worker, Same, Counts
  <2>4. UNCHANGED <<delivered, next_partition>>
    BY <1>12 DEF FlushBytes, FlushPool, Recording
  <2> QED BY <2>1, <2>3, <2>4 DEF Passes
<1>13. CASE ReleaseConnection(i)
  <2>1. w[i].pc = "release" /\ w'[i] = [w[i] EXCEPT !.pc = "closed", !.conn = FALSE]
    BY <1>1, <1>13 DEF ReleaseConnection
  <2>2. Same(w'[i], w[i]) /\ w'[i].pc = "closed"
    BY <1>0, <2>1 DEF Worker, Same, Counts
  <2> QED BY <1>13, <2>1, <2>2 DEF ReleaseConnection, Local, Passes, Drained
<1> QED BY <1>3, <1>4, <1>5, <1>6, <1>7, <1>8, <1>9, <1>10, <1>11, <1>12, <1>13

LEMMA FetchingSteps ==
  ASSUME WorkersInv, NEW i \in Workers, now \in Nat,
         \/ SkipRow(i) \/ AppendRow(i) \/ StopAtLimit(i) \/ EndOfCursor(i)
         \/ \E k \in w[i].todo : /\ Go(i, "fetch", [Fetched(i, k) EXCEPT !.pc = "scan_error"])
                                 /\ UNCHANGED <<delivered, next_partition>>
  PROVE  Closes(i) \/ \E k \in w[i].todo : Fetches(i, k)
<1>0. w \in [Workers -> Worker] /\ w[i] \in Worker /\ w[i].t0 <= now
  BY DEF WorkersInv, Good
<1>1. ASSUME NEW from, NEW r, Go(i, from, r)
      PROVE  w[i].pc = from /\ w'[i] = r
  BY <1>0, <1>1 DEF Go
<1>2. SkipRow(i) \/ AppendRow(i) \/ StopAtLimit(i) \/ EndOfCursor(i) =>
        UNCHANGED <<delivered, next_partition>>
  BY DEF SkipRow, AppendRow, StopAtLimit, EndOfCursor, Local
<1>3. CASE SkipRow(i)
  <2>1. PICK k \in w[i].todo : Go(i, "fetch", Loop([Fetched(i, k) EXCEPT !.rows_skipped = @ + 1]))
    BY <1>3 DEF SkipRow
  <2> DEFINE f == Fetched(i, k)
             g == [f EXCEPT !.rows_skipped = f.rows_skipped + 1]
  <2>2. /\ f \in Worker /\ f.part = w[i].part /\ f.cursor = w[i].cursor
        /\ f.todo = w[i].todo \ {k} /\ f.chunk = w[i].chunk /\ Counts(f, w[i])
    BY <1>0, FetchedIs
  <2>3. w[i].pc = "fetch" /\ w'[i] = Loop(g)
    <3>1. [f EXCEPT !.rows_skipped = @ + 1] = g
      <4> HIDE DEF f
      <4> QED BY <2>2 DEF Worker
    <3> QED BY <1>1, <2>1, <3>1
  <2> HIDE DEF f
  <2>4. /\ g \in Worker /\ g.part = f.part /\ g.cursor = f.cursor /\ g.todo = f.todo
        /\ g.chunk = f.chunk /\ g.rows_skipped = f.rows_skipped + 1
        /\ g.rows_emitted = f.rows_emitted
    BY SMTT(30), <2>2 DEF Worker
  <2> HIDE DEF g
  <2>5. Same(w'[i], g) /\ LoopEnd(w'[i])
    BY <2>3, <2>4, LoopIs
  <2>6. Fetches(i, k)
    BY <1>2, <1>3, <2>2, <2>3, <2>4, <2>5 DEF SkipRow, Fetches, Same, Counts
  <2> QED BY <2>6
<1>4. CASE AppendRow(i)
  <2>1. PICK k \in w[i].todo :
          Go(i, "fetch",
             Loop([Fetched(i, k) EXCEPT
                     !.chunk = Append(@, k),
                     !.rows_emitted = IF LocalSlice THEN @ + 1 ELSE @]))
    BY <1>4 DEF AppendRow
  <2> DEFINE f == Fetched(i, k)
             c == Append(f.chunk, k)
             e == IF LocalSlice THEN f.rows_emitted + 1 ELSE f.rows_emitted
             g == [f EXCEPT !.chunk = c, !.rows_emitted = e]
  <2>2. /\ f \in Worker /\ f.part = w[i].part /\ f.cursor = w[i].cursor
        /\ f.todo = w[i].todo \ {k} /\ f.chunk = w[i].chunk /\ Counts(f, w[i])
    BY <1>0, FetchedIs
  <2>3. w[i].pc = "fetch" /\ w'[i] = Loop(g)
    <3>1. [f EXCEPT !.chunk = Append(@, k),
                    !.rows_emitted = IF LocalSlice THEN @ + 1 ELSE @] = g
      <4> HIDE DEF f
      <4> QED BY <2>2 DEF Worker
    <3> QED BY <1>1, <2>1, <3>1
  <2> HIDE DEF f
  <2>3a. c \in Seq(Rows) /\ e \in Nat
    <3>1. f.chunk \in Seq(Rows) /\ k \in Rows
      BY <1>0, <2>1, <2>2 DEF Worker
    <3>2. f.rows_emitted \in Nat
      BY <2>2 DEF Worker
    <3>3. e \in Nat
      BY <3>2
    <3>4. c \in Seq(Rows)
      BY <3>1
    <3> QED BY <3>3, <3>4
  <2> HIDE DEF c, e
  <2>4. /\ g \in Worker /\ g.part = f.part /\ g.cursor = f.cursor /\ g.todo = f.todo
        /\ g.chunk = c /\ g.rows_skipped = f.rows_skipped /\ g.rows_emitted = e
    BY <2>2, <2>3a DEF Worker
  <2> HIDE DEF g
  <2>5. Same(w'[i], g) /\ LoopEnd(w'[i])
    BY <2>3, <2>4, LoopIs
  <2>6. w'[i].chunk = Append(w[i].chunk, k)
    BY <2>2, <2>4, <2>5 DEF Same, c
  <2>7. w'[i].rows_emitted = IF LocalSlice THEN w[i].rows_emitted + 1 ELSE w[i].rows_emitted
    BY <2>2, <2>4, <2>5 DEF Same, Counts, e
  <2>8. Fetches(i, k)
    BY <1>2, <1>4, <2>2, <2>3, <2>4, <2>5, <2>6, <2>7 DEF AppendRow, Fetches, Same, Counts
  <2> QED BY <2>8
<1>5. CASE StopAtLimit(i)
  <2>1. PICK k \in w[i].todo : Go(i, "fetch", LeaveLoop(CloseCursor(Fetched(i, k))))
    BY <1>5 DEF StopAtLimit
  <2> DEFINE f == Fetched(i, k)
  <2>2. f \in Worker /\ f.part = w[i].part /\ f.chunk = w[i].chunk /\ Counts(f, w[i])
    BY <1>0, FetchedIs
  <2>3. w[i].pc = "fetch" /\ w'[i] = LeaveLoop(CloseCursor(f))
    BY <1>1, <2>1
  <2> HIDE DEF f
  <2>4. CloseCursor(f) \in Worker /\ Closed(CloseCursor(f), f)
    BY <2>2, CloseCursorIs
  <2>5. /\ Same(w'[i], CloseCursor(f)) /\ w'[i].pc \in Through
        /\ w'[i].chunk # <<>> => w'[i].pc = "flush_rows"
    BY <2>3, <2>4, LeaveLoopIs DEF Same
  <2> QED BY <1>2, <1>5, <2>2, <2>3, <2>4, <2>5 DEF StopAtLimit, Closes, Closed, Same, Counts
<1>6. CASE EndOfCursor(i)
  <2> DEFINE u == w[i].fetch_us + (now - w[i].t0)
             g == [w[i] EXCEPT !.fetch_us = u]
  <2>1. u \in Nat
    <3>1. w[i].fetch_us \in Nat /\ w[i].t0 \in Nat
      BY <1>0 DEF Worker
    <3> QED BY <1>0, <3>1
  <2>2. Go(i, "fetch", Loop(CloseCursor(g)))
    BY <1>0, <1>6 DEF EndOfCursor, Worker
  <2> HIDE DEF u
  <2>3. g \in Worker /\ Same(g, w[i])
    BY <1>0, <2>1 DEF Worker, Same, Counts
  <2> HIDE DEF g
  <2>4. w[i].pc = "fetch" /\ w'[i] = Loop(CloseCursor(g))
    BY <1>1, <2>2
  <2>5. CloseCursor(g) \in Worker /\ Closed(CloseCursor(g), g)
    BY <2>3, CloseCursorIs
  <2>6. Same(w'[i], CloseCursor(g)) /\ LoopEnd(w'[i])
    BY <2>4, <2>5, LoopIs
  <2> QED BY <1>2, <1>6, <2>3, <2>4, <2>5, <2>6 DEF EndOfCursor, Closes, Closed, Same, Counts
<1>7. CASE \E k \in w[i].todo : /\ Go(i, "fetch", [Fetched(i, k) EXCEPT !.pc = "scan_error"])
                                /\ UNCHANGED <<delivered, next_partition>>
  <2>1. PICK k \in w[i].todo : /\ Go(i, "fetch", [Fetched(i, k) EXCEPT !.pc = "scan_error"])
                               /\ UNCHANGED <<delivered, next_partition>>
    BY <1>7
  <2> DEFINE f == Fetched(i, k)
  <2>2. /\ f \in Worker /\ f.part = w[i].part /\ f.cursor = w[i].cursor
        /\ f.todo = w[i].todo \ {k} /\ f.chunk = w[i].chunk /\ Counts(f, w[i])
    BY <1>0, FetchedIs
  <2>3. w[i].pc = "fetch" /\ w'[i] = [f EXCEPT !.pc = "scan_error"]
    BY <1>1, <2>1
  <2> HIDE DEF f
  <2>4. "scan_error" \in Steps
    BY DEF Steps
  <2>5. Same(w'[i], f) /\ w'[i].pc = "scan_error"
    BY <2>2, <2>3, <2>4, SetPcIs
  <2>6. Fetches(i, k)
    BY <2>1, <2>2, <2>3, <2>5 DEF Fetches, Same, Counts
  <2> QED BY <2>6
<1> QED BY <1>3, <1>4, <1>5, <1>6, <1>7

\* Every step of a worker is one of seven moves.
LEMMA WorkerMoves ==
  ASSUME TypeOK, WorkersInv, NEW i \in Workers, Work(i) \/ Schedule(i)
  PROVE  \/ Passes(i) \/ Pops(i) \/ Opens(i) \/ (\E k \in w[i].todo : Fetches(i, k))
         \/ Closes(i) \/ Returns(i) \/ TearsDown(i)
<1>0. w \in [Workers -> Worker] /\ w[i] \in Worker /\ now \in Nat
  BY DEF WorkersInv, TypeOK
<1>1. ASSUME NEW from, NEW r, Go(i, from, r)
      PROVE  w[i].pc = from /\ w'[i] = r
  BY <1>0, <1>1 DEF Go
<1>2. CASE \/ InitLocal(i) \/ InitLocalFails(i) \/ Scan(i) \/ QueueEmpty(i) \/ Record(i)
           \/ GuardPasses(i) \/ GuardThrows(i) \/ OpenCursorFails(i) \/ RecordOpenError(i)
           \/ AddOpenTime(i) \/ UpdateOpenTotal(i) \/ FlushRows(i) \/ FlushBytes(i)
           \/ FlushPool(i) \/ FlushFetchTime(i) \/ RecordScanError(i) \/ ReleaseConnection(i)
  BY <1>0, <1>2, PassingSteps
<1>3. CASE SkipRow(i) \/ AppendRow(i) \/ StopAtLimit(i) \/ EndOfCursor(i)
  BY <1>0, <1>3, FetchingSteps
<1>4. CASE FetchThrows(i)
  <2>1. UNCHANGED <<delivered, next_partition>>
    BY <1>4 DEF FetchThrows
  <2>2. \/ Goto(i, "fetch", "scan_error")
        \/ \E k \in w[i].todo : Go(i, "fetch", [Fetched(i, k) EXCEPT !.pc = "scan_error"])
    BY <1>4 DEF FetchThrows
  <2>3. CASE Goto(i, "fetch", "scan_error")
    BY <1>0, <2>1, <2>3, PassingSteps
  <2>4. CASE \E k \in w[i].todo : Go(i, "fetch", [Fetched(i, k) EXCEPT !.pc = "scan_error"])
    BY <1>0, <2>1, <2>4, FetchingSteps
  <2> QED BY <2>2, <2>3, <2>4
<1>5. CASE NextPartition(i)
  <2>1. w[i].pc = "pop" /\ w'[i] = [w[i] EXCEPT !.pc = "record", !.part = next_partition]
    BY <1>1, <1>5 DEF NextPartition
  <2>2. /\ w'[i].pc = "record" /\ w'[i].part = next_partition
        /\ w'[i].cursor = w[i].cursor /\ w'[i].todo = w[i].todo /\ w'[i].chunk = w[i].chunk
        /\ Counts(w'[i], w[i])
    BY <1>0, <2>1 DEF Worker, Counts
  <2> QED BY <1>5, <2>1, <2>2 DEF NextPartition, Pops
<1>6. CASE OpenCursor(i)
  <2> DEFINE rows == PushedSlice(PartitionRows(w[i].part))
             us == now - w[i].t0
  <2>1. /\ w[i].pc = "open"
        /\ w'[i] = [w[i] EXCEPT !.pc = "open_us", !.cursor = TRUE, !.todo = rows, !.open_us = us]
    BY <1>1, <1>6 DEF OpenCursor
  <2> HIDE DEF rows, us
  <2>2. /\ w'[i].pc = "open_us" /\ w'[i].cursor /\ w'[i].todo = rows
        /\ w'[i].part = w[i].part /\ w'[i].chunk = w[i].chunk /\ Counts(w'[i], w[i])
    BY <1>0, <2>1 DEF Worker, Counts
  <2> QED BY <1>6, <2>1, <2>2 DEF OpenCursor, Local, Opens, rows
<1>7. CASE ReturnChunk(i)
  <2> DEFINE p == IF w[i].chunk = <<>> THEN "exhausted" ELSE "scan"
  <2>1. /\ w[i].pc = "flush_total"
        /\ w'[i] = [w[i] EXCEPT !.pc = p, !.chunk = <<>>, !.fetch_us = 0]
    BY <1>1, <1>7 DEF ReturnChunk
  <2> HIDE DEF p
  <2>2. /\ w'[i].pc = p /\ w'[i].chunk = <<>>
        /\ w'[i].part = w[i].part /\ w'[i].cursor = w[i].cursor /\ w'[i].todo = w[i].todo
        /\ Counts(w'[i], w[i])
    BY <1>0, <2>1 DEF Worker, Counts
  <2> QED BY <1>7, <2>1, <2>2 DEF ReturnChunk, Returns, p
<1>8. CASE TearDownCursor(i)
  <2> DEFINE c == CloseCursor(w[i])
  <2>1. c \in Worker /\ Closed(c, w[i])
    BY <1>0, CloseCursorIs
  <2>2. w'[i] = [c EXCEPT !.pc = "release", !.chunk = <<>>]
    BY <1>1, <1>8 DEF TearDownCursor
  <2> HIDE DEF c
  <2>3. /\ w'[i].pc = "release" /\ ~w'[i].cursor /\ w'[i].todo = {} /\ w'[i].chunk = <<>>
        /\ w'[i].part = w[i].part /\ Counts(w'[i], w[i])
    BY <2>1, <2>2 DEF Worker, Closed, Counts
  <2> QED BY <1>8, <2>3 DEF TearDownCursor, Local, TearsDown
<1> QED BY <1>2, <1>3, <1>4, <1>5, <1>6, <1>7, <1>8 DEF Work, Schedule

\* What a worker's move leaves alone.
Stays(i) ==
  /\ UNCHANGED <<bind, table, query, status, base, probe, partitions>>
  /\ w' \in [Workers -> Worker]
  /\ \A j \in Workers \ {i} : w'[j] = w[j]

LEMMA WorkerStays ==
  ASSUME TypeOK, WorkersInv, WorkersInv', NEW i \in Workers, Work(i) \/ Schedule(i)
  PROVE  Stays(i)
<1>1. UNCHANGED probe
  BY DEF Work, Schedule, NextPartition, QueueEmpty, Record, GuardPasses, GuardThrows,
       OpenCursor, OpenCursorFails, RecordOpenError, AddOpenTime, UpdateOpenTotal, SkipRow,
       StopAtLimit, AppendRow, FetchThrows, EndOfCursor, FlushRows, FlushBytes, FlushPool,
       FlushFetchTime, ReturnChunk, RecordScanError, TearDownCursor, ReleaseConnection,
       InitLocal, InitLocalFails, Scan, Local, Recording, shared
<1> QED BY <1>1, OneMoves, WorkerStepFrame DEF Stays, WorkersInv

LEMMA RowsAreInt64 == Rows \subseteq Int64 /\ IsFiniteSet(Rows)
<1>1. ASSUME NEW b \in Binds PROVE Env[b].base \subseteq Int64 /\ Env[b].inserts \subseteq Int64
  BY ScanAssumption DEF Surroundings
<1>2. Rows \subseteq Int64
  BY <1>1 DEF Rows
<1>3. IsFiniteSet(Int64)
  <2>1. IntMin \in Int /\ IntMax \in Int
    BY BoundsAssumption DEF IntMin
  <2> QED BY <2>1, FS_Interval DEF Int64
<1> QED BY <1>2, <1>3, FS_Subset

LEMMA BindFacts ==
  ASSUME bind \in Binds
  PROVE  /\ Override \in 0..IntMax /\ RowLimit \in Nat /\ RowOffset \in Nat
         /\ RowLimit > 0 => Override = 1
         /\ Attached => RowLimit = 0
         /\ bind.has_pk => ~bind.is_view
<1>1. bind \in Bind
  BY ScanAssumption
<1> QED BY <1>1, BoundsAssumption
       DEF Bind, Override, Paging, RowLimit, RowOffset, Attached

-----------------------------------------------------------------------------
(* The cut.                                                                *)

\* The keys of partition p.
Cover(p, k) ==
  IF probe.found = "yes" THEN Covers(probe.lo, probe.hi, partitions, p, k) ELSE p = 0

CutInv ==
  /\ probe.found = "yes" =>
       /\ probe.lo \in Int64 /\ probe.hi \in Int64 /\ probe.lo < probe.hi
       /\ partitions \in 1..(probe.hi - probe.lo + 1)
       /\ bind.has_pk
  /\ probe.found # "yes" => partitions <= 1
  /\ probe.found # "unprobed" => query >= 1
  /\ RowLimit > 0 => partitions <= 1
  /\ status = "running" => partitions >= 1

\* What BindProbe finds, or what it found before.
LEMMA ProbeFinds ==
  ASSUME TypeOK, Begin, probe'.found = "yes"
  PROVE  \/ bind.has_pk /\ probe' \in KeyRanges
         \/ Attached /\ probe' = probe
BY DEF Begin, BindProbe, ProbePrimaryKey, NoRange

LEMMA OneOverride ==
  ASSUME NEW lo \in Int64, NEW hi \in Int64, lo <= hi, NEW hw \in Nat
  PROVE  PartitionCount(lo, hi, 1, hw) <= 1
<1> DEFINE cap == Wrap64(hi - lo + 1)
<1>1. cap \in Int
  BY BoundsAssumption DEF Wrap64, IntMin, Int64
<1>2. PartitionCount(lo, hi, 1, hw) = IF cap > 0 THEN Least(1, cap) ELSE 1
  BY DEF PartitionCount
<1> HIDE DEF cap
<1> QED BY <1>1, <1>2 DEF Least

LEMMA BeginCuts ==
  ASSUME TypeOK, CutInv, Begin
  PROVE  CutInv'
<1>0. /\ UNCHANGED bind /\ bind \in Binds /\ query \in Nat /\ query' = query + 1
      /\ status' = "running"
  BY DEF TypeOK, Begin
<1>1. partitions' = IF probe'.found = "yes"
                    THEN PartitionCount(probe'.lo, probe'.hi, Override, HwConcurrency)
                    ELSE 1
  BY DEF Begin, InitGlobal
<1>2. query' >= 1
  BY <1>0
<1>3. CASE probe'.found # "yes"
  BY <1>0, <1>1, <1>2, <1>3 DEF CutInv
<1>4. CASE probe'.found = "yes"
  <2>1. /\ probe'.lo \in Int64 /\ probe'.hi \in Int64 /\ probe'.lo < probe'.hi
        /\ bind.has_pk
    <3>1. table \subseteq Int64
      BY RowsAreInt64 DEF TypeOK
    <3>2. CASE bind.has_pk /\ probe' \in KeyRanges
      BY <3>1, <3>2 DEF KeyRanges
    <3>3. CASE probe' = probe
      BY <1>4, <3>3 DEF CutInv
    <3> QED BY <1>4, <3>2, <3>3, ProbeFinds
  <2>2. probe'.lo <= probe'.hi
    BY <2>1, BoundsAssumption DEF Int64, IntMin
  <2>3. partitions' \in 1..(probe'.hi - probe'.lo + 1)
    BY <1>0, <1>1, <1>4, <2>1, <2>2, BindFacts, CountFits, ScanAssumption
  <2>4. RowLimit > 0 => partitions' <= 1
    BY <1>0, <1>1, <1>4, <2>1, <2>2, BindFacts, OneOverride, ScanAssumption
  <2>5. partitions' >= 1
    BY <2>1, <2>3, BoundsAssumption DEF Int64, IntMin
  <2> QED BY <1>0, <1>2, <1>4, <2>1, <2>3, <2>4, <2>5 DEF CutInv, RowLimit
<1> QED BY <1>3, <1>4

LEMMA NextCutInv ==
  ASSUME TypeOK, WorkersInv, WorkersInv', CutInv, [Next]_vars
  PROVE  CutInv'
<1>1. CASE Begin
  BY <1>1, BeginCuts
<1>2. CASE Abort \/ Finish
  BY <1>2 DEF Abort, Finish, EndQuery, CutInv, RowLimit
<1>3. CASE Insert \/ Tick \/ UNCHANGED vars
  BY <1>3 DEF Insert, Tick, vars, shared, CutInv, RowLimit
<1>4. CASE \E i \in Workers : Work(i) \/ Schedule(i)
  BY <1>4, WorkerStays DEF Stays, CutInv, RowLimit
<1> QED BY <1>1, <1>2, <1>3, <1>4 DEF Next

\* A partition has the rows of the table that it covers; a row is in one only.
LEMMA RowsCovered ==
  ASSUME TypeOK, CutInv, NEW p \in Int, p = 0 \/ probe.found = "yes"
  PROVE  PartitionRows(p) = {k \in table : Cover(p, k)}
BY DEF PartitionRows, Cover

LEMMA CoverOnce ==
  ASSUME TypeOK, CutInv, NEW k \in Rows, NEW p \in 0..(partitions - 1),
         NEW q \in 0..(partitions - 1), Cover(p, k), Cover(q, k)
  PROVE  p = q
<1>1. k \in Int
  BY RowsAreKeys
<1>2. CASE probe.found = "yes"
  <2>1. /\ probe.lo \in Int64 /\ probe.hi \in Int64 /\ probe.lo <= probe.hi
        /\ partitions \in 1..(probe.hi - probe.lo + 1)
    BY <1>2, BoundsAssumption DEF CutInv, Int64, IntMin
  <2> QED BY <1>1, <1>2, <2>1, PartitionsDisjoint DEF Cover
<1> QED BY <1>2 DEF Cover

-----------------------------------------------------------------------------
(* What a stopped worker is sure of.                                       *)

DrainInv ==
  \A i \in Workers :
    /\ w[i].pc = "unstarted" => Same(w[i], Idle)
    /\ w[i].pc = "pop" => ~w[i].cursor
    /\ w[i].pc \in Opening => ~w[i].cursor /\ w[i].part # NoWork
    /\ w[i].cursor => w[i].part # NoWork
    /\ ~w[i].cursor => w[i].todo = {}
    /\ w[i].pc \in Through /\ w[i].chunk = <<>> =>
         ~w[i].cursor /\ next_partition >= partitions
    /\ status = "running" /\ w[i].pc \in Drained =>
         ~w[i].cursor /\ w[i].chunk = <<>> /\ next_partition >= partitions

DrainOf(r, n) ==
  /\ r.pc = "unstarted" => Same(r, Idle)
  /\ r.pc = "pop" => ~r.cursor
  /\ r.pc \in Opening => ~r.cursor /\ r.part # NoWork
  /\ r.cursor => r.part # NoWork
  /\ ~r.cursor => r.todo = {}
  /\ r.pc \in Through /\ r.chunk = <<>> => ~r.cursor /\ n >= partitions
  /\ status = "running" /\ r.pc \in Drained => ~r.cursor /\ r.chunk = <<>> /\ n >= partitions

LEMMA StoppedAtLimit ==
  ASSUME TypeOK, WorkersInv, CutInv, DrainInv, NEW i \in Workers, AtLimit(i), w[i].todo # {}
  PROVE  next_partition >= partitions
<1>1. partitions <= 1 /\ partitions \in Nat /\ next_partition \in Nat
  BY DEF AtLimit, LocalSlice, CutInv, TypeOK
<1>2. w[i].part \in Nat /\ w[i].part < next_partition
  BY DEF DrainInv, WorkersInv, PartInv, Worker
<1> QED BY <1>1, <1>2

LEMMA MovesDrain ==
  ASSUME TypeOK, WorkersInv, WorkersInv', CutInv, DrainInv, NEW i \in Workers, Stays(i),
         \/ Passes(i) \/ Pops(i) \/ Opens(i) \/ (\E k \in w[i].todo : Fetches(i, k))
         \/ Closes(i) \/ Returns(i) \/ TearsDown(i)
  PROVE  DrainInv'
<1> DEFINE r == w[i]
           s == w'[i]
<1>0. /\ partitions \in Nat /\ next_partition \in Nat
      /\ next_partition' \in {next_partition, next_partition + 1}
      /\ UNCHANGED <<status, partitions>>
  BY DEF TypeOK, Passes, Pops, Opens, Fetches, Closes, Returns, TearsDown, Stays
<1>1. DrainOf(r, next_partition)
  BY DEF DrainInv, DrainOf
<1>2. ASSUME NEW j \in Workers, j # i PROVE DrainOf(w'[j], next_partition')
  <2>1. DrainOf(w[j], next_partition) /\ w'[j] = w[j]
    BY <1>2 DEF DrainInv, DrainOf, Stays
  <2>2. next_partition >= partitions => next_partition' >= partitions
    BY <1>0
  <2> QED BY <2>1, <2>2 DEF DrainOf
<1> SUFFICES DrainOf(s, next_partition')
  <2>1. ASSUME DrainOf(s, next_partition') PROVE DrainInv'
    <3>1. \A j \in Workers : DrainOf(w'[j], next_partition')
      BY <1>2, <2>1
    <3> HIDE DEF r, s
    <3> QED BY <1>0, <3>1 DEF DrainInv, DrainOf
  <2> QED BY <2>1
<1>3. CASE Passes(i)
  BY <1>0, <1>1, <1>3 DEF Passes, DrainOf, Same, Counts, Running, Opening, Broken, Through, Drained
<1>4. CASE Pops(i)
  <2>1. s.part # NoWork
    BY <1>0, <1>4, ScanAssumption DEF Pops
  <2> QED BY <1>0, <1>1, <1>4, <2>1 DEF Pops, DrainOf, Opening, Through, Drained
<1>5. CASE Opens(i)
  BY <1>0, <1>1, <1>5 DEF Opens, DrainOf, Opening, Through, Drained
<1>6. CASE \E k \in w[i].todo : Fetches(i, k)
  <2>1. PICK k \in w[i].todo : Fetches(i, k)
    BY <1>6
  <2>2. s.pc \in Broken \/ LoopEnd(s)
    BY <2>1 DEF Fetches, Broken
  <2>3. r.cursor /\ s.cursor /\ s.part = r.part
    BY <1>1, <2>1 DEF Fetches, DrainOf
  <2> QED BY <1>0, <1>1, <2>2, <2>3
          DEF DrainOf, LoopEnd, Opening, Through, Drained, Broken
<1>7. CASE Closes(i)
  <2>1. ~s.cursor /\ s.todo = {} /\ s.part = r.part
    BY <1>7 DEF Closes, Closed
  <2>2. CASE LoopEnd(s)
    BY <1>0, <1>1, <2>1, <2>2 DEF DrainOf, LoopEnd, Opening, Through, Drained
  <2>3. CASE w[i].todo # {} /\ AtLimit(i) /\ s.pc \in Through
    <3>1. next_partition' >= partitions
      BY <1>7, <2>3, StoppedAtLimit DEF Closes
    <3> QED BY <1>0, <1>1, <2>1, <2>3, <3>1 DEF DrainOf, Opening, Through, Drained
  <2> QED BY <1>7, <2>2, <2>3 DEF Closes
<1>8. CASE Returns(i)
  BY <1>0, <1>1, <1>8 DEF Returns, DrainOf, Opening, Through, Drained
<1>9. CASE TearsDown(i)
  BY <1>0, <1>1, <1>9 DEF TearsDown, MayTearDown, DrainOf, Opening, Through, Drained
<1> QED BY <1>3, <1>4, <1>5, <1>6, <1>7, <1>8, <1>9

LEMMA IdleWorker ==
  /\ Same(Idle, Idle) /\ Idle.pc = "unstarted" /\ ~Idle.cursor /\ Idle.todo = {}
  /\ Idle.chunk = <<>> /\ Idle.part = NoWork /\ Idle.rows_skipped = 0 /\ Idle.rows_emitted = 0
BY DEF Same, Counts, Idle

LEMMA NextDrainInv ==
  ASSUME TypeOK, WorkersInv, WorkersInv', CutInv, DrainInv, [Next]_vars
  PROVE  DrainInv'
<1>1. CASE Begin
  <2>1. \A i \in Workers : w'[i] = Idle
    BY <1>1 DEF Begin
  <2> QED BY <2>1, IdleWorker DEF DrainInv, Opening, Through, Drained
<1>2. CASE Abort \/ Finish
  BY <1>2 DEF Abort, Finish, EndQuery, DrainInv
<1>3. CASE Insert \/ Tick \/ UNCHANGED vars
  BY <1>3 DEF Insert, Tick, vars, shared, DrainInv
<1>4. CASE \E i \in Workers : Work(i) \/ Schedule(i)
  BY <1>4, WorkerStays, WorkerMoves, MovesDrain
<1> QED BY <1>1, <1>2, <1>3, <1>4 DEF Next

-----------------------------------------------------------------------------
(* Nobody has what another has.                                            *)

\* A row some worker holds or has handed to DuckDB; a partition without a cursor.
Taken(k) == delivered[k] > 0 \/ \E i \in Workers : k \in Held(w[i])
Fresh(p) == p >= next_partition \/ \E i \in Workers : w[i].part = p /\ w[i].pc \in Opening

NoDuplicates(c) == \A m, n \in 1..Len(c) : c[m] = c[n] => m = n

OnceInv ==
  /\ \A k \in Rows : delivered[k] <= 1
  /\ \A i \in Workers : \A k \in Held(w[i]) :
        delivered[k] = 0 /\ \A j \in Workers : i # j => k \notin Held(w[j])
  /\ \A i \in Workers : w[i].todo \cap Appended(w[i]) = {} /\ NoDuplicates(w[i].chunk)
  /\ \A k \in Rows : \A p \in 0..(partitions - 1) : Taken(k) /\ Cover(p, k) => ~Fresh(p)

LEMMA AppendedType ==
  ASSUME NEW r \in Worker
  PROVE  Appended(r) \subseteq Rows /\ Held(r) \subseteq Rows
<1>1. r.chunk \in Seq(Rows) /\ r.todo \subseteq Rows
  BY DEF Worker
<1>2. \A n \in 1..Len(r.chunk) : r.chunk[n] \in Rows
  BY <1>1
<1> QED BY <1>1, <1>2 DEF Held, Appended

LEMMA NoneAppended ==
  ASSUME NEW r, r.chunk = <<>>
  PROVE  Appended(r) = {} /\ Held(r) = r.todo /\ NoDuplicates(r.chunk)
<1>1. Len(r.chunk) = 0
  OBVIOUS
<1>2. 1..0 = {}
  OBVIOUS
<1> QED BY <1>1, <1>2 DEF Appended, Held, NoDuplicates

LEMMA OneAppended ==
  ASSUME NEW r \in Worker, NEW s \in Worker, NEW k \in Rows, s.chunk = Append(r.chunk, k)
  PROVE  /\ Appended(s) = Appended(r) \cup {k}
         /\ k \notin Appended(r) /\ NoDuplicates(r.chunk) => NoDuplicates(s.chunk)
<1> DEFINE n == Len(r.chunk)
<1>1. r.chunk \in Seq(Rows) /\ n \in Nat
  BY DEF Worker
<1>2. Len(s.chunk) = n + 1 /\ s.chunk[n + 1] = k /\ \A m \in 1..n : s.chunk[m] = r.chunk[m]
  BY <1>1
<1>3. 1..(n + 1) = (1..n) \cup {n + 1}
  BY <1>1
<1>4. Appended(s) = Appended(r) \cup {k}
  BY <1>2, <1>3 DEF Appended
<1>5. k \notin Appended(r) => \A m \in 1..n : r.chunk[m] # k
  BY DEF Appended
<1>6. k \notin Appended(r) /\ NoDuplicates(r.chunk) => NoDuplicates(s.chunk)
  BY <1>1, <1>2, <1>3, <1>5 DEF NoDuplicates
<1> QED BY <1>4, <1>6

\* How often a chunk without duplicates has a row.
LEMMA CountOnce ==
  ASSUME NEW c \in Seq(Rows), NoDuplicates(c), NEW k \in Rows
  PROVE  Count(c, k) = IF \E n \in 1..Len(c) : c[n] = k THEN 1 ELSE 0
<1>1. CASE \E n \in 1..Len(c) : c[n] = k
  <2>1. PICK n \in 1..Len(c) : c[n] = k
    BY <1>1
  <2>2. {m \in 1..Len(c) : c[m] = k} = {n}
    BY <2>1 DEF NoDuplicates
  <2> QED BY <1>1, <2>2, FS_Singleton DEF Count
<1>2. CASE ~\E n \in 1..Len(c) : c[n] = k
  <2>1. {m \in 1..Len(c) : c[m] = k} = {}
    BY <1>2
  <2> QED BY <1>2, <2>1, FS_EmptySet DEF Count
<1> QED BY <1>1, <1>2

\* What a returned chunk does to the rows delivered.
LEMMA ReturnedRows ==
  ASSUME TypeOK, WorkersInv, OnceInv, NEW i \in Workers, Returns(i), status = "running"
  PROVE  \A k \in Rows : delivered'[k] = IF k \in Appended(w[i]) THEN 1 ELSE delivered[k]
<1> SUFFICES ASSUME NEW k \in Rows
             PROVE  delivered'[k] = IF k \in Appended(w[i]) THEN 1 ELSE delivered[k]
  OBVIOUS
<1>1. w[i].chunk \in Seq(Rows) /\ NoDuplicates(w[i].chunk) /\ delivered[k] \in Nat
  BY DEF WorkersInv, Worker, OnceInv, TypeOK
<1>2. delivered'[k] = delivered[k] + Count(w[i].chunk, k)
  BY DEF Returns
<1>3. Count(w[i].chunk, k) = IF k \in Appended(w[i]) THEN 1 ELSE 0
  BY <1>1, CountOnce DEF Appended
<1>4. k \in Appended(w[i]) => delivered[k] = 0
  BY DEF OnceInv, Held
<1> QED BY <1>1, <1>2, <1>3, <1>4

\* A worker that gives rows away and opens nothing disturbs nobody.
LEMMA ShrinkKeepsOnce ==
  ASSUME TypeOK, WorkersInv, WorkersInv', OnceInv, NEW i \in Workers, Stays(i),
         UNCHANGED delivered, next_partition' \in Nat, next_partition <= next_partition',
         Held(w'[i]) \subseteq Held(w[i]),
         w'[i].todo \cap Appended(w'[i]) = {}, NoDuplicates(w'[i].chunk),
         w'[i].pc \in Opening => \/ w[i].pc \in Opening /\ w'[i].part = w[i].part
                                 \/ w'[i].part >= next_partition
  PROVE  OnceInv'
<1>1. \A j \in Workers : Held(w'[j]) \subseteq Held(w[j])
  BY DEF Stays
<1>2. \A k \in Rows : Taken(k)' => Taken(k)
  BY <1>1 DEF Taken
<1>3. ASSUME NEW p \in Int, Fresh(p)' PROVE Fresh(p)
  <2>1. next_partition \in Int /\ next_partition' \in Int
    BY DEF TypeOK
  <2> QED BY <1>3, <2>1 DEF Fresh, Stays
<1>4. \A k, p : Cover(p, k)' <=> Cover(p, k)
  BY DEF Stays, Cover
<1>5. (\A j \in Workers : w[j].todo \cap Appended(w[j]) = {} /\ NoDuplicates(w[j].chunk))'
  BY DEF OnceInv, Stays
<1>6. (\A k \in Rows : delivered[k] <= 1)'
  BY DEF OnceInv
<1>7. (\A j \in Workers : \A k \in Held(w[j]) :
        delivered[k] = 0 /\ \A l \in Workers : j # l => k \notin Held(w[l]))'
  BY <1>1 DEF OnceInv
<1>8. (\A k \in Rows : \A p \in 0..(partitions - 1) : Taken(k) /\ Cover(p, k) => ~Fresh(p))'
  BY <1>2, <1>3, <1>4 DEF OnceInv, Stays
<1> QED BY <1>5, <1>6, <1>7, <1>8 DEF OnceInv

\* What a worker about to open a cursor is going to read.
LEMMA OpenedRows ==
  ASSUME TypeOK, WorkersInv, CutInv, DrainInv, NEW i \in Workers, w[i].pc \in Opening
  PROVE  /\ w[i].part \in 0..(partitions - 1) /\ w[i].part < next_partition
         /\ PartitionRows(w[i].part) = {k \in table : Cover(w[i].part, k)}
         /\ w[i].todo = {}
<1>1. w[i].part \in Nat /\ w[i].part < next_partition /\ w[i].todo = {}
  BY DEF DrainInv, WorkersInv, PartInv, Worker
<1>2. next_partition \in 0..partitions /\ partitions \in Nat
  BY DEF TypeOK
<1>3. w[i].part \in 0..(partitions - 1)
  BY <1>1, <1>2
<1>4. w[i].part = 0 \/ probe.found = "yes"
  BY <1>1, <1>2 DEF CutInv
<1> QED BY <1>1, <1>3, <1>4, RowsCovered

LEMMA SliceOfRows == \A rows : PushedSlice(rows) \subseteq rows
BY DEF PushedSlice

\* A partition is fresh after the cursor opens if it was, and is not that one.
LEMMA FreshAfterOpen ==
  ASSUME TypeOK, WorkersInv, NEW i \in Workers, Stays(i), Opens(i), NEW p \in Nat,
         w[i].part # NoWork
  PROVE  Fresh(p)' <=> Fresh(p) /\ p # w[i].part
<1>1. w[i].part \in Nat /\ w[i].part < next_partition /\ next_partition \in Nat
  BY DEF WorkersInv, PartInv, Worker, TypeOK
<1>2. \A j \in Workers : j # i => w[j].part # w[i].part
  BY DEF WorkersInv, PartInv
<1>3. w[i].pc \in Opening /\ w'[i].pc \notin Opening /\ UNCHANGED next_partition
  BY DEF Opens, Opening
<1>4. \A j \in Workers : j # i => w'[j] = w[j]
  BY DEF Stays
<1>5. ASSUME Fresh(p)' PROVE Fresh(p) /\ p # w[i].part
  <2>1. CASE p >= next_partition
    BY <1>1, <2>1 DEF Fresh
  <2>2. CASE \E j \in Workers : w'[j].part = p /\ w'[j].pc \in Opening
    BY <1>2, <1>3, <1>4, <2>2 DEF Fresh
  <2> QED BY <1>3, <1>5, <2>1, <2>2 DEF Fresh
<1>6. ASSUME Fresh(p), p # w[i].part PROVE Fresh(p)'
  <2>1. CASE p >= next_partition
    BY <1>3, <2>1 DEF Fresh
  <2>2. CASE \E j \in Workers : w[j].part = p /\ w[j].pc \in Opening
    BY <1>4, <1>6, <2>2 DEF Fresh
  <2> QED BY <1>6, <2>1, <2>2 DEF Fresh
<1> QED BY <1>5, <1>6

LEMMA OpensOnce ==
  ASSUME TypeOK, WorkersInv, WorkersInv', CutInv, DrainInv, OnceInv, NEW i \in Workers,
         Stays(i), Opens(i)
  PROVE  OnceInv'
<1> DEFINE q == w[i].part
           new == w'[i].todo
<1>0. /\ w[i].pc \in Opening /\ q # NoWork /\ UNCHANGED <<delivered, next_partition>>
      /\ w'[i].chunk = w[i].chunk
  BY DEF Opens, Opening, DrainInv
<1>1. q \in 0..(partitions - 1) /\ q \in Nat /\ w[i].todo = {}
  BY <1>0, OpenedRows
<1>2. new \subseteq Rows /\ \A k \in new : Cover(q, k)
  <2>1. PartitionRows(q) = {k \in table : Cover(q, k)}
    BY <1>0, OpenedRows
  <2> QED BY <2>1, SliceOfRows DEF Opens, TypeOK
<1>3. \A k \in new : ~Taken(k)
  <2>1. Fresh(q)
    BY <1>0 DEF Fresh
  <2> QED BY <1>1, <1>2, <2>1 DEF OnceInv
<1>4. /\ Appended(w'[i]) = Appended(w[i]) /\ Held(w'[i]) = new \cup Held(w[i])
      /\ \A j \in Workers : j # i => w'[j] = w[j]
  BY <1>0, <1>1 DEF Appended, Held, Stays
<1>5. \A k \in Rows : Taken(k)' => Taken(k) \/ k \in new
  BY <1>0, <1>4 DEF Taken
<1>6. \A k, p : Cover(p, k)' <=> Cover(p, k)
  BY DEF Stays, Cover
<1>7. (\A k \in Rows : delivered[k] <= 1)'
  BY <1>0 DEF OnceInv
<1>8. (\A j \in Workers : w[j].todo \cap Appended(w[j]) = {} /\ NoDuplicates(w[j].chunk))'
  <2>1. new \cap Appended(w[i]) = {}
    BY <1>3 DEF Taken, Held
  <2> QED BY <1>0, <1>4, <2>1 DEF OnceInv
<1>9. (\A j \in Workers : \A k \in Held(w[j]) :
        delivered[k] = 0 /\ \A l \in Workers : j # l => k \notin Held(w[l]))'
  <2>1. \A k \in new : delivered[k] = 0 /\ \A j \in Workers : k \notin Held(w[j])
    <3>1. \A k \in Rows : delivered[k] \in Nat
      BY DEF TypeOK
    <3> QED BY <1>2, <1>3, <3>1 DEF Taken
  <2>2. ASSUME NEW j \in Workers, NEW k \in Held(w'[j])
        PROVE  delivered[k] = 0 /\ \A l \in Workers : j # l => k \notin Held(w'[l])
    <3>1. CASE k \in new
      BY <1>4, <2>1, <2>2, <3>1
    <3>2. CASE k \notin new
      <4>1. k \in Held(w[j])
        BY <1>4, <2>2, <3>2
      <4> QED BY <1>4, <3>2, <4>1 DEF OnceInv
    <3> QED BY <3>1, <3>2
  <2> QED BY <1>0, <2>2
<1>10. (\A k \in Rows : \A p \in 0..(partitions - 1) : Taken(k) /\ Cover(p, k) => ~Fresh(p))'
  <2>1. ASSUME NEW k \in Rows, NEW p \in 0..(partitions - 1), Taken(k)', Cover(p, k)
        PROVE  ~Fresh(p)'
    <3>1. p \in Nat /\ (Fresh(p)' <=> Fresh(p) /\ p # q)
      BY <1>0, FreshAfterOpen
    <3>2. CASE Taken(k)
      BY <2>1, <3>1, <3>2 DEF OnceInv
    <3>3. CASE k \in new
      BY <1>1, <1>2, <2>1, <3>1, <3>3, CoverOnce
    <3> QED BY <1>5, <2>1, <3>2, <3>3
  <2>2. UNCHANGED partitions
    BY DEF Stays
  <2> QED BY <1>6, <2>1, <2>2
<1> QED BY <1>7, <1>8, <1>9, <1>10 DEF OnceInv

LEMMA ReturnsOnce ==
  ASSUME TypeOK, WorkersInv, WorkersInv', OnceInv, NEW i \in Workers, Stays(i), Returns(i),
         status = "running"
  PROVE  OnceInv'
<1>1. /\ Held(w'[i]) = w[i].todo /\ Appended(w'[i]) = {} /\ NoDuplicates(w'[i].chunk)
      /\ \A j \in Workers : j # i => w'[j] = w[j]
      /\ UNCHANGED next_partition
      /\ w[i].pc \notin Opening /\ w'[i].pc \notin Opening
  BY NoneAppended DEF Returns, Stays, Opening
<1>2. \A k \in Rows : delivered'[k] = IF k \in Appended(w[i]) THEN 1 ELSE delivered[k]
  BY ReturnedRows
<1>3. \A j \in Workers : Held(w'[j]) \subseteq Held(w[j]) /\ Held(w[j]) \subseteq Rows
  BY <1>1, AppendedType DEF Held, WorkersInv
<1>4. \A k \in Rows : Taken(k)' => Taken(k)
  BY <1>2, <1>3 DEF Taken, Held
<1>5. \A p : Fresh(p)' <=> Fresh(p)
  BY <1>1 DEF Fresh
<1>6. \A k, p : Cover(p, k)' <=> Cover(p, k)
  BY DEF Stays, Cover
<1>7. (\A k \in Rows : delivered[k] <= 1)'
  BY <1>2 DEF OnceInv
<1>8. (\A j \in Workers : w[j].todo \cap Appended(w[j]) = {} /\ NoDuplicates(w[j].chunk))'
  BY <1>1 DEF OnceInv
<1>9. (\A j \in Workers : \A k \in Held(w[j]) :
        delivered[k] = 0 /\ \A l \in Workers : j # l => k \notin Held(w[l]))'
  <2>1. ASSUME NEW j \in Workers, NEW k \in Held(w'[j])
        PROVE  delivered'[k] = 0 /\ \A l \in Workers : j # l => k \notin Held(w'[l])
    <3>1. /\ k \in Rows /\ k \in Held(w[j]) /\ delivered[k] = 0
          /\ \A l \in Workers : j # l => k \notin Held(w[l])
      BY <1>3, <2>1 DEF OnceInv
    <3>2. k \notin Appended(w[i])
      <4>1. CASE j = i
        BY <1>1, <2>1, <4>1 DEF OnceInv
      <4>2. CASE j # i
        BY <3>1, <4>2 DEF Held
      <4> QED BY <4>1, <4>2
    <3> QED BY <1>2, <1>3, <3>1, <3>2
  <2> QED BY <2>1
<1>10. (\A k \in Rows : \A p \in 0..(partitions - 1) : Taken(k) /\ Cover(p, k) => ~Fresh(p))'
  BY <1>4, <1>5, <1>6 DEF OnceInv, Stays
<1> QED BY <1>7, <1>8, <1>9, <1>10 DEF OnceInv

LEMMA MovesOnce ==
  ASSUME TypeOK, WorkersInv, WorkersInv', CutInv, DrainInv, OnceInv, NEW i \in Workers, Stays(i),
         \/ Passes(i) \/ Pops(i) \/ Opens(i) \/ (\E k \in w[i].todo : Fetches(i, k))
         \/ Closes(i) \/ Returns(i) \/ TearsDown(i)
  PROVE  OnceInv'
<1> DEFINE r == w[i]
           s == w'[i]
<1>0. /\ next_partition \in Nat /\ r \in Worker /\ s \in Worker
      /\ r.todo \cap Appended(r) = {} /\ NoDuplicates(r.chunk)
  BY DEF TypeOK, WorkersInv, OnceInv
<1>1. CASE Passes(i) \/ Pops(i)
  <2>1. s.todo = r.todo /\ s.chunk = r.chunk /\ UNCHANGED delivered
    BY <1>1 DEF Passes, Pops, Same
  <2>2. Held(s) = Held(r) /\ Appended(s) = Appended(r)
    BY <2>1 DEF Held, Appended
  <2>3. next_partition' \in Nat /\ next_partition <= next_partition'
    BY <1>0, <1>1 DEF Passes, Pops
  <2>4. s.pc \in Opening => (r.pc \in Opening /\ s.part = r.part) \/ s.part >= next_partition
    BY <1>0, <1>1 DEF Passes, Pops, Same, Opening, Running, Through, Broken, Drained
  <2> QED BY <1>0, <2>1, <2>2, <2>3, <2>4, ShrinkKeepsOnce
<1>2. CASE Opens(i)
  BY <1>2, OpensOnce
<1>3. CASE \E k \in w[i].todo : Fetches(i, k)
  <2>1. PICK k \in w[i].todo : Fetches(i, k)
    BY <1>3
  <2>2. /\ k \in Rows /\ s.todo = r.todo \ {k} /\ UNCHANGED <<delivered, next_partition>>
        /\ s.pc \notin Opening
        /\ s.chunk = r.chunk \/ s.chunk = Append(r.chunk, k)
    BY <1>0, <2>1 DEF Fetches, LoopEnd, Broken, Opening, Worker
  <2>3. CASE s.chunk = r.chunk
    <3>1. Appended(s) = Appended(r)
      BY <2>3 DEF Appended
    <3> QED BY <1>0, <2>2, <2>3, <3>1, ShrinkKeepsOnce DEF Held
  <2>4. CASE s.chunk = Append(r.chunk, k)
    <3>1. Appended(s) = Appended(r) \cup {k} /\ NoDuplicates(s.chunk)
      <4>1. k \notin Appended(r)
        BY <1>0, <2>1
      <4> QED BY <1>0, <2>2, <2>4, <4>1, OneAppended
    <3> QED BY <1>0, <2>1, <2>2, <3>1, ShrinkKeepsOnce DEF Held
  <2> QED BY <2>2, <2>3, <2>4
<1>4. CASE Closes(i)
  <2>1. /\ s.todo = {} /\ s.chunk = r.chunk /\ UNCHANGED <<delivered, next_partition>>
        /\ s.pc \notin Opening
    BY <1>4 DEF Closes, Closed, LoopEnd, Through, Opening
  <2>2. Appended(s) = Appended(r)
    BY <2>1 DEF Appended
  <2> QED BY <1>0, <2>1, <2>2, ShrinkKeepsOnce DEF Held
<1>5. CASE TearsDown(i) \/ (Returns(i) /\ status # "running")
  <2>1. /\ s.chunk = <<>> /\ s.todo \subseteq r.todo /\ UNCHANGED <<delivered, next_partition>>
        /\ s.pc \notin Opening
    BY <1>5 DEF TearsDown, Returns, Opening
  <2>2. Appended(s) = {} /\ Held(s) = s.todo /\ NoDuplicates(s.chunk)
    BY <2>1, NoneAppended
  <2> QED BY <1>0, <2>1, <2>2, ShrinkKeepsOnce DEF Held
<1>6. CASE Returns(i) /\ status = "running"
  BY <1>6, ReturnsOnce
<1> QED BY <1>1, <1>2, <1>3, <1>4, <1>5, <1>6

LEMMA IdleHoldsNothing ==
  ASSUME NEW r, Same(r, Idle)
  PROVE  Held(r) = {} /\ Appended(r) = {} /\ r.todo = {} /\ r.chunk = <<>> /\ NoDuplicates(r.chunk)
BY IdleWorker, NoneAppended DEF Same

LEMMA NextOnceInv ==
  ASSUME TypeOK, WorkersInv, WorkersInv', CutInv, DrainInv, OnceInv, [Next]_vars
  PROVE  OnceInv'
<1>1. CASE Begin
  <2>1. (\A i \in Workers : w[i] = Idle)' /\ delivered' = [r \in Rows |-> 0]
    BY <1>1 DEF Begin
  <2>2. \A k \in Rows : ~Taken(k)'
    BY <2>1, IdleWorker, IdleHoldsNothing DEF Taken
  <2>3. (\A i \in Workers : Held(w[i]) = {} /\ NoDuplicates(w[i].chunk) /\ w[i].todo = {})'
    BY <2>1, IdleWorker, IdleHoldsNothing
  <2> QED BY <2>1, <2>2, <2>3 DEF OnceInv
<1>2. CASE Abort \/ Finish
  BY <1>2 DEF Abort, Finish, EndQuery, OnceInv, Taken, Fresh, Cover
<1>3. CASE Insert \/ Tick \/ UNCHANGED vars
  BY <1>3 DEF Insert, Tick, vars, shared, OnceInv, Taken, Fresh, Cover
<1>4. CASE \E i \in Workers : Work(i) \/ Schedule(i)
  BY <1>4, WorkerStays, WorkerMoves, MovesOnce
<1> QED BY <1>1, <1>2, <1>3, <1>4 DEF Next

-----------------------------------------------------------------------------
(* Nothing is left out.                                                    *)

\* An ATTACHed table that is scanned more than once does not grow meanwhile:
\* its key range is probed once, and rows inserted outside it later are not
\* in any partition.
NoStaleProbe ==
  \A b \in Binds : b.attached /\ b.has_pk /\ Env[b].queries > 1 => Env[b].inserts = {}

BaseInv ==
  probe.found = "yes" =>
    /\ status = "running" => base \subseteq probe.lo..probe.hi
    /\ Attached /\ Env[bind].queries > 1 => table \subseteq probe.lo..probe.hi

LEMMA NextBaseInv ==
  ASSUME NoStaleProbe, TypeOK, WorkersInv, WorkersInv', CutInv, BaseInv, [Next]_vars
  PROVE  BaseInv'
<1>1. CASE Begin
  <2> SUFFICES ASSUME probe'.found = "yes"
               PROVE  table \subseteq probe'.lo..probe'.hi
    BY <1>1 DEF Begin, BaseInv
  <2>1. CASE probe' \in KeyRanges
    <3>1. table \subseteq Int
      BY RowsAreKeys DEF TypeOK
    <3>2. \A k \in table : probe'.lo <= k /\ k <= probe'.hi
      BY <2>1 DEF KeyRanges
    <3> QED BY <3>1, <3>2
  <2>2. CASE Attached /\ probe' = probe
    <3>1. /\ query >= 1 /\ query < Env[bind].queries /\ query \in Nat
          /\ Env[bind].queries \in Nat
      BY <1>1, <2>2, ScanAssumption DEF Begin, CutInv, TypeOK, Surroundings
    <3>2. Env[bind].queries > 1
      BY <3>1
    <3> QED BY <2>2, <3>2 DEF BaseInv
  <2> QED BY <1>1, <2>1, <2>2, ProbeFinds
<1>2. CASE Abort \/ Finish
  BY <1>2 DEF Abort, Finish, EndQuery, BaseInv, Attached
<1>3. CASE Insert
  <2>1. UNCHANGED <<bind, probe, status, base>> /\ Env[bind].inserts # {}
    BY <1>3 DEF Insert, shared
  <2>2. probe.found = "yes" /\ Attached => ~(Env[bind].queries > 1)
    BY <2>1 DEF NoStaleProbe, CutInv, TypeOK, Attached
  <2> QED BY <2>1, <2>2 DEF BaseInv, Attached
<1>4. CASE Tick \/ UNCHANGED vars
  BY <1>4 DEF Tick, vars, shared, BaseInv, Attached
<1>5. CASE \E i \in Workers : Work(i) \/ Schedule(i)
  BY <1>5, WorkerStays DEF Stays, BaseInv, Attached
<1> QED BY <1>1, <1>2, <1>3, <1>4, <1>5 DEF Next

Breaks == \E i \in Workers : w[i].pc \in Broken

\* Without a slice, every row is taken or still to be read by someone.
AllInv ==
  status = "running" /\ RowLimit = 0 /\ ~Breaks =>
    \A k \in base : Taken(k) \/ \E p \in 0..(partitions - 1) : Cover(p, k) /\ Fresh(p)

\* A scan that runs on has no worker that has failed: a failed worker stays so.
LEMMA StaysBroken ==
  ASSUME TypeOK, NEW i \in Workers, Stays(i), status = "running",
         \/ Passes(i) \/ Pops(i) \/ Opens(i) \/ (\E k \in w[i].todo : Fetches(i, k))
         \/ Closes(i) \/ Returns(i) \/ TearsDown(i), ~Breaks'
  PROVE  ~Breaks /\ w'[i].pc \notin Broken
<1>1. w'[i].pc \notin Broken /\ \A j \in Workers : j # i => w'[j] = w[j]
  BY DEF Breaks, Stays
<1>2. w[i].pc \notin Broken
  BY <1>1 DEF Passes, Pops, Opens, Fetches, Closes, Returns, TearsDown, MayTearDown,
     Broken, Running, Opening, Through, Drained
<1> QED BY <1>1, <1>2 DEF Breaks

\* A move after which as much is taken and as much is fresh.
LEMMA NothingLost ==
  ASSUME TypeOK, AllInv, NEW i \in Workers, Stays(i), ~Breaks,
         \A k \in Rows : Taken(k) => Taken(k)',
         \A p \in Nat : Fresh(p) => Fresh(p)'
  PROVE  AllInv'
<1>1. \A k, p : Cover(p, k)' <=> Cover(p, k)
  BY DEF Stays, Cover
<1>2. \A k \in base : k \in Rows
  BY DEF TypeOK
<1>3. UNCHANGED <<status, base, partitions, bind>>
  BY DEF Stays
<1> SUFFICES ASSUME status = "running", RowLimit = 0, NEW k \in base
             PROVE  Taken(k)' \/ \E p \in 0..(partitions - 1) : Cover(p, k)' /\ Fresh(p)'
  BY <1>3 DEF AllInv, RowLimit
<1>4. Taken(k) \/ \E p \in 0..(partitions - 1) : Cover(p, k) /\ Fresh(p)
  BY DEF AllInv
<1>5. \A p \in 0..(partitions - 1) : p \in Nat
  OBVIOUS
<1> QED BY <1>1, <1>2, <1>4, <1>5

LEMMA MovesAll ==
  ASSUME TypeOK, WorkersInv, WorkersInv', CutInv, DrainInv, OnceInv, AllInv,
         NEW i \in Workers, Stays(i),
         \/ Passes(i) \/ Pops(i) \/ Opens(i) \/ (\E k \in w[i].todo : Fetches(i, k))
         \/ Closes(i) \/ Returns(i) \/ TearsDown(i)
  PROVE  AllInv'
<1> DEFINE r == w[i]
           s == w'[i]
<1>a. UNCHANGED <<status, bind>>
  BY DEF Stays
<1> SUFFICES ASSUME status = "running", RowLimit = 0, ~Breaks'
             PROVE  AllInv'
  BY <1>a DEF AllInv, RowLimit
<1>0. /\ ~Breaks /\ s.pc \notin Broken /\ ~LocalSlice /\ ~AtLimit(i) /\ ~Skips(i)
      /\ \A j \in Workers : j # i => w'[j] = w[j]
      /\ r \in Worker /\ s \in Worker /\ next_partition \in Nat
  BY StaysBroken, BindFacts
     DEF Stays, LocalSlice, Paging, AtLimit, Skips, WorkersInv, TypeOK
\* Moves that open nothing and where the worker holds what it held.
<1>1. ASSUME Held(s) = Held(r), UNCHANGED <<delivered, next_partition>>,
             r.pc \in Opening => s.pc \in Opening /\ s.part = r.part
      PROVE  AllInv'
  <2>1. \A k \in Rows : Taken(k) => Taken(k)'
    BY <1>0, <1>1 DEF Taken
  <2>2. \A p \in Nat : Fresh(p) => Fresh(p)'
    BY <1>0, <1>1 DEF Fresh
  <2> QED BY <1>0, <2>1, <2>2, NothingLost
<1>2. CASE Passes(i)
  <2>1. Held(s) = Held(r)
    BY <1>2 DEF Passes, Same, Held, Appended
  <2> QED BY <1>0, <1>1, <1>2, <2>1
          DEF Passes, Same, Opening, Running, Through, Broken, Drained
<1>3. CASE Pops(i)
  <2>1. Held(s) = Held(r) /\ UNCHANGED delivered
    BY <1>3 DEF Pops, Held, Appended
  <2>2. \A k \in Rows : Taken(k) => Taken(k)'
    BY <1>0, <2>1 DEF Taken
  <2>3. ASSUME NEW p \in Nat, Fresh(p) PROVE Fresh(p)'
    <3>1. /\ next_partition' = next_partition + 1 /\ s.part = next_partition
          /\ s.pc \in Opening /\ r.pc \notin Opening
      BY <1>3 DEF Pops, Opening
    <3>2. CASE p = next_partition
      BY <3>1, <3>2 DEF Fresh
    <3>3. CASE p >= next_partition /\ p # next_partition
      <4>1. p >= next_partition + 1
        BY <1>0, <3>3
      <4> QED BY <3>1, <4>1 DEF Fresh
    <3>4. CASE \E j \in Workers : w[j].part = p /\ w[j].pc \in Opening
      BY <1>0, <3>1, <3>4 DEF Fresh
    <3> QED BY <2>3, <3>2, <3>3, <3>4 DEF Fresh
  <2> QED BY <1>0, <2>2, <2>3, NothingLost
<1>4. CASE Opens(i)
  <2>1. /\ r.pc \in Opening /\ r.todo = {} /\ r.part # NoWork
        /\ PartitionRows(r.part) = {k \in table : Cover(r.part, k)}
    BY <1>4, OpenedRows DEF Opens, Opening, DrainInv
  <2>2. s.todo = {k \in table : Cover(r.part, k)} /\ UNCHANGED <<delivered, next_partition>>
    BY <1>0, <1>4, <2>1 DEF Opens, PushedSlice, Paging
  <2>3. Held(s) = s.todo \cup Held(r)
    BY <1>4, <2>1 DEF Opens, Held, Appended
  <2>4. \A k \in Rows : Taken(k) => Taken(k)'
    BY <1>0, <2>2, <2>3 DEF Taken
  <2>5. \A k, p : Cover(p, k)' <=> Cover(p, k)
    BY DEF Stays, Cover
  <2>6. UNCHANGED <<base, partitions>> /\ base \subseteq table /\ base \subseteq Rows
    BY DEF Stays, TypeOK
  <2>7. ASSUME NEW k \in base
        PROVE  Taken(k)' \/ \E p \in 0..(partitions - 1) : Cover(p, k)' /\ Fresh(p)'
    <3>1. CASE Taken(k)
      BY <2>4, <2>6, <3>1
    <3>2. CASE \E p \in 0..(partitions - 1) : Cover(p, k) /\ Fresh(p)
      <4>1. PICK p \in 0..(partitions - 1) : Cover(p, k) /\ Fresh(p)
        BY <3>2
      <4>2. CASE p = r.part
        <5>1. k \in Held(s)
          BY <2>2, <2>3, <2>6, <4>1, <4>2
        <5> QED BY <5>1 DEF Taken
      <4>3. CASE p # r.part
        <5>1. p \in Nat
          OBVIOUS
        <5>2. Fresh(p)'
          BY <1>4, <2>1, <4>1, <4>3, <5>1, FreshAfterOpen
        <5> QED BY <2>5, <4>1, <5>2
      <4> QED BY <4>2, <4>3
    <3> QED BY <1>0, <3>1, <3>2 DEF AllInv
  <2> QED BY <2>6, <2>7 DEF AllInv
<1>5. CASE \E k \in w[i].todo : Fetches(i, k)
  <2>1. PICK k \in w[i].todo : Fetches(i, k)
    BY <1>5
  <2>2. /\ s.chunk = Append(r.chunk, k) /\ k \in Rows /\ s.todo = r.todo \ {k}
        /\ UNCHANGED <<delivered, next_partition>> /\ r.pc \notin Opening
    BY <1>0, <2>1 DEF Fetches, Broken, Opening, Worker
  <2>3. Held(s) = Held(r)
    BY <1>0, <2>1, <2>2, OneAppended DEF Held
  <2> QED BY <1>1, <2>2, <2>3
<1>6. CASE Closes(i)
  <2>1. /\ r.todo = {} /\ s.todo = {} /\ s.chunk = r.chunk
        /\ UNCHANGED <<delivered, next_partition>> /\ r.pc \notin Opening
    BY <1>0, <1>6 DEF Closes, Closed, Opening
  <2>2. Held(s) = Held(r)
    BY <2>1 DEF Held, Appended
  <2> QED BY <1>1, <2>1, <2>2
<1>7. CASE Returns(i)
  <2>1. \A k \in Rows : delivered'[k] = IF k \in Appended(r) THEN 1 ELSE delivered[k]
    BY <1>7, ReturnedRows
  <2>2. Held(s) = r.todo
    BY <1>7, NoneAppended DEF Returns
  <2>3. \A k \in Rows : Taken(k) => Taken(k)'
    BY <1>0, <2>1, <2>2 DEF Taken, Held
  <2>4. \A p \in Nat : Fresh(p) => Fresh(p)'
    BY <1>0, <1>7 DEF Fresh, Returns, Opening
  <2> QED BY <1>0, <2>3, <2>4, NothingLost
<1>8. CASE TearsDown(i)
  <2>1. r.pc = "exhausted"
    BY <1>8 DEF TearsDown, MayTearDown
  <2>2. r.todo = {} /\ r.chunk = <<>>
    BY <2>1 DEF DrainInv, Drained
  <2>3. Held(s) = {} /\ Held(r) = {}
    BY <1>8, <2>2, NoneAppended DEF TearsDown
  <2> QED BY <1>1, <1>8, <2>1, <2>3 DEF TearsDown, Opening
<1> QED BY <1>2, <1>3, <1>4, <1>5, <1>6, <1>7, <1>8

LEMMA NextAllInv ==
  ASSUME NoStaleProbe, TypeOK, TypeOK', WorkersInv, WorkersInv', CutInv, CutInv', BaseInv,
         DrainInv, OnceInv, AllInv, [Next]_vars
  PROVE  AllInv'
<1>1. CASE Begin
  <2>1. BaseInv' /\ status' = "running" /\ next_partition' = 0 /\ base' \subseteq Rows
    BY <1>1, NextBaseInv DEF Begin, InitGlobal, TypeOK
  <2>2. 0 \in 0..(partitions' - 1)
    <3>1. partitions' \in Nat /\ partitions' >= 1
      BY <2>1 DEF TypeOK, CutInv
    <3>2. \A n \in Nat : n >= 1 => 0 \in 0..(n - 1)
      OBVIOUS
    <3> QED BY ONLY <3>1, <3>2
  <2>3. ASSUME NEW k \in base' PROVE \E p \in 0..(partitions' - 1) : Cover(p, k)'
    <3>1. CASE probe'.found = "yes"
      <4>1. /\ probe'.lo \in Int64 /\ probe'.hi \in Int64 /\ probe'.lo <= probe'.hi
            /\ partitions' \in 1..(probe'.hi - probe'.lo + 1)
        BY <3>1, BoundsAssumption DEF CutInv, Int64, IntMin
      <4>2. k \in probe'.lo..probe'.hi
        BY <2>1, <2>3, <3>1 DEF BaseInv
      <4> QED BY <3>1, <4>1, <4>2, PartitionOfKey DEF Cover
    <3>2. CASE probe'.found # "yes"
      <4>1. Cover(0, k)'
        BY <3>2 DEF Cover
      <4> QED BY <2>2, <4>1
    <3> QED BY <3>1, <3>2
  <2>4. \A p \in 0..(partitions' - 1) : Fresh(p)'
    BY <2>1 DEF Fresh
  <2> QED BY <2>3, <2>4 DEF AllInv
<1>2. CASE Abort \/ Finish
  BY <1>2 DEF Abort, Finish, EndQuery, AllInv
<1>3. CASE Insert \/ Tick \/ UNCHANGED vars
  BY <1>3 DEF Insert, Tick, vars, shared, AllInv, Taken, Fresh, Cover, Breaks, RowLimit
<1>4. CASE \E i \in Workers : Work(i) \/ Schedule(i)
  BY <1>4, WorkerStays, WorkerMoves, MovesAll
<1> QED BY <1>1, <1>2, <1>3, <1>4 DEF Next

-----------------------------------------------------------------------------
(* How many rows a slice has.                                              *)

Rank(rows, k) == Cardinality({j \in rows : j < k})

\* Distinct rows have distinct ranks, all below the number of rows.
LEMMA RanksAreDistinct ==
  ASSUME NEW rows \in SUBSET Int, IsFiniteSet(rows)
  PROVE  /\ \A k \in rows : Rank(rows, k) \in 0..(Cardinality(rows) - 1)
         /\ \A j, k \in rows : Rank(rows, j) = Rank(rows, k) => j = k
<1> DEFINE Below(k) == {j \in rows : j < k}
<1>1. \A k : IsFiniteSet(Below(k)) /\ Cardinality(Below(k)) \in Nat
  BY FS_Subset, FS_CardinalityType
<1>2. ASSUME NEW k \in rows PROVE Rank(rows, k) \in 0..(Cardinality(rows) - 1)
  <2>1. Below(k) \in SUBSET rows /\ Below(k) # rows
    BY <1>2
  <2>2. Cardinality(Below(k)) <= Cardinality(rows) /\ Cardinality(rows) # Cardinality(Below(k))
    BY <2>1, FS_Subset
  <2>3. Cardinality(rows) \in Nat
    BY FS_CardinalityType
  <2> QED BY <1>1, <2>2, <2>3 DEF Rank
<1>3. ASSUME NEW j \in rows, NEW k \in rows, j < k PROVE Rank(rows, j) # Rank(rows, k)
  <2>1. Below(j) \in SUBSET Below(k) /\ Below(j) # Below(k)
    <3>1. j \in Int /\ k \in Int /\ \A l \in rows : l \in Int
      OBVIOUS
    <3>2. \A l \in rows : l < j => l < k
      BY <1>3, <3>1
    <3>3. j \in Below(k) /\ j \notin Below(j)
      BY <1>3, <3>1
    <3> QED BY <3>2, <3>3
  <2>2. Cardinality(Below(k)) # Cardinality(Below(j))
    BY <1>1, <2>1, FS_Subset
  <2> QED BY <2>2 DEF Rank
<1>4. \A j, k \in rows : j = k \/ j < k \/ k < j
  OBVIOUS
<1> QED BY <1>2, <1>3, <1>4

\* The rows ranked from..to are as many as the ranks from..to.
LEMMA RankedRows ==
  ASSUME NEW rows \in SUBSET Int, IsFiniteSet(rows), NEW from \in Nat, NEW to \in Int
  PROVE  Cardinality({k \in rows : Rank(rows, k) \in from..to})
           = Cardinality((0..(Cardinality(rows) - 1)) \cap (from..to))
<1> DEFINE n == Cardinality(rows)
           S == 0..(n - 1)
           f == [k \in rows |-> Rank(rows, k)]
           R == {k \in rows : Rank(rows, k) \in from..to}
           I == S \cap (from..to)
           g == [k \in R |-> Rank(rows, k)]
<1>1. n \in Nat /\ IsFiniteSet(S) /\ Cardinality(S) = n
  <2>1. n \in Nat
    BY FS_CardinalityType
  <2>2. n - 1 \in Int /\ (0 > n - 1 <=> n = 0)
    BY <2>1
  <2> QED BY <2>1, <2>2, FS_Interval
<1>2. /\ \A k \in rows : Rank(rows, k) \in S
      /\ \A j, k \in rows : Rank(rows, j) = Rank(rows, k) => j = k
  BY RanksAreDistinct
<1> HIDE DEF n, S
<1>3. f \in Injection(rows, S)
  BY <1>2 DEF Injection, IsInjective
<1>4. f \in Surjection(rows, S)
  BY <1>1, <1>3, FS_Injection DEF n
<1>5. g \in Bijection(R, I)
  <2>1. g \in Injection(R, I)
    BY <1>2 DEF Injection, IsInjective
  <2>2. g \in Surjection(R, I)
    BY <1>2, <1>4 DEF Surjection
  <2> QED BY <2>1, <2>2 DEF Bijection
<1>6. IsFiniteSet(R)
  BY FS_Subset
<1> QED BY <1>5, <1>6, FS_Bijection DEF ExistsBijection, n, S

\* What ROWS m TO n returns is as large as the promise says.
LEMMA SliceHas ==
  ASSUME NEW rows \in SUBSET Int, IsFiniteSet(rows), NEW off \in Nat, NEW lim \in Nat
  PROVE  Cardinality({k \in rows : Rank(rows, k) \in off..(off + lim - 1)})
           = LET rest == IF Cardinality(rows) > off THEN Cardinality(rows) - off ELSE 0
             IN IF rest < lim THEN rest ELSE lim
<1> DEFINE n == Cardinality(rows)
           m == IF n <= off + lim THEN n - 1 ELSE off + lim - 1
<1>1. n \in Nat /\ m \in Int
  BY FS_CardinalityType
<1>2. Cardinality({k \in rows : Rank(rows, k) \in off..(off + lim - 1)})
        = Cardinality((0..(n - 1)) \cap (off..(off + lim - 1)))
  <2>1. off + lim - 1 \in Int
    OBVIOUS
  <2> QED BY <2>1, RankedRows
<1> HIDE DEF n
<1>3. (0..(n - 1)) \cap (off..(off + lim - 1)) = off..m
  BY <1>1
<1>4. Cardinality(off..m) = IF off > m THEN 0 ELSE m - off + 1
  BY <1>1, FS_Interval
<1>5. (IF off > m THEN 0 ELSE m - off + 1)
        = LET rest == IF n > off THEN n - off ELSE 0 IN IF rest < lim THEN rest ELSE lim
  BY <1>1
<1> HIDE DEF m
<1> QED BY <1>2, <1>3, <1>4, <1>5 DEF n

Quota == Table!SliceSize(Cardinality(base))..RowLimit

LEMMA SliceSizes ==
  ASSUME RowLimit \in Nat, RowOffset \in Nat, NEW m \in Nat, NEW n \in Nat, m <= n
  PROVE  /\ Table!SliceSize(m) \in 0..RowLimit /\ Table!SliceSize(n) \in 0..RowLimit
         /\ Table!SliceSize(m) <= Table!SliceSize(n)
BY DEF Table!SliceSize

\* Enough rows have been seen for the slice to be whole.
LEMMA SliceSeen ==
  ASSUME RowLimit \in Nat, RowOffset \in Nat, NEW n \in Nat, NEW skipped \in 0..RowOffset,
         NEW emitted \in 0..RowLimit, emitted = RowLimit \/ skipped + emitted >= n
  PROVE  emitted \in Table!SliceSize(n)..RowLimit
BY DEF Table!SliceSize

LEMMA FiniteRows ==
  ASSUME NEW rows \in SUBSET Rows
  PROVE  IsFiniteSet(rows) /\ Cardinality(rows) \in Nat
BY RowsAreInt64, FS_Subset, FS_CardinalityType

\* The cursor of a sliced query has the promised number of rows.
LEMMA PushedQuota ==
  ASSUME TypeOK, NEW rows \in SUBSET Rows, base \subseteq rows, Paging, ~LocalSlice
  PROVE  Cardinality(PushedSlice(rows)) \in Quota
<1>1. RowLimit \in Nat /\ RowOffset \in Nat
  BY BindFacts DEF TypeOK
<1>2. /\ rows \in SUBSET Int /\ IsFiniteSet(rows)
      /\ Cardinality(rows) \in Nat /\ Cardinality(base) \in Nat
      /\ Cardinality(base) <= Cardinality(rows)
  <2>1. IsFiniteSet(rows) /\ Cardinality(rows) \in Nat
    BY FiniteRows
  <2>2. IsFiniteSet(base) /\ Cardinality(base) <= Cardinality(rows)
    BY <2>1, FS_Subset
  <2> QED BY <2>1, <2>2, FS_CardinalityType, RowsAreKeys
<1>3. PushedSlice(rows) = {k \in rows : Rank(rows, k) \in RowOffset..(RowOffset + RowLimit - 1)}
  BY DEF PushedSlice, Rank
<1>4. Cardinality(PushedSlice(rows)) = Table!SliceSize(Cardinality(rows))
  BY <1>1, <1>2, <1>3, SliceHas DEF Table!SliceSize
<1> QED BY <1>1, <1>2, <1>4, SliceSizes DEF Quota

-----------------------------------------------------------------------------
(* A slice is read by one worker.                                          *)

Given == {k \in Rows : delivered[k] > 0}

\* What the worker that cuts the slice itself has counted.
Counted(r, given) ==
  /\ r.rows_emitted = Cardinality(given \cup Appended(r))
  /\ r.rows_emitted <= RowLimit /\ r.rows_skipped <= RowOffset
  /\ r.rows_emitted > 0 => r.rows_skipped = RowOffset
  /\ r.cursor =>
       r.rows_skipped + r.rows_emitted + Cardinality(r.todo) >= Cardinality(base)
  /\ ~r.cursor => r.rows_emitted \in Quota

\* Its rows, once it has had a cursor; before that it has none.
SliceOf(r, n, given) ==
  IF n > 0 /\ r.pc \notin Opening
  THEN IF LocalSlice THEN Counted(r, given)
       ELSE Cardinality(given \cup Held(r)) \in Quota
  ELSE given \cup Held(r) = {} /\ r.rows_skipped = 0 /\ r.rows_emitted = 0

SliceInv ==
  status = "running" /\ RowLimit > 0 /\ ~Breaks =>
    \/ /\ \A i \in Workers : w[i].pc = "unstarted"
       /\ next_partition = 0 /\ Given = {}
    \/ \E i \in Workers :
         /\ \A j \in Workers \ {i} : w[j].pc = "unstarted"
         /\ w[i].pc # "unstarted"
         /\ SliceOf(w[i], next_partition, Given)

LEMMA QuotaFacts ==
  ASSUME TypeOK
  PROVE  /\ RowLimit \in Nat /\ RowOffset \in Nat
         /\ Cardinality(base) \in Nat
         /\ Quota \subseteq 0..RowLimit /\ RowLimit \in Quota
<1>1. RowLimit \in Nat /\ RowOffset \in Nat /\ Cardinality(base) \in Nat
  BY BindFacts, FiniteRows DEF TypeOK
<1>2. Table!SliceSize(Cardinality(base)) \in 0..RowLimit
  BY <1>1, SliceSizes
<1> QED BY <1>1, <1>2 DEF Quota

\* The worker that reads the slice opens its cursor.
LEMMA OpensSlice ==
  ASSUME TypeOK, WorkersInv, CutInv, BaseInv, DrainInv, status = "running",
         NEW i \in Workers, Opens(i), RowLimit > 0, SliceOf(w[i], next_partition, Given)
  PROVE  SliceOf(w'[i], next_partition, Given)
<1> DEFINE r == w[i]
           s == w'[i]
           rows == PartitionRows(r.part)
<1>1. /\ r.pc \in Opening /\ s.pc \notin Opening
      /\ Given \cup Held(r) = {} /\ r.rows_skipped = 0 /\ r.rows_emitted = 0
  BY DEF Opens, Opening, SliceOf
<1>2. /\ r.part \in 0..(partitions - 1) /\ r.part < next_partition
      /\ rows = {k \in table : Cover(r.part, k)}
  BY <1>1, OpenedRows
<1>3. next_partition > 0 /\ r.part = 0 /\ partitions = 1
  BY <1>2 DEF CutInv, TypeOK
<1>4. base \subseteq rows
  <2>1. CASE probe.found = "yes"
    <3>1. /\ probe.lo \in Int64 /\ probe.hi \in Int64 /\ probe.lo <= probe.hi
          /\ partitions \in 1..(probe.hi - probe.lo + 1)
      BY <2>1, BoundsAssumption DEF CutInv, Int64, IntMin
    <3>2. ASSUME NEW k \in base PROVE Cover(0, k)
      <4>1. k \in probe.lo..probe.hi
        BY <2>1, <3>2 DEF BaseInv
      <4>2. PICK p \in 0..(partitions - 1) : Covers(probe.lo, probe.hi, partitions, p, k)
        BY <3>1, <4>1, PartitionOfKey
      <4>3. p = 0
        BY <1>3, <4>2
      <4> QED BY <2>1, <4>2, <4>3 DEF Cover
    <3> QED BY <1>2, <1>3, <3>2 DEF TypeOK
  <2>2. CASE probe.found # "yes"
    BY <1>2, <1>3, <2>2 DEF Cover, TypeOK
  <2> QED BY <2>1, <2>2
<1>5. rows \subseteq Rows
  BY <1>2 DEF TypeOK
<1>6. /\ s.todo = PushedSlice(rows) /\ s.cursor /\ Counts(s, r)
      /\ Appended(s) = {} /\ Given = {} /\ Held(s) = PushedSlice(rows)
  <2>1. s.todo = PushedSlice(rows) /\ s.cursor /\ Counts(s, r) /\ s.chunk = r.chunk
    BY DEF Opens
  <2>2. Appended(r) = {} /\ Given = {}
    BY <1>1 DEF Held
  <2>3. Appended(s) = {}
    BY <2>1, <2>2 DEF Appended
  <2> QED BY <2>1, <2>2, <2>3 DEF Held
<1> HIDE DEF rows
<1>7. CASE ~LocalSlice
  <2>1. Cardinality(PushedSlice(rows)) \in Quota
    BY <1>4, <1>5, <1>7, PushedQuota DEF Paging
  <2>2. Given \cup Held(s) = PushedSlice(rows)
    BY <1>6
  <2> QED BY <1>1, <1>3, <1>7, <2>1, <2>2 DEF SliceOf
<1>8. CASE LocalSlice
  <2>1. s.todo = rows
    BY <1>6, <1>8 DEF PushedSlice
  <2>2. Cardinality(rows) >= Cardinality(base) /\ Cardinality(rows) \in Nat
    BY <1>4, <1>5, FiniteRows, FS_Subset
  <2>3. Given \cup Appended(s) = {} /\ Cardinality({}) = 0
    BY <1>6, FS_EmptySet
  <2>4. s.rows_skipped = 0 /\ s.rows_emitted = 0 /\ s.cursor
    BY <1>1, <1>6 DEF Counts
  <2>5. 0 + 0 + Cardinality(rows) >= Cardinality(base)
    BY <2>2
  <2>6. Counted(s, Given)
    BY <2>1, <2>3, <2>4, <2>5, QuotaFacts DEF Counted
  <2> QED BY <1>1, <1>3, <1>8, <2>6 DEF SliceOf
<1> QED BY <1>7, <1>8

\* It fetches a row.
LEMMA FetchesSlice ==
  ASSUME TypeOK, WorkersInv, WorkersInv', CutInv, DrainInv, OnceInv,
         NEW i \in Workers, NEW k \in w[i].todo, Fetches(i, k), w'[i].pc \notin Broken,
         RowLimit > 0, SliceOf(w[i], next_partition, Given)
  PROVE  SliceOf(w'[i], next_partition, Given)
<1> DEFINE r == w[i]
           s == w'[i]
<1>1. /\ r.pc \notin Opening /\ s.pc \notin Opening /\ r \in Worker /\ s \in Worker
      /\ k \in Rows /\ k \in r.todo
  BY DEF Fetches, LoopEnd, Opening, WorkersInv, Worker
<1>2. next_partition > 0
  <2>1. k \in Held(r)
    BY DEF Held
  <2> QED BY <1>1, <2>1 DEF SliceOf
<1>3. /\ r.cursor /\ s.cursor /\ s.todo = r.todo \ {k}
      /\ k \notin Given /\ k \notin Appended(r)
  BY DEF Fetches, DrainInv, OnceInv, Given, Held
<1>4. \/ /\ Skips(i) /\ s.chunk = r.chunk
         /\ s.rows_skipped = r.rows_skipped + 1 /\ s.rows_emitted = r.rows_emitted
      \/ /\ ~Skips(i) /\ ~AtLimit(i) /\ s.chunk = Append(r.chunk, k)
         /\ s.rows_skipped = r.rows_skipped
         /\ s.rows_emitted = IF LocalSlice THEN r.rows_emitted + 1 ELSE r.rows_emitted
  BY DEF Fetches, Broken
<1>5. CASE ~LocalSlice
  <2>1. s.chunk = Append(r.chunk, k) /\ ~Skips(i)
    BY <1>4, <1>5 DEF Skips
  <2>2. Held(s) = Held(r)
    BY SMTT(30), <1>1, <1>3, <2>1, OneAppended DEF Held
  <2> QED BY <1>1, <1>2, <1>5, <2>2 DEF SliceOf
<1>6. CASE LocalSlice
  <2>0. Counted(r, Given)
    BY <1>1, <1>2, <1>6 DEF SliceOf
  <2>1. /\ r.rows_skipped \in Nat /\ r.rows_emitted \in Nat
        /\ RowLimit \in Nat /\ RowOffset \in Nat /\ Cardinality(base) \in Nat
    BY <1>1, QuotaFacts DEF Worker
  <2>2. Cardinality(s.todo) = Cardinality(r.todo) - 1 /\ Cardinality(r.todo) \in Nat
    <3>1. IsFiniteSet(r.todo) /\ Cardinality(r.todo) \in Nat
      <4>1. r.todo \in SUBSET Rows
        BY <1>1 DEF Worker
      <4> QED BY <4>1, FiniteRows
    <3>2. k \in r.todo => Cardinality(r.todo \ {k}) = Cardinality(r.todo) - 1
      BY <3>1, FS_RemoveElement
    <3> QED BY <1>1, <1>3, <3>1, <3>2
  <2>3. CASE Skips(i)
    <3>1. /\ s.rows_skipped = r.rows_skipped + 1 /\ s.rows_emitted = r.rows_emitted
          /\ Appended(s) = Appended(r) /\ r.rows_skipped < RowOffset
      BY <1>4, <2>3 DEF Skips, Appended
    <3>2. r.rows_emitted = 0
      BY <2>0, <2>1, <3>1 DEF Counted
    <3>3. s.rows_skipped + s.rows_emitted + Cardinality(s.todo) >= Cardinality(base)
      BY <1>3, <2>0, <2>1, <2>2, <3>1 DEF Counted
    <3>4. s.rows_skipped <= RowOffset
      BY <2>1, <3>1
    <3> QED BY <1>1, <1>2, <1>3, <1>6, <2>0, <3>1, <3>2, <3>3, <3>4 DEF SliceOf, Counted
  <2>4. CASE ~Skips(i)
    <3>1. /\ s.rows_skipped = r.rows_skipped /\ s.rows_emitted = r.rows_emitted + 1
          /\ s.chunk = Append(r.chunk, k) /\ ~AtLimit(i)
      BY <1>4, <1>6, <2>4
    <3>2. r.rows_emitted < RowLimit /\ r.rows_skipped = RowOffset
      BY <1>6, <2>0, <2>1, <2>4, <3>1 DEF AtLimit, Skips, Counted
    <3>3. Appended(s) = Appended(r) \cup {k}
      BY <1>1, <3>1, OneAppended
    <3>4. IsFiniteSet(Given \cup Appended(r)) /\ Cardinality(Given \cup Appended(r)) \in Nat
      <4>1. Given \cup Appended(r) \in SUBSET Rows
        BY <1>1, AppendedType DEF Given
      <4> QED BY <4>1, FiniteRows
    <3>5. Cardinality(Given \cup Appended(s)) = Cardinality(Given \cup Appended(r)) + 1
      <4>1. Given \cup Appended(s) = (Given \cup Appended(r)) \cup {k}
        BY <3>3
      <4>2. k \notin Given \cup Appended(r)
        BY <1>3
      <4> QED BY <3>4, <4>1, <4>2, FS_AddElement
    <3>6. s.rows_emitted = Cardinality(Given \cup Appended(s))
      BY <2>0, <3>1, <3>5 DEF Counted
    <3>7. s.rows_skipped + s.rows_emitted + Cardinality(s.todo) >= Cardinality(base)
      BY SMTT(30), <1>3, <2>0, <2>1, <2>2, <3>1 DEF Counted
    <3>8. s.rows_emitted <= RowLimit /\ s.rows_skipped <= RowOffset /\ s.rows_skipped = RowOffset
      BY <2>1, <3>1, <3>2
    <3> QED BY <1>1, <1>2, <1>3, <1>6, <3>6, <3>7, <3>8 DEF SliceOf, Counted
  <2> QED BY <2>3, <2>4
<1> QED BY <1>5, <1>6

\* It closes the cursor: at its end, or with as many rows as asked for.
LEMMA ClosesSlice ==
  ASSUME TypeOK, WorkersInv, WorkersInv', CutInv, DrainInv, OnceInv,
         NEW i \in Workers, Closes(i),
         RowLimit > 0, SliceOf(w[i], next_partition, Given)
  PROVE  SliceOf(w'[i], next_partition, Given)
<1> DEFINE r == w[i]
           s == w'[i]
<1>1. /\ r.pc \notin Opening /\ s.pc \notin Opening /\ r \in Worker /\ s \in Worker
      /\ ~s.cursor /\ s.todo = {} /\ Appended(s) = Appended(r) /\ Counts(s, r)
  BY DEF Closes, Closed, LoopEnd, Opening, Through, WorkersInv, Appended
<1>2. Held(s) \subseteq Held(r)
  BY <1>1 DEF Held
<1>3. CASE ~(next_partition > 0)
  BY <1>1, <1>2, <1>3 DEF SliceOf, Counts
<1>4. CASE next_partition > 0 /\ ~LocalSlice
  <2>1. r.todo = {}
    BY <1>4 DEF Closes, AtLimit
  <2>2. Held(s) = Held(r)
    BY <1>1, <2>1 DEF Held
  <2> QED BY <1>1, <1>4, <2>2 DEF SliceOf
<1>5. CASE next_partition > 0 /\ LocalSlice
  <2>1. Counted(r, Given) /\ s.rows_emitted = r.rows_emitted /\ s.rows_skipped = r.rows_skipped
    BY <1>1, <1>5 DEF SliceOf, Counts
  <2>2. /\ r.rows_skipped \in 0..RowOffset /\ r.rows_emitted \in 0..RowLimit
        /\ RowLimit \in Nat /\ RowOffset \in Nat /\ Cardinality(base) \in Nat
    BY <1>1, <2>1, QuotaFacts DEF Worker, Counted
  <2>3. r.rows_emitted \in Quota
    <3>1. CASE AtLimit(i)
      <4>1. r.rows_emitted = RowLimit
        BY <2>2, <3>1 DEF AtLimit
      <4> QED BY <4>1, QuotaFacts
    <3>2. CASE r.todo = {}
      <4>1. Cardinality(r.todo) = 0
        BY <3>2, FS_EmptySet
      <4>2. r.cursor => r.rows_skipped + r.rows_emitted >= Cardinality(base)
        BY <2>1, <2>2, <4>1 DEF Counted
      <4>3. r.cursor => r.rows_emitted \in Quota
        BY <2>2, <4>2, SliceSeen DEF Quota
      <4> QED BY <2>1, <4>3 DEF Counted
    <3> QED BY <3>1, <3>2 DEF Closes
  <2> QED BY <1>1, <1>5, <2>1, <2>3 DEF SliceOf, Counted
<1> QED BY <1>3, <1>4, <1>5

LEMMA ReturnsSlice ==
  ASSUME TypeOK, WorkersInv, OnceInv, status = "running",
         NEW i \in Workers, Returns(i), SliceOf(w[i], next_partition, Given)
  PROVE  SliceOf(w'[i], next_partition, Given')
<1> DEFINE r == w[i]
           s == w'[i]
<1>1. /\ r.pc \notin Opening /\ s.pc \notin Opening
      /\ Appended(s) = {} /\ Held(s) = r.todo
      /\ s.todo = r.todo /\ s.cursor = r.cursor /\ Counts(s, r)
  BY NoneAppended DEF Returns, Opening
<1>2. Given' = Given \cup Appended(r)
  <2>1. Appended(r) \subseteq Rows
    BY AppendedType DEF WorkersInv
  <2> QED BY <2>1, ReturnedRows DEF Given
<1>3. Given' \cup Appended(s) = Given \cup Appended(r)
  BY <1>1, <1>2
<1>4. Given' \cup Held(s) = Given \cup Held(r)
  BY <1>1, <1>2 DEF Held
<1>5. LocalSlice => (Counted(r, Given) <=> Counted(s, Given'))
  BY <1>1, <1>3 DEF Counted, Counts
<1> QED BY <1>1, <1>4, <1>5 DEF SliceOf, Counts

\* Its own moves.
LEMMA MovesSlice ==
  ASSUME TypeOK, WorkersInv, WorkersInv', CutInv, BaseInv, DrainInv, OnceInv,
         status = "running", RowLimit > 0,
         NEW i \in Workers, Stays(i), w'[i].pc \notin Broken,
         SliceOf(w[i], next_partition, Given),
         \/ Passes(i) \/ Pops(i) \/ Opens(i) \/ (\E k \in w[i].todo : Fetches(i, k))
         \/ Closes(i) \/ Returns(i) \/ TearsDown(i)
  PROVE  SliceOf(w'[i], next_partition', Given')
<1> DEFINE r == w[i]
           s == w'[i]
<1>1. \/ Returns(i) \/ Pops(i)
      \/ Given' = Given /\ next_partition' = next_partition
  BY DEF Passes, Opens, Fetches, Closes, TearsDown, Given
<1>2. CASE Passes(i) \/ TearsDown(i)
  <2>1. Same(s, r)
    <3>1. CASE TearsDown(i)
      <4>1. r.pc \in Drained
        BY <3>1 DEF TearsDown, MayTearDown, Drained
      <4>2. ~r.cursor /\ r.todo = {} /\ r.chunk = <<>>
        BY <4>1 DEF DrainInv
      <4> QED BY <3>1, <4>2 DEF TearsDown, Same
    <3> QED BY <1>2, <3>1 DEF Passes
  <2>2. Held(s) = Held(r) /\ Appended(s) = Appended(r)
    BY <2>1 DEF Same, Held, Appended
  <2>3. r.pc \in Opening <=> s.pc \in Opening
    BY <1>2 DEF Passes, TearsDown, MayTearDown, Opening, Running, Through, Broken, Drained
  <2>4. Given' = Given /\ next_partition' = next_partition
    BY <1>2 DEF Passes, TearsDown, Given
  <2>5. Counted(r, Given) => Counted(s, Given)
    BY <2>1, <2>2 DEF Counted, Same, Counts
  <2> QED BY <2>1, <2>2, <2>3, <2>4, <2>5 DEF SliceOf, Same, Counts
<1>3. CASE Pops(i)
  <2>1. /\ next_partition = 0 /\ Given' = Given /\ s.pc \in Opening
        /\ Held(s) = Held(r) /\ Counts(s, r)
    BY <1>3 DEF Pops, CutInv, TypeOK, Given, Opening, Held, Appended
  <2>2. Given \cup Held(r) = {} /\ r.rows_skipped = 0 /\ r.rows_emitted = 0
    BY <2>1 DEF SliceOf
  <2> QED BY <2>1, <2>2 DEF SliceOf, Counts
<1>4. CASE Opens(i)
  BY <1>1, <1>4, OpensSlice DEF Opens, Given
<1>5. CASE \E k \in w[i].todo : Fetches(i, k)
  BY <1>5, FetchesSlice DEF Fetches, Given
<1>6. CASE Closes(i)
  BY <1>6, ClosesSlice DEF Closes, Given
<1>7. CASE Returns(i)
  BY <1>7, ReturnsSlice DEF Returns
<1> QED BY <1>2, <1>3, <1>4, <1>5, <1>6, <1>7

\* No second worker starts: MaxThreads() is the number of partitions.
LEMMA SliceStep ==
  ASSUME TypeOK, WorkersInv, WorkersInv', CutInv, BaseInv, DrainInv, OnceInv, SliceInv,
         NEW i \in Workers, Stays(i),
         \/ Passes(i) \/ Pops(i) \/ Opens(i) \/ (\E k \in w[i].todo : Fetches(i, k))
         \/ Closes(i) \/ Returns(i) \/ TearsDown(i)
  PROVE  SliceInv'
<1>0. UNCHANGED <<status, bind>> /\ RowLimit' = RowLimit
  BY DEF Stays, RowLimit
<1> SUFFICES ASSUME status = "running", RowLimit > 0, ~Breaks'
             PROVE  SliceInv'
  BY <1>0 DEF SliceInv
<1>1. /\ ~Breaks /\ w'[i].pc \notin Broken /\ partitions = 1
      /\ \A j \in Workers \ {i} : w'[j] = w[j]
  BY StaysBroken DEF CutInv, TypeOK, Stays
<1>2. w'[i].pc # "unstarted"
  BY DEF Passes, Pops, Opens, Fetches, Closes, Returns, TearsDown, LoopEnd, Running, Opening,
     Through, Broken, Drained
<1>3. w[i].pc = "unstarted" => Passes(i) /\ MayStart
  BY DEF Passes, Pops, Opens, Fetches, Closes, Returns, TearsDown, MayTearDown, Running, Opening,
     Through, Broken, Drained
<1>4. MayStart => \A j \in Workers : w[j].pc = "unstarted"
  <2> SUFFICES ASSUME MayStart PROVE Started = {}
    BY DEF Started
  <2>1. IsFiniteSet(Started)
    BY FiniteWorkers, FS_Subset DEF Started
  <2>2. Cardinality(Started) \in Nat /\ Cardinality(Started) < 1
    BY <1>1, <2>1, FS_CardinalityType DEF MayStart
  <2>3. Cardinality(Started) = 0
    BY <2>2
  <2> QED BY <2>1, <2>3, FS_EmptySet
<1>5. SliceOf(w'[i], next_partition', Given') /\ (\A j \in Workers \ {i} : w[j].pc = "unstarted")
  <2>1. CASE w[i].pc = "unstarted"
    <3>1. \A j \in Workers : w[j].pc = "unstarted"
      BY <1>3, <1>4, <2>1
    <3>2. next_partition = 0 /\ Given = {}
      BY <1>1, <2>1, <3>1 DEF SliceInv
    <3>3. Same(w[i], Idle)
      BY <2>1 DEF DrainInv
    <3>4. Held(w[i]) = {} /\ w[i].rows_skipped = 0 /\ w[i].rows_emitted = 0
      BY <3>3, IdleHoldsNothing, IdleWorker DEF Same, Counts
    <3>5. SliceOf(w[i], next_partition, Given)
      BY <3>2, <3>4 DEF SliceOf
    <3> QED BY <1>1, <3>1, <3>5, MovesSlice
  <2>2. CASE w[i].pc # "unstarted"
    <3>1. PICK l \in Workers : /\ \A j \in Workers \ {l} : w[j].pc = "unstarted"
                               /\ SliceOf(w[l], next_partition, Given)
      BY <1>1, <2>2 DEF SliceInv
    <3>2. l = i
      BY <2>2, <3>1
    <3> QED BY <1>1, <3>1, <3>2, MovesSlice
  <2> QED BY <2>1, <2>2
<1>6. SliceOf(w'[i], next_partition', Given') <=> SliceOf(w[i], next_partition, Given)'
  <2>1. UNCHANGED <<bind, probe, base>>
    BY DEF Stays
  <2>2. /\ RowLimit' = RowLimit /\ RowOffset' = RowOffset /\ LocalSlice' = LocalSlice
        /\ Quota' = Quota
    BY <2>1 DEF RowLimit, RowOffset, LocalSlice, Paging, Quota, Table!SliceSize
  <2> QED BY <2>1, <2>2 DEF SliceOf, Counted, Given
<1> QED BY <1>1, <1>2, <1>5, <1>6 DEF SliceInv

LEMMA NextSliceInv ==
  ASSUME TypeOK, WorkersInv, WorkersInv', CutInv, BaseInv, DrainInv, OnceInv, SliceInv, [Next]_vars
  PROVE  SliceInv'
<1>1. CASE Begin
  <2>1. (\A i \in Workers : w[i].pc = "unstarted")'
    BY <1>1, IdleWorker DEF Begin
  <2>2. next_partition' = 0 /\ delivered' = [r \in Rows |-> 0]
    BY <1>1 DEF Begin, InitGlobal
  <2>3. Given' = {}
    BY <2>2 DEF Given
  <2> QED BY <2>1, <2>2, <2>3 DEF SliceInv
<1>2. CASE Abort \/ Finish
  BY <1>2 DEF Abort, Finish, EndQuery, SliceInv
<1>3. CASE Insert \/ Tick \/ UNCHANGED vars
  <2>1. UNCHANGED <<shared, delivered, next_partition, w>>
    BY <1>3 DEF Insert, Tick, vars
  <2>2. /\ RowLimit' = RowLimit /\ RowOffset' = RowOffset /\ LocalSlice' = LocalSlice
        /\ Quota' = Quota
    BY <2>1 DEF RowLimit, RowOffset, LocalSlice, Paging, Quota, Table!SliceSize, shared
  <2> QED BY <2>1, <2>2 DEF SliceInv, SliceOf, Counted, Given, Breaks, shared
<1>4. CASE \E i \in Workers : Work(i) \/ Schedule(i)
  BY <1>4, WorkerStays, WorkerMoves, SliceStep
<1> QED BY <1>1, <1>2, <1>3, <1>4 DEF Next

-----------------------------------------------------------------------------
(* The refinement.                                                         *)

HeldInv == CutInv /\ DrainInv /\ OnceInv
WholeInv == BaseInv /\ AllInv /\ SliceInv

LEMMA InitHeldInv == Init => HeldInv /\ WholeInv
<1> SUFFICES ASSUME Init PROVE HeldInv /\ WholeInv
  OBVIOUS
<1>1. \A i \in Workers : w[i] = Idle /\ Held(w[i]) = {} /\ NoDuplicates(w[i].chunk)
  BY IdleWorker, IdleHoldsNothing DEF Init
<1>2. \A k \in Rows : delivered[k] = 0 /\ ~Taken(k)
  BY <1>1 DEF Init, Taken
<1>3. CutInv
  BY DEF Init, CutInv, Unprobed, NoRange
<1>4. DrainInv
  BY <1>1, IdleWorker DEF DrainInv, Opening, Through, Drained
<1>5. OnceInv
  <2>1. \A k \in Rows : delivered[k] <= 1
    BY <1>2
  <2>2. \A i \in Workers : \A k \in Held(w[i]) :
           delivered[k] = 0 /\ \A j \in Workers : i # j => k \notin Held(w[j])
    BY <1>1
  <2>3. \A i \in Workers : w[i].todo \cap Appended(w[i]) = {} /\ NoDuplicates(w[i].chunk)
    BY <1>1, IdleWorker
  <2>4. \A k \in Rows : \A p \in 0..(partitions - 1) : Taken(k) /\ Cover(p, k) => ~Fresh(p)
    BY <1>2
  <2> QED BY <2>1, <2>2, <2>3, <2>4 DEF OnceInv
<1>6. WholeInv
  BY DEF Init, Unprobed, NoRange, WholeInv, BaseInv, AllInv, SliceInv
<1> QED BY <1>3, <1>4, <1>5, <1>6 DEF HeldInv

LEMMA NextHeldInv == ScanInv /\ ScanInv' /\ HeldInv /\ [Next]_vars => HeldInv'
<1> SUFFICES ASSUME ScanInv, ScanInv', HeldInv, [Next]_vars PROVE HeldInv'
  OBVIOUS
<1>1. TypeOK /\ WorkersInv /\ WorkersInv'
  BY DEF ScanInv, TypeOK, WorkersInv
<1>2. CutInv /\ DrainInv /\ OnceInv
  BY DEF HeldInv
<1> QED BY <1>1, <1>2, NextCutInv, NextDrainInv, NextOnceInv DEF HeldInv

LEMMA NextWholeInv ==
  ASSUME NoStaleProbe
  PROVE  ScanInv /\ ScanInv' /\ HeldInv /\ HeldInv' /\ WholeInv /\ [Next]_vars => WholeInv'
<1> SUFFICES ASSUME ScanInv, ScanInv', HeldInv, HeldInv', WholeInv, [Next]_vars PROVE WholeInv'
  OBVIOUS
<1>1. TypeOK /\ WorkersInv /\ WorkersInv' /\ TypeOK'
  BY DEF ScanInv, TypeOK, WorkersInv
<1>2. CutInv /\ DrainInv /\ OnceInv /\ CutInv' /\ BaseInv /\ AllInv /\ SliceInv
  BY DEF HeldInv, WholeInv
<1> QED BY <1>1, <1>2, NextBaseInv, NextAllInv, NextSliceInv DEF WholeInv

\* TableScan counts rows as this module does.
LEMMA TableCounts == \A S : Table!Cardinality(S) = Cardinality(S)
BY DEF Table!Cardinality, Cardinality

\* A query that ends well has delivered what the table scan promises.
LEMMA FinishIsComplete ==
  ASSUME ScanInv, HeldInv, WholeInv, Finish
  PROVE  Table!Complete
<1>0. /\ TypeOK /\ WorkersInv /\ CutInv /\ DrainInv /\ OnceInv /\ AllInv /\ SliceInv
      /\ status = "running" /\ RowLimit \in Nat
  BY BindFacts DEF ScanInv, TypeOK, WorkersInv, HeldInv, WholeInv, Finish
<1>1. PICK l \in Workers : w[l].pc \in Drained
  BY DEF Finish, Drained
<1>2. \A i \in Workers : w[i].pc = "unstarted" \/ w[i].pc \in Drained
  BY DEF Finish, Drained
<1>3. ~Breaks /\ \A i \in Workers : w[i].pc \notin Opening
  BY <1>2 DEF Breaks, Broken, Opening, Drained
<1>4. next_partition >= partitions
  BY <1>0, <1>1 DEF DrainInv
<1>5. \A i \in Workers : ~w[i].cursor /\ Held(w[i]) = {} /\ Appended(w[i]) = {}
  <2> SUFFICES ASSUME NEW i \in Workers
               PROVE  ~w[i].cursor /\ Held(w[i]) = {} /\ Appended(w[i]) = {}
    OBVIOUS
  <2>1. CASE w[i].pc = "unstarted"
    BY <1>0, <2>1, IdleWorker, IdleHoldsNothing DEF DrainInv, Same
  <2>2. CASE w[i].pc \in Drained
    BY <1>0, <2>2, NoneAppended DEF DrainInv
  <2> QED BY <1>2, <2>1, <2>2
<1>6. Table!Handed = Given
  BY DEF Table!Handed, Given
<1>7. CASE RowLimit = 0
  <2>1. \A p \in 0..(partitions - 1) : ~Fresh(p)
    BY <1>0, <1>3, <1>4 DEF Fresh, TypeOK
  <2>2. \A k \in base : Taken(k)
    BY <1>0, <1>3, <1>7, <2>1 DEF AllInv
  <2>3. base \subseteq Given
    BY <1>0, <1>5, <2>2 DEF Given, Taken, TypeOK
  <2> QED BY <1>6, <1>7, <2>3 DEF Table!Complete
<1>8. CASE RowLimit > 0
  <2>1. PICK i \in Workers : SliceOf(w[i], next_partition, Given)
    BY <1>0, <1>1, <1>3, <1>8 DEF SliceInv, Drained
  <2>2. next_partition > 0
    BY <1>0, <1>4 DEF CutInv, TypeOK
  <2>3. Given \cup Held(w[i]) = Given /\ Given \cup Appended(w[i]) = Given
    BY <1>5
  <2>4. Cardinality(Given) \in Quota
    BY <1>3, <1>5, <2>1, <2>2, <2>3 DEF SliceOf, Counted
  <2>5. RowLimit # 0
    BY <1>0, <1>8
  <2> QED BY <1>6, <2>4, <2>5, TableCounts DEF Table!Complete, Quota
<1> QED BY <1>0, <1>7, <1>8

\* A chunk handed over is a batch of rows not handed over before.
LEMMA ReturnsDeliver ==
  ASSUME ScanInv, HeldInv, NEW i \in Workers, Stays(i), Returns(i)
  PROVE  [Table!Next]_(Table!vars)
<1>0. /\ TypeOK /\ WorkersInv /\ OnceInv /\ w[i] \in Worker /\ delivered \in [Rows -> Nat]
      /\ UNCHANGED <<bind, status, base>>
  BY DEF ScanInv, TypeOK, WorkersInv, HeldInv, Stays
<1>1. UNCHANGED <<RowLimit, RowOffset>>
  BY <1>0 DEF RowLimit, RowOffset
<1>2. CASE status # "running"
  BY <1>0, <1>1, <1>2 DEF Returns, Table!vars, Table!slice
<1>3. CASE status = "running"
  <2> DEFINE S == Appended(w[i])
  <2>1. /\ S \subseteq Rows
        /\ \A k \in Rows : delivered'[k] = IF k \in S THEN 1 ELSE delivered[k]
    BY <1>0, <1>3, AppendedType, ReturnedRows
  <2>2. delivered' = [k \in Rows |-> delivered'[k]]
    BY <1>3 DEF Returns
  <2>3. delivered' = [k \in Rows |-> IF k \in S THEN 1 ELSE delivered[k]]
    BY <2>1, <2>2
  <2>4. CASE S = {}
    <3>1. delivered' = delivered
      BY <1>0, <2>3, <2>4
    <3> QED BY <1>0, <1>1, <3>1 DEF Table!vars, Table!slice
  <2>5. CASE S # {}
    <3>1. S \in SUBSET (Rows \ Table!Handed)
      BY <1>0, <2>1 DEF OnceInv, Held, Table!Handed
    <3>2. Table!Deliver
      BY <1>0, <1>3, <2>3, <2>5, <3>1 DEF Table!Deliver
    <3> QED BY <1>1, <3>2 DEF Table!Next, Table!slice
  <2> QED BY <2>4, <2>5
<1> QED BY <1>2, <1>3

LEMMA StepRefines ==
  ASSUME ScanInv, ScanInv', HeldInv, WholeInv, [Next]_vars
  PROVE  [Table!Next]_(Table!vars)
<1>0. TypeOK /\ WorkersInv /\ WorkersInv'
  BY DEF ScanInv, TypeOK, WorkersInv
<1>1. CASE Begin
  <2>1. UNCHANGED <<RowLimit, RowOffset>>
    BY <1>1 DEF Begin, RowLimit, RowOffset
  <2>2. Table!Begin
    BY <1>0, <1>1 DEF Begin, Table!Begin, Table!None, TypeOK
  <2> QED BY <2>1, <2>2 DEF Table!Next, Table!slice
<1>2. CASE Abort
  BY <1>2 DEF Abort, EndQuery, Table!Next, Table!Abort, Table!slice, RowLimit, RowOffset
<1>3. CASE Finish
  <2>1. Table!Finish
    BY <1>3, FinishIsComplete DEF Finish, EndQuery, Table!Finish
  <2> QED BY <1>3, <2>1 DEF Finish, EndQuery, Table!Next, Table!slice, RowLimit, RowOffset
<1>4. CASE Insert \/ Tick \/ UNCHANGED vars
  BY <1>4 DEF Insert, Tick, vars, shared, Table!vars, Table!slice, RowLimit, RowOffset
<1>5. CASE \E i \in Workers : Work(i) \/ Schedule(i)
  <2>1. PICK i \in Workers : Work(i) \/ Schedule(i)
    BY <1>5
  <2>2. Stays(i)
    BY <1>0, <2>1, WorkerStays
  <2>3. CASE Returns(i)
    BY <2>2, <2>3, ReturnsDeliver
  <2>4. CASE ~Returns(i)
    <3>1. UNCHANGED delivered
      BY <1>0, <2>1, <2>4, WorkerMoves
         DEF Passes, Pops, Opens, Fetches, Closes, TearsDown
    <3> QED BY <2>2, <3>1 DEF Stays, Table!vars, Table!slice, RowLimit, RowOffset
  <2> QED BY <2>3, <2>4
<1> QED BY <1>1, <1>2, <1>3, <1>4, <1>5 DEF Next

\* However many workers race for the partitions, and whatever fails or is
\* inserted meanwhile: no row is handed to DuckDB twice, none is held by two
\* workers, and none that is taken belongs to a partition still to be read.
THEOREM RowsTakenOnce == Spec => []HeldInv
<1>1. Init => HeldInv
  BY InitHeldInv
<1> QED BY <1>1, NextHeldInv, ScanInvariant, PTL DEF Spec

\* A partitioned scan is a table scan: batches of new rows, and when a query
\* ends without an error, all the rows there were when it was bound, or the
\* slice asked for.  The hypothesis is on what happens around the scan: rows
\* inserted outside the memoised key range of an ATTACHed table are missed by
\* its later queries (see SeesLiveData).
THEOREM ScanRefines == ASSUME NoStaleProbe PROVE Spec => ImplementsTableScan
<1>1. Init => Table!Init
  BY BindFacts, ScanAssumption DEF Init, Table!Init, Table!None
<1>2. Init => HeldInv /\ WholeInv
  BY InitHeldInv
<1>3. ScanInv /\ ScanInv' /\ HeldInv /\ HeldInv' /\ WholeInv /\ [Next]_vars => WholeInv'
  BY NextWholeInv
<1>4. ScanInv /\ ScanInv' /\ HeldInv /\ WholeInv /\ [Next]_vars => [Table!Next]_(Table!vars)
  BY StepRefines
<1> QED BY <1>1, <1>2, <1>3, <1>4, RowsTakenOnce, ScanInvariant, PTL
        DEF Spec, ImplementsTableScan, Table!Spec

-----------------------------------------------------------------------------
(* What the query log says of a scan.  Each partition is one entry, the    *)
(* entries of the running query are the newest, and every step of a worker *)
(* changes the newest one only, whoever recorded it.                       *)

LogEntry ==
  [capture : [query : Nat, part : Nat \cup {NoWork}], rows_read : Nat,
   bytes_read_estimate : Nat, firebird_time_us : Nat, total_time_us : Int,
   error_message : Nat \cup {NoWork, NoError}]

\* The telemetry of the client context: last_ is the newest entry.
SlotInv ==
  /\ last \in LogEntry /\ log \in Seq(LogEntry) /\ start \in Nat
  /\ log # <<>> => log[Len(log)] = last
  /\ \A k \in 1..Len(log) : log[k].capture.query <= query

Fields == {"rows_read", "bytes_read_estimate", "firebird_time_us", "total_time_us",
           "error_message"}

\* A metric or an error changes the newest entry.
LEMMA MirrorIs ==
  ASSUME SlotInv, NEW f \in Fields, NEW v, T!Mirror(f, v), [last EXCEPT ![f] = v] \in LogEntry,
         UNCHANGED query
  PROVE  /\ SlotInv' /\ Len(log') = Len(log)
         /\ last' = [last EXCEPT ![f] = v]
         /\ \A k \in 1..Len(log) : log'[k] = IF k = Len(log) THEN last' ELSE log[k]
<1>1. /\ last' = [last EXCEPT ![f] = v] /\ last' \in LogEntry /\ start' \in Nat
      /\ log \in Seq(LogEntry) /\ last \in LogEntry
  BY DEF SlotInv, T!Mirror
<1>2. last'.capture = last.capture
  BY <1>1 DEF Fields, LogEntry
<1>3. CASE log = <<>>
  BY <1>1, <1>3 DEF SlotInv, T!Mirror
<1>4. CASE log # <<>>
  <2>1. log[Len(log)] = last /\ Len(log) \in 1..Len(log)
    BY <1>1, <1>4 DEF SlotInv
  <2>2. log' = [log EXCEPT ![Len(log)] = last']
    BY <1>4, <2>1 DEF T!Mirror
  <2>3. /\ log' \in Seq(LogEntry) /\ Len(log') = Len(log)
        /\ \A k \in 1..Len(log) : log'[k] = IF k = Len(log) THEN last' ELSE log[k]
    BY <1>1, <2>1, <2>2
  <2>4. \A k \in 1..Len(log') : log'[k].capture.query <= query
    BY <1>2, <2>1, <2>3 DEF SlotInv
  <2> QED BY <1>1, <2>1, <2>3, <2>4 DEF SlotInv
<1> QED BY <1>3, <1>4

LEMMA AppendIs ==
  ASSUME NEW S, NEW s \in Seq(S), NEW x \in S, NEW t, t = Append(s, x)
  PROVE  /\ t \in Seq(S) /\ t # <<>> /\ Len(t) = Len(s) + 1
         /\ \A n \in 1..Len(t) : t[n] = IF n = Len(t) THEN x ELSE s[n]
OBVIOUS

\* The last entries of a longer sequence.
LEMMA SuffixOf ==
  ASSUME NEW S, NEW seq \in Seq(S), NEW d \in 0..Len(seq), NEW k,
         k = SubSeq(seq, d + 1, Len(seq))
  PROVE  k \in Seq(S) /\ Len(k) = Len(seq) - d /\ \A n \in 1..Len(k) : k[n] = seq[n + d]
OBVIOUS

\* What is kept of a log: nothing is lost until the log is full.
LEMMA KeepIs ==
  ASSUME NEW S, NEW seq \in Seq(S), NEW size \in Int, size > 0, seq # <<>>,
         NEW k, k = T!Keep(seq, size)
  PROVE  /\ k \in Seq(S) /\ Len(k) \in 1..Len(seq) /\ Len(k) \in {size, Len(seq)}
         /\ \A n \in 1..Len(k) : k[n] = seq[n + (Len(seq) - Len(k))]
<1>1. CASE Len(seq) > size
  <2> DEFINE d == Len(seq) - size
  <2>1. d \in 0..Len(seq) /\ d \in 0..(Len(seq) - 1) /\ Len(seq) - d = size
    BY <1>1
  <2>2. k = SubSeq(seq, d + 1, Len(seq))
    BY <1>1 DEF T!Keep
  <2> HIDE DEF d
  <2>3. k \in Seq(S) /\ Len(k) = Len(seq) - d /\ \A n \in 1..Len(k) : k[n] = seq[n + d]
    BY <2>1, <2>2, SuffixOf
  <2>4. Len(k) = size /\ d = Len(seq) - Len(k)
    BY <2>1, <2>3
  <2> QED BY <2>1, <2>3, <2>4
<1>2. CASE Len(seq) <= size
  <2>1. k = seq
    BY <1>2 DEF T!Keep
  <2>2. Len(seq) \in Nat /\ Len(seq) > 0 /\ Len(seq) - Len(seq) = 0
    OBVIOUS
  <2> QED BY <2>1, <2>2
<1> QED BY <1>1, <1>2

\* A capture is a new entry, after some of the oldest were dropped.
LEMMA RecordIs ==
  ASSUME SlotInv, NEW c \in [query : Nat, part : Nat \cup {NoWork}], c.query = query,
         now \in Nat, LogSize \in Int, T!RecordQuery(c, LogSize, now), UNCHANGED query,
         query \in Nat
  PROVE  /\ SlotInv'
         /\ last' = T!Fresh(c)
         /\ LogSize > 0 =>
              \E d \in 0..Len(log) :
                /\ Len(log') = Len(log) + 1 - d
                /\ d > 0 => Len(log') = LogSize
                /\ \A n \in 1..Len(log') :
                     log'[n] = IF n = Len(log') THEN last' ELSE log[n + d]
<1>1. last' = T!Fresh(c) /\ last' \in LogEntry /\ start' \in Nat /\ log \in Seq(LogEntry)
  BY DEF T!RecordQuery, T!Fresh, LogEntry, SlotInv
<1>2. CASE LogSize <= 0
  BY <1>1, <1>2 DEF SlotInv, T!RecordQuery
<1>3. CASE LogSize > 0
  <2> DEFINE seq == Append(log, last')
  <2>1. /\ seq \in Seq(LogEntry) /\ seq # <<>> /\ Len(seq) = Len(log) + 1
        /\ \A n \in 1..Len(seq) : seq[n] = IF n = Len(seq) THEN last' ELSE log[n]
    BY ONLY <1>1, AppendIs
  <2>2. log' = T!Keep(seq, LogSize)
    BY <1>3 DEF T!RecordQuery
  <2> HIDE DEF seq
  <2> DEFINE d == Len(seq) - Len(log')
  <2>3. /\ log' \in Seq(LogEntry) /\ Len(log') = Len(seq) - d /\ d \in 0..(Len(seq) - 1)
        /\ d > 0 => Len(log') = LogSize
        /\ \A n \in 1..Len(log') : log'[n] = seq[n + d]
    <3>1. /\ log' \in Seq(LogEntry) /\ Len(log') \in 1..Len(seq)
          /\ Len(log') \in {LogSize, Len(seq)}
          /\ \A n \in 1..Len(log') : log'[n] = seq[n + d]
      <4>1. seq \in Seq(LogEntry) /\ LogSize \in Int /\ LogSize > 0 /\ seq # <<>>
        BY <1>3, <2>1
      <4>2. \A k : k = T!Keep(seq, LogSize) =>
              /\ k \in Seq(LogEntry) /\ Len(k) \in 1..Len(seq)
              /\ Len(k) \in {LogSize, Len(seq)}
              /\ \A n \in 1..Len(k) : k[n] = seq[n + (Len(seq) - Len(k))]
        BY ONLY <4>1, KeepIs
      <4> QED BY ONLY <2>2, <4>2
    <3>2. Len(seq) \in Nat /\ Len(log') \in Nat
      BY <2>1, <3>1
    <3> QED BY <3>1, <3>2
  <2> HIDE DEF d
  <2>4. Len(log) \in Nat
    BY <1>1
  <2>5. d \in 0..Len(log) /\ Len(log') = Len(log) + 1 - d /\ Len(log') > 0
    BY <2>1, <2>3, <2>4
  <2>6. ASSUME NEW n \in 1..Len(log')
        PROVE  log'[n] = IF n = Len(log') THEN last' ELSE log[n + d]
    <3>1. n + d \in 1..Len(seq) /\ (n = Len(log') <=> n + d = Len(seq))
      BY <2>1, <2>3, <2>4, <2>5
    <3> QED BY <2>1, <2>3, <3>1
  <2>7. last'.capture.query = query
    BY <1>1 DEF T!Fresh
  <2>8. \A n \in 1..Len(log') : log'[n].capture.query <= query
    <3> SUFFICES ASSUME NEW n \in 1..Len(log') PROVE log'[n].capture.query <= query
      OBVIOUS
    <3>1. n # Len(log') => n + d \in 1..Len(log)
      BY <2>4, <2>5
    <3> QED BY <2>6, <2>7, <3>1 DEF SlotInv
  <2>9. log'[Len(log')] = last'
    BY <2>4, <2>5, <2>6
  <2>10. SlotInv'
    BY <1>1, <2>3, <2>8, <2>9 DEF SlotInv
  <2> QED BY <1>1, <1>3, <2>3, <2>5, <2>6, <2>10
<1> QED BY <1>2, <1>3

\* Where a chunk has been counted and not yet returned.
Out(r) ==
  IF r.pc \in {"flush_bytes", "flush_pool", "flush_us", "flush_total"} THEN Len(r.chunk) ELSE 0

\* A worker that has rows, or reads some, or has failed to, has a partition.
Placed(r) ==
  \/ r.part # NoWork
  \/ /\ r.chunk = <<>> /\ ~r.cursor
     /\ r.pc \notin Opening \cup {"open_us", "open_total", "fetch", "open_error", "scan_error",
                                  "flush_rows"}

\* A time, or the byte estimate, of the newest entry changes.
Meters ==
  \/ UNCHANGED <<last, log, start>>
  \/ \E f \in {"bytes_read_estimate", "firebird_time_us", "total_time_us"} : \E v :
       T!Mirror(f, v) /\ [last EXCEPT ![f] = v] \in LogEntry

LogQuiet(i) ==
  /\ Meters /\ UNCHANGED <<delivered, next_partition>>
  /\ w'[i].part = w[i].part /\ Out(w'[i]) = Out(w[i])
  /\ w[i].pc # "record" /\ w'[i].pc # "record"
  /\ w[i].pc \in {"scan_error", "threw"} => status # "running"
  /\ w'[i].pc = "threw" => w[i].part = NoWork

LogPops(i) ==
  /\ UNCHANGED <<last, log, start, delivered>>
  /\ next_partition' = next_partition + 1 /\ w'[i].part = next_partition
  /\ w[i].pc = "pop" /\ w'[i].pc = "record"

LogRecords(i) ==
  /\ T!RecordQuery([query |-> query, part |-> w[i].part], LogSize, now)
  /\ UNCHANGED <<delivered, next_partition>>
  /\ w[i].pc = "record" /\ w'[i].pc = "guard" /\ w'[i].part = w[i].part

LogRows(i) ==
  /\ T!Mirror("rows_read", last.rows_read + Len(w[i].chunk))
  /\ UNCHANGED <<delivered, next_partition>>
  /\ w[i].pc = "flush_rows" /\ w'[i].pc \in {"flush_bytes", "flush_us", "flush_total"}
  /\ w'[i].part = w[i].part /\ w'[i].chunk = w[i].chunk

LogReturns(i) ==
  /\ Meters /\ Returns(i)

LogErrors(i) ==
  /\ T!Mirror("error_message", w[i].part)
  /\ UNCHANGED <<delivered, next_partition>>
  /\ w'[i].part = w[i].part
  /\ \/ w[i].pc = "open_error" /\ w'[i].pc = "scan_error"
     \/ w[i].pc = "scan_error" /\ w'[i].pc = "threw"

LEMMA MetersAre ==
  ASSUME SlotInv, NEW n \in Nat, NEW t \in Int,
         \/ UNCHANGED <<last, log, start>>
         \/ T!AddBytes(n) \/ T!AddFirebirdTimeUs(n) \/ T!UpdateTotalTimeUs(t)
  PROVE  Meters
<1>1. last \in LogEntry /\ start \in Nat
  BY DEF SlotInv
<1>2. CASE UNCHANGED <<last, log, start>>
  BY <1>2 DEF Meters
<1>3. CASE T!AddBytes(n)
  <2> DEFINE v == last.bytes_read_estimate + n
  <2>1. v \in Nat
    BY <1>1 DEF LogEntry
  <2>2. T!Mirror("bytes_read_estimate", v)
    BY <1>3 DEF T!AddBytes
  <2> HIDE DEF v
  <2>3. [last EXCEPT !["bytes_read_estimate"] = v] \in LogEntry
    BY <1>1, <2>1 DEF LogEntry
  <2> QED BY <2>2, <2>3 DEF Meters
<1>4. CASE T!AddFirebirdTimeUs(n)
  <2> DEFINE v == last.firebird_time_us + n
  <2>1. v \in Nat
    BY <1>1 DEF LogEntry
  <2>2. T!Mirror("firebird_time_us", v)
    BY <1>4 DEF T!AddFirebirdTimeUs
  <2> HIDE DEF v
  <2>3. [last EXCEPT !["firebird_time_us"] = v] \in LogEntry
    BY <1>1, <2>1 DEF LogEntry
  <2> QED BY <2>2, <2>3 DEF Meters
<1>5. CASE T!UpdateTotalTimeUs(t)
  <2> DEFINE v == t - start
  <2>1. v \in Int
    BY <1>1
  <2>2. T!Mirror("total_time_us", v)
    BY <1>5 DEF T!UpdateTotalTimeUs
  <2> HIDE DEF v
  <2>3. [last EXCEPT !["total_time_us"] = v] \in LogEntry
    BY <1>1, <2>1 DEF LogEntry
  <2> QED BY <2>2, <2>3 DEF Meters
<1> QED BY <1>2, <1>3, <1>4, <1>5

\* The ways out of the fetch loop, and through its head, count nothing.
LEMMA LoopCountsNothing ==
  ASSUME NEW r \in Worker, now \in Nat, Placed(r)
  PROVE  /\ Out(Loop(r)) = 0 /\ Loop(r).pc \notin {"record", "threw"} /\ Placed(Loop(r))
         /\ Out(LeaveLoop(r)) = 0 /\ LeaveLoop(r).pc \notin {"record", "threw"}
         /\ Placed(LeaveLoop(r))
<1>1. Same(Loop(r), r) /\ LoopEnd(Loop(r))
  BY LoopIs
<1>2. /\ Same(LeaveLoop(r), r) /\ LeaveLoop(r).pc \in Through
      /\ r.chunk # <<>> => LeaveLoop(r).pc = "flush_rows"
  BY LeaveLoopIs
<1>3. r.chunk = <<>> => LeaveLoop(r).pc # "flush_rows"
  <2>1. TakeBytes(r) \in Worker /\ Same(TakeBytes(r), r)
    BY TakeBytesIs
  <2>2. AfterRows(TakeBytes(r)) \in Steps /\ AfterRows(TakeBytes(r)) # "flush_rows"
    BY DEF AfterRows, AfterBytes, Steps
  <2>3. r.chunk = <<>> => LeaveLoop(r) = [TakeBytes(r) EXCEPT !.pc = AfterRows(TakeBytes(r))]
    BY <2>1 DEF LeaveLoop, Same
  <2> QED BY <2>1, <2>2, <2>3, SetPcIs
<1>4. Len(<<>>) = 0
  OBVIOUS
<1>5. Out(Loop(r)) = 0 /\ Loop(r).pc \notin {"record", "threw"} /\ Placed(Loop(r))
  BY <1>1 DEF LoopEnd, Out, Placed, Opening, Same
<1>6. /\ Out(LeaveLoop(r)) = 0 /\ LeaveLoop(r).pc \notin {"record", "threw"}
      /\ Placed(LeaveLoop(r))
  <2>1. CASE r.chunk = <<>>
    BY <1>2, <1>3, <1>4, <2>1 DEF Out, Placed, Through, Opening, Same
  <2>2. CASE r.chunk # <<>>
    BY <1>2, <2>2 DEF Out, Placed, Opening, Same
  <2> QED BY <2>1, <2>2
<1> QED BY <1>5, <1>6

\* Every step of a worker is one of six, as the log sees it.
LEMMA WorkerLogs ==
  ASSUME TypeOK, WorkersInv, SlotInv, DrainInv, NEW i \in Workers, Placed(w[i]),
         Work(i) \/ Schedule(i)
  PROVE  /\ Placed(w'[i])
         /\ \/ LogQuiet(i) \/ LogPops(i) \/ LogRecords(i) \/ LogRows(i) \/ LogReturns(i)
            \/ LogErrors(i)
<1>0. /\ w \in [Workers -> Worker] /\ w[i] \in Worker /\ now \in Nat
      /\ w[i].bytes_fetched \in Nat /\ w[i].open_us \in Nat /\ w[i].fetch_us \in Nat
  BY DEF WorkersInv, TypeOK, Worker
<1>1. ASSUME NEW from, NEW r, Go(i, from, r)
      PROVE  w[i].pc = from /\ w'[i] = r
  BY <1>0, <1>1 DEF Go
<1>2. ASSUME NEW from, NEW to \in Steps, Goto(i, from, to)
      PROVE  w[i].pc = from /\ Same(w'[i], w[i]) /\ w'[i].pc = to
  <2>1. w[i].pc = from /\ w'[i] = [w[i] EXCEPT !.pc = to]
    BY <1>1, <1>2 DEF Goto
  <2> QED BY <1>0, <2>1, SetPcIs
<1>3. UNCHANGED <<last, log, start>> => Meters
  BY DEF Meters
<1>4. Local => UNCHANGED <<last, log, start, delivered, next_partition>>
  BY DEF Local, telemetry
<1>5. Recording => UNCHANGED <<delivered, next_partition>>
  BY DEF Recording
<1>6. CASE InitLocal(i) \/ InitLocalFails(i)
  <2>1. /\ w[i].pc = "unstarted" /\ Same(w'[i], w[i]) /\ w'[i].pc \in {"scan", "threw"}
        /\ UNCHANGED <<last, log, start, delivered, next_partition>>
    <3>1. CASE InitLocal(i)
      <4>1. w[i].pc = "unstarted" /\ w'[i] = [w[i] EXCEPT !.pc = "scan", !.conn = TRUE]
        BY <1>1, <3>1 DEF InitLocal
      <4>2. Same(w'[i], w[i]) /\ w'[i].pc = "scan"
        BY <1>0, <4>1 DEF Worker, Same, Counts
      <4> QED BY <1>4, <3>1, <4>1, <4>2 DEF InitLocal
    <3>2. CASE InitLocalFails(i)
      <4>1. w[i].pc = "unstarted" /\ Same(w'[i], w[i]) /\ w'[i].pc = "threw"
        BY <1>2, <3>2 DEF InitLocalFails, Steps
      <4> QED BY <3>2, <4>1 DEF InitLocalFails, telemetry
    <3> QED BY <1>6, <3>1, <3>2
  <2>2. w[i].part = NoWork
    BY <2>1, IdleWorker DEF DrainInv, Same
  <2>3. LogQuiet(i)
    BY <1>3, <2>1, <2>2 DEF LogQuiet, Out, Same
  <2>4. Placed(w'[i])
    BY <2>1, <2>2 DEF Placed, Same, Opening
  <2> QED BY <2>3, <2>4
<1>7. CASE Scan(i) \/ QueueEmpty(i) \/ UpdateOpenTotal(i)
  <2>1. /\ w[i].pc \in {"scan", "pop", "open_total"} /\ w'[i] \in {Loop(w[i]), LeaveLoop(w[i])}
        /\ UNCHANGED <<delivered, next_partition>>
    BY <1>1, <1>4, <1>5, <1>7 DEF Scan, QueueEmpty, UpdateOpenTotal
  <2>2. Same(w'[i], w[i])
    BY <1>0, <2>1, LoopIs, LeaveLoopIs
  <2>3. Out(w'[i]) = 0 /\ w'[i].pc \notin {"record", "threw"} /\ Placed(w'[i])
    BY <1>0, <2>1, LoopCountsNothing
  <2>4. Meters
    BY <1>0, <1>3, <1>4, <1>7, MetersAre DEF Scan, QueueEmpty, UpdateOpenTotal
  <2> QED BY <2>1, <2>2, <2>3, <2>4 DEF LogQuiet, Out, Same
<1>8. CASE NextPartition(i)
  <2>1. /\ w[i].pc = "pop" /\ w'[i] = [w[i] EXCEPT !.pc = "record", !.part = next_partition]
        /\ next_partition' = next_partition + 1 /\ UNCHANGED <<last, log, start, delivered>>
    BY <1>1, <1>8 DEF NextPartition, telemetry
  <2>2. w'[i].pc = "record" /\ w'[i].part = next_partition
    BY <1>0, <2>1 DEF Worker
  <2>3. next_partition # NoWork
    BY ScanAssumption DEF TypeOK
  <2> QED BY <2>1, <2>2, <2>3 DEF LogPops, Placed
<1>9. CASE Record(i)
  <2>1. w[i].pc = "record" /\ Same(w'[i], w[i]) /\ w'[i].pc = "guard"
    BY <1>2, <1>9 DEF Record, Steps
  <2> QED BY <1>5, <1>9, <2>1 DEF Record, LogRecords, Placed, Opening, Same
<1>10. CASE GuardPasses(i) \/ GuardThrows(i) \/ OpenCursor(i) \/ OpenCursorFails(i)
  <2>1. /\ w[i].pc \in {"guard", "open"} /\ w'[i].part = w[i].part
        /\ w'[i].pc \in {"open", "scan_error", "open_us", "open_error"}
    <3>1. CASE GuardPasses(i)
      <4>1. w[i].pc = "guard" /\ w'[i] = [w[i] EXCEPT !.pc = "open", !.t0 = now]
        BY <1>1, <3>1 DEF GuardPasses
      <4> QED BY <1>0, <4>1 DEF Worker
    <3>2. CASE OpenCursor(i)
      <4> DEFINE rows == PushedSlice(PartitionRows(w[i].part))
                 us == now - w[i].t0
      <4>1. /\ w[i].pc = "open"
            /\ w'[i] = [w[i] EXCEPT !.pc = "open_us", !.cursor = TRUE, !.todo = rows,
                                    !.open_us = us]
        BY <1>1, <3>2 DEF OpenCursor
      <4> HIDE DEF rows, us
      <4> QED BY <1>0, <4>1 DEF Worker
    <3>3. CASE GuardThrows(i)
      BY <1>2, <3>3 DEF GuardThrows, Steps, Same
    <3>4. CASE OpenCursorFails(i)
      BY <1>2, <3>4 DEF OpenCursorFails, Steps, Same
    <3> QED BY <1>10, <3>1, <3>2, <3>3, <3>4
  <2>2. UNCHANGED <<last, log, start, delivered, next_partition>>
    BY <1>4, <1>10 DEF GuardPasses, GuardThrows, OpenCursor, OpenCursorFails, telemetry
  <2> QED BY <1>3, <2>1, <2>2 DEF LogQuiet, Out, Placed, Opening
<1>11. CASE RecordOpenError(i) \/ RecordScanError(i)
  <2>1. /\ \/ w[i].pc = "open_error" /\ w'[i].pc = "scan_error"
           \/ w[i].pc = "scan_error" /\ w'[i].pc = "threw"
        /\ Same(w'[i], w[i])
    BY <1>2, <1>11 DEF RecordOpenError, RecordScanError, Steps
  <2>2. T!Mirror("error_message", w[i].part) /\ UNCHANGED <<delivered, next_partition>>
    BY <1>5, <1>11 DEF RecordOpenError, RecordScanError, T!SetError
  <2> QED BY <2>1, <2>2 DEF LogErrors, Placed, Same
<1>12. CASE AddOpenTime(i)
  <2>1. w[i].pc = "open_us" /\ Same(w'[i], w[i]) /\ w'[i].pc = "open_total"
    BY <1>2, <1>12 DEF AddOpenTime, Steps
  <2>2. Meters /\ UNCHANGED <<delivered, next_partition>>
    BY <1>0, <1>5, <1>12, MetersAre DEF AddOpenTime
  <2> QED BY <2>1, <2>2 DEF LogQuiet, Out, Same, Placed
<1>13. CASE SkipRow(i) \/ StopAtLimit(i) \/ AppendRow(i) \/ EndOfCursor(i) \/ FetchThrows(i)
  <2>1. UNCHANGED <<last, log, start, delivered, next_partition>>
    BY <1>4, <1>13 DEF SkipRow, StopAtLimit, AppendRow, EndOfCursor, FetchThrows, telemetry
  <2>2. CASE Goto(i, "fetch", "scan_error")
    <3>1. w[i].pc = "fetch" /\ Same(w'[i], w[i]) /\ w'[i].pc = "scan_error"
      BY <1>2, <2>2 DEF Steps
    <3> QED BY <1>3, <2>1, <3>1 DEF LogQuiet, Out, Same, Placed
  <2>3. CASE Closes(i) \/ \E k \in w[i].todo : Fetches(i, k)
    <3>1. w[i].pc = "fetch" /\ w'[i].part = w[i].part
      BY <2>3 DEF Closes, Closed, Fetches
    <3>2. \/ w'[i].pc \in {"fetch", "pop", "flush_rows", "scan_error"}
          \/ w'[i].pc \in Through /\ w'[i].chunk = <<>>
      BY <2>3 DEF Closes, Fetches, LoopEnd
    <3>3. Len(<<>>) = 0
      OBVIOUS
    <3>4. Out(w'[i]) = 0 /\ w'[i].pc \notin {"record", "threw"}
      BY <3>2, <3>3 DEF Out, Through
    <3> QED BY <1>3, <2>1, <3>1, <3>4 DEF LogQuiet, Out, Placed
  <2> QED
    <3>1. CASE SkipRow(i) \/ StopAtLimit(i) \/ AppendRow(i) \/ EndOfCursor(i)
      BY <1>0, <2>3, <3>1, FetchingSteps
    <3>2. CASE FetchThrows(i)
      <4>1. \/ Goto(i, "fetch", "scan_error")
            \/ \E k \in w[i].todo : /\ Go(i, "fetch", [Fetched(i, k) EXCEPT !.pc = "scan_error"])
                                    /\ UNCHANGED <<delivered, next_partition>>
        BY <2>1, <3>2 DEF FetchThrows
      <4> QED BY <1>0, <2>2, <2>3, <4>1, FetchingSteps
    <3> QED BY <1>13, <3>1, <3>2
<1>14. CASE FlushRows(i)
  <2>1. AfterRows(w[i]) \in {"flush_bytes", "flush_us", "flush_total"} /\ AfterRows(w[i]) \in Steps
    BY DEF AfterRows, AfterBytes, Steps
  <2>2. w[i].pc = "flush_rows" /\ Same(w'[i], w[i]) /\ w'[i].pc = AfterRows(w[i])
    BY <1>2, <1>14, <2>1 DEF FlushRows
  <2> QED BY <1>5, <1>14, <2>1, <2>2 DEF FlushRows, T!AddRows, LogRows, Same, Placed
<1>15. CASE FlushBytes(i) \/ FlushPool(i) \/ FlushFetchTime(i)
  <2>1. /\ w[i].pc \in {"flush_bytes", "flush_pool", "flush_us"}
        /\ w'[i].pc \in {"flush_pool", "flush_us", "flush_total"} /\ Same(w'[i], w[i])
    <3> DEFINE p == AfterBytes(w[i])
    <3>1. p \in {"flush_us", "flush_total"} /\ p \in Steps
      BY DEF AfterBytes, Steps
    <3>2. CASE FlushFetchTime(i)
      BY <1>2, <3>2 DEF FlushFetchTime, Steps
    <3>3. CASE FlushBytes(i) \/ FlushPool(i)
      <4>1. /\ w[i].pc \in {"flush_bytes", "flush_pool"}
            /\ \/ w'[i] = [w[i] EXCEPT !.pc = "flush_pool"]
               \/ w'[i] = [w[i] EXCEPT !.pc = p, !.bytes_fetched = 0]
        BY <1>1, <3>3 DEF FlushBytes, FlushPool
      <4> HIDE DEF p
      <4> QED BY <1>0, <3>1, <4>1 DEF Worker, Same, Counts
    <3> QED BY <1>15, <3>2, <3>3
  <2>2. UNCHANGED <<delivered, next_partition>>
    BY <1>5, <1>15 DEF FlushBytes, FlushPool, FlushFetchTime
  <2>3. Meters
    BY <1>0, <1>3, <1>15, MetersAre DEF FlushBytes, FlushPool, FlushFetchTime, telemetry
  <2> QED BY <2>1, <2>2, <2>3 DEF LogQuiet, Out, Same, Placed, Opening
<1>16. CASE ReturnChunk(i)
  <2>1. w[i].pc = "flush_total"
    BY <1>1, <1>16 DEF ReturnChunk
  <2>2. Returns(i)
    <3> DEFINE p == IF w[i].chunk = <<>> THEN "exhausted" ELSE "scan"
    <3>1. w'[i] = [w[i] EXCEPT !.pc = p, !.chunk = <<>>, !.fetch_us = 0]
      BY <1>1, <1>16 DEF ReturnChunk
    <3> HIDE DEF p
    <3>2. /\ w'[i].pc = p /\ w'[i].chunk = <<>>
          /\ w'[i].part = w[i].part /\ w'[i].cursor = w[i].cursor /\ w'[i].todo = w[i].todo
          /\ Counts(w'[i], w[i])
      BY <1>0, <3>1 DEF Worker, Counts
    <3> QED BY <1>16, <2>1, <3>2 DEF ReturnChunk, Returns, p
  <2>3. Meters
    BY <1>0, <1>16, MetersAre DEF ReturnChunk
  <2> QED BY <2>2, <2>3 DEF LogReturns, Returns, Placed, Opening
<1>17. CASE TearDownCursor(i) \/ ReleaseConnection(i)
  <2>1. /\ UNCHANGED <<last, log, start, delivered, next_partition>>
        /\ \/ MayTearDown(i) /\ w'[i].pc = "release"
           \/ w[i].pc = "release" /\ w'[i].pc = "closed"
        /\ w'[i].part = w[i].part
        /\ w[i].part = NoWork => w'[i].chunk = <<>> /\ ~w'[i].cursor
    <3>1. CASE TearDownCursor(i)
      <4> DEFINE c == CloseCursor(w[i])
      <4>1. c \in Worker /\ Closed(c, w[i])
        BY <1>0, CloseCursorIs
      <4>2. w'[i] = [c EXCEPT !.pc = "release", !.chunk = <<>>]
        BY <1>1, <3>1 DEF TearDownCursor
      <4> HIDE DEF c
      <4>3. w'[i].pc = "release" /\ ~w'[i].cursor /\ w'[i].chunk = <<>> /\ w'[i].part = w[i].part
        BY <4>1, <4>2 DEF Worker, Closed
      <4> QED BY <1>4, <3>1, <4>3 DEF TearDownCursor
    <3>2. CASE ReleaseConnection(i)
      <4>1. w[i].pc = "release" /\ w'[i] = [w[i] EXCEPT !.pc = "closed", !.conn = FALSE]
        BY <1>1, <3>2 DEF ReleaseConnection
      <4>2. Same(w'[i], w[i]) /\ w'[i].pc = "closed"
        BY <1>0, <4>1 DEF Worker, Same, Counts
      <4> QED BY <1>4, <3>2, <4>1, <4>2 DEF ReleaseConnection, Same, Placed
    <3> QED BY <1>17, <3>1, <3>2
  <2> QED BY <1>3, <2>1 DEF MayTearDown, LogQuiet, Out, Placed, Opening
<1> QED BY <1>6, <1>7, <1>8, <1>9, <1>10, <1>11, <1>12, <1>13, <1>14, <1>15, <1>16, <1>17
        DEF Work, Schedule

\* The entries of the running query, and what they have been told.
AtRecord == {i \in Workers : w[i].pc = "record"}
Logged == next_partition - Cardinality(AtRecord)
Newest == [k \in 1..Logged |-> log[Len(log) - Logged + k]]
NewestRows == [k \in 1..Logged |-> Newest[k].rows_read]
OutRows == [i \in Workers |-> Out(w[i])]

Logs == status = "running" /\ LogSize >= partitions
RecentInv ==
  /\ Logged \in 0..Len(log)
  /\ \A k \in 1..Len(log) : log[k].capture.query = query <=> k > Len(log) - Logged
  /\ \A i \in Workers : w[i].part # NoWork /\ w[i].pc # "record" => Logged > 0
SumInv == Total(NewestRows) = Total(delivered) + Total(OutRows)
BlameInv ==
  /\ Failed # {} => \E k \in 1..Logged : Newest[k].error_message # NoError
  /\ \A k \in 1..Logged :
       \/ Newest[k].error_message = NoError
       \/ \E i \in Failed \cup Failing : Newest[k].error_message = w[i].part

LogInv ==
  /\ SlotInv
  /\ \A i \in Workers : Placed(w[i])
  /\ Logs => RecentInv /\ SumInv /\ BlameInv

\* A partition that was popped and not yet recorded has no entry.
LEMMA LoggedMoves ==
  ASSUME TypeOK, NEW i \in Workers, Stays(i)
  PROVE  /\ Logged \in Int
         /\ w[i].pc # "record" /\ w'[i].pc # "record" /\ UNCHANGED next_partition =>
              Logged' = Logged
         /\ w[i].pc # "record" /\ w'[i].pc = "record" /\ next_partition' = next_partition + 1 =>
              Logged' = Logged
         /\ w[i].pc = "record" /\ w'[i].pc # "record" /\ UNCHANGED next_partition =>
              Logged' = Logged + 1 /\ Logged < next_partition
<1>1. IsFiniteSet(AtRecord)
  BY FiniteWorkers, FS_Subset DEF AtRecord
<1>2. Cardinality(AtRecord) \in Nat /\ next_partition \in Nat
  BY <1>1, FS_CardinalityType DEF TypeOK
<1>3. \A j \in Workers : j \in AtRecord' <=> IF j = i THEN w'[i].pc = "record" ELSE j \in AtRecord
  BY DEF AtRecord, Stays
<1>4. AtRecord \subseteq Workers /\ AtRecord' \subseteq Workers
  BY DEF AtRecord
<1>5. w[i].pc = "record" <=> i \in AtRecord
  BY DEF AtRecord
<1>6. CASE w[i].pc # "record" /\ w'[i].pc # "record" /\ UNCHANGED next_partition
  <2>1. AtRecord' = AtRecord
    BY <1>3, <1>4, <1>5, <1>6
  <2> QED BY <1>2, <1>6, <2>1 DEF Logged
<1>7. CASE w[i].pc # "record" /\ w'[i].pc = "record" /\ next_partition' = next_partition + 1
  <2>1. AtRecord' = AtRecord \cup {i} /\ i \notin AtRecord
    BY <1>3, <1>4, <1>5, <1>7
  <2>2. Cardinality(AtRecord') = Cardinality(AtRecord) + 1
    BY <1>1, <2>1, FS_AddElement
  <2> QED BY <1>2, <1>7, <2>2 DEF Logged
<1>8. CASE w[i].pc = "record" /\ w'[i].pc # "record" /\ UNCHANGED next_partition
  <2>1. AtRecord' = AtRecord \ {i} /\ i \in AtRecord
    BY <1>3, <1>4, <1>5, <1>8
  <2>2. Cardinality(AtRecord') = Cardinality(AtRecord) - 1
    BY <1>1, <2>1, FS_RemoveElement
  <2>3. Cardinality(AtRecord) # 0
    BY <1>1, <2>1, FS_EmptySet
  <2> QED BY <1>2, <1>8, <2>2, <2>3 DEF Logged
<1> QED BY <1>2, <1>6, <1>7, <1>8 DEF Logged

LEMMA NewestType ==
  ASSUME SlotInv, Logged \in 0..Len(log)
  PROVE  /\ NewestRows \in [1..Logged -> Nat]
         /\ \A k \in 1..Logged : Newest[k] \in LogEntry /\ NewestRows[k] = Newest[k].rows_read
         /\ Logged > 0 => Newest[Logged] = last
<1>1. log \in Seq(LogEntry) /\ Len(log) \in Nat
  BY DEF SlotInv
<1>2. ASSUME NEW k \in 1..Logged
      PROVE  Newest[k] \in LogEntry /\ NewestRows[k] = Newest[k].rows_read
  <2>1. Len(log) - Logged + k \in 1..Len(log)
    BY <1>1
  <2>2. log[Len(log) - Logged + k] \in LogEntry
    BY <1>1, <2>1
  <2> QED BY <2>2 DEF Newest, NewestRows
<1>3. \A k \in 1..Logged : NewestRows[k] \in Nat
  BY <1>2 DEF LogEntry
<1>4. Logged > 0 => Newest[Logged] = last
  <2>1. Logged > 0 => Logged \in 1..Logged /\ Len(log) - Logged + Logged = Len(log) /\ log # <<>>
    BY <1>1
  <2> QED BY <2>1 DEF Newest, SlotInv
<1> QED BY <1>2, <1>3, <1>4 DEF NewestRows

\* A metric or an error written to the newest entry.
LEMMA NewestChanges ==
  ASSUME SlotInv, Logged \in 0..Len(log),
         \A k \in 1..Len(log) : log[k].capture.query = query <=> k > Len(log) - Logged,
         NEW f \in Fields, NEW v, T!Mirror(f, v), [last EXCEPT ![f] = v] \in LogEntry,
         UNCHANGED query, Logged' = Logged
  PROVE  /\ Logged' \in 0..Len(log')
         /\ \A k \in 1..Len(log') : log'[k].capture.query = query' <=> k > Len(log') - Logged'
         /\ \A k \in 1..Logged : Newest'[k] = IF k = Logged THEN [last EXCEPT ![f] = v]
                                              ELSE Newest[k]
<1>1. /\ Len(log') = Len(log) /\ last' = [last EXCEPT ![f] = v]
      /\ \A k \in 1..Len(log) : log'[k] = IF k = Len(log) THEN last' ELSE log[k]
  BY MirrorIs
<1>2. last'.capture = last.capture
  BY <1>1 DEF SlotInv, Fields, LogEntry
<1>3. Len(log) \in Nat /\ (Len(log) > 0 => log[Len(log)] = last)
  BY DEF SlotInv
<1>4. \A k \in 1..Len(log) : log'[k].capture.query = log[k].capture.query
  <2> SUFFICES ASSUME NEW k \in 1..Len(log)
               PROVE  log'[k].capture.query = log[k].capture.query
    OBVIOUS
  <2>1. CASE k = Len(log)
    <3>1. log'[k] = last' /\ log[k] = last
      <4>1. Len(log) > 0 /\ k \in 1..Len(log)
        BY <1>3, <2>1
      <4>2. log'[k] = last'
        BY ONLY <1>1, <2>1, <4>1
      <4>3. log[k] = last
        BY ONLY <1>3, <2>1, <4>1
      <4> QED BY <4>2, <4>3
    <3> QED BY ONLY <1>2, <3>1
  <2>2. CASE k # Len(log)
    BY <1>1, <2>2
  <2> QED BY <2>1, <2>2
<1>5. \A k \in 1..Logged : Newest'[k] = IF k = Logged THEN last' ELSE Newest[k]
  <2> SUFFICES ASSUME NEW k \in 1..Logged
               PROVE  Newest'[k] = IF k = Logged THEN last' ELSE Newest[k]
    OBVIOUS
  <2>1. /\ Len(log) - Logged + k \in 1..Len(log)
        /\ k = Logged <=> Len(log) - Logged + k = Len(log)
    BY <1>3
  <2>2. Newest'[k] = log'[Len(log) - Logged + k] /\ Newest[k] = log[Len(log) - Logged + k]
    BY <1>1 DEF Newest
  <2> QED BY <1>1, <2>1, <2>2
<1> QED BY <1>1, <1>4, <1>5

\* Who has failed, when no worker's error is being recorded.
LEMMA BlameKept ==
  ASSUME NEW i \in Workers, Stays(i), BlameInv, Logged \in Nat, Logged' \in {Logged, Logged + 1},
         w[i].pc \notin {"scan_error", "threw"}, w'[i].pc = "threw" => w'[i].part = NoWork,
         \A k \in 1..Logged : Newest'[k].error_message = Newest[k].error_message,
         Logged' = Logged + 1 => Newest'[Logged + 1].error_message = NoError
  PROVE  BlameInv'
<1>1. i \notin Failed /\ i \notin Failing /\ i \notin Failed'
  BY DEF Failed, Failing
<1>2. /\ Failed' = Failed /\ Failing \subseteq Failing'
      /\ \A j \in Failed \cup Failing : w'[j].part = w[j].part
  BY <1>1 DEF Failed, Failing, Stays
<1>3. 1..Logged \subseteq 1..Logged'
  OBVIOUS
<1>4. Failed' # {} => \E k \in 1..Logged' : Newest'[k].error_message # NoError
  BY <1>2, <1>3 DEF BlameInv
<1>5. ASSUME NEW k \in 1..Logged'
      PROVE  \/ Newest'[k].error_message = NoError
             \/ \E j \in Failed' \cup Failing' : Newest'[k].error_message = w'[j].part
  <2>1. CASE k \in 1..Logged
    BY <1>2, <2>1 DEF BlameInv
  <2>2. CASE k \notin 1..Logged
    <3>1. Logged' = Logged + 1 /\ k = Logged + 1
      BY <2>2
    <3> QED BY <3>1
  <2> QED BY <2>1, <2>2
<1> QED BY <1>4, <1>5 DEF BlameInv

\* The worker's error becomes the newest entry's.
LEMMA BlameAdded ==
  ASSUME WorkersInv, NEW i \in Workers, Stays(i), LogErrors(i), BlameInv, w[i].part # NoWork,
         Logged \in Nat, Logged > 0, Logged' = Logged,
         \A k \in 1..Logged : Newest'[k].error_message = IF k = Logged THEN w[i].part
                                                         ELSE Newest[k].error_message
  PROVE  BlameInv'
<1>1. w[i].part # NoError
  BY ScanAssumption DEF WorkersInv, Worker
<1>2. /\ i \in Failed' \cup Failing' /\ Failed \cup Failing \subseteq Failed' \cup Failing'
      /\ \A j \in Workers : w'[j].part = w[j].part
  BY DEF Failed, Failing, Stays, LogErrors
<1>3. Logged \in 1..Logged'
  OBVIOUS
<1>4. \E k \in 1..Logged' : Newest'[k].error_message # NoError
  BY <1>1, <1>3
<1>5. ASSUME NEW k \in 1..Logged'
      PROVE  \/ Newest'[k].error_message = NoError
             \/ \E j \in Failed' \cup Failing' : Newest'[k].error_message = w'[j].part
  <2>1. CASE k = Logged
    BY <1>2, <2>1
  <2>2. CASE k # Logged
    <3>1. Newest'[k].error_message = Newest[k].error_message /\ k \in 1..Logged
      BY <2>2
    <3>2. \/ Newest[k].error_message = NoError
          \/ \E j \in Failed \cup Failing : Newest[k].error_message = w[j].part
      BY <3>1 DEF BlameInv
    <3>3. \A j \in Failed \cup Failing : j \in Workers
      BY DEF Failed, Failing
    <3> QED BY <1>2, <3>1, <3>2, <3>3
  <2> QED BY <2>1, <2>2
<1> QED BY <1>4, <1>5 DEF BlameInv

\* What one worker has counted, or handed over, in the total.
LEMMA OutMoves ==
  ASSUME WorkersInv, WorkersInv', NEW i \in Workers, Stays(i)
  PROVE  /\ OutRows \in [Workers -> Nat] /\ Out(w[i]) \in Nat /\ Out(w'[i]) \in Nat
         /\ Total(OutRows) \in Nat /\ Total(OutRows') \in Nat
         /\ Total(OutRows') + Out(w[i]) = Total(OutRows) + Out(w'[i])
<1>1. ASSUME NEW r \in Worker PROVE Out(r) \in Nat
  <2>1. Len(r.chunk) \in Nat
    BY DEF Worker
  <2> QED BY <2>1 DEF Out
<1>2. \A j \in Workers : w[j] \in Worker /\ w'[j] \in Worker
  BY DEF WorkersInv
<1>3. OutRows \in [Workers -> Nat] /\ OutRows' \in [Workers -> Nat]
  BY <1>1, <1>2 DEF OutRows
<1>4. \A j \in Workers : OutRows[j] = Out(w[j]) /\ OutRows'[j] = Out(w'[j])
  BY DEF OutRows
<1>5. \A j \in Workers \ {i} : OutRows'[j] = OutRows[j]
  BY <1>4 DEF Stays
<1> DEFINE f == OutRows
           g == OutRows'
<1>6. Total(f) \in Nat /\ Total(g) \in Nat /\ Total(g) + f[i] = Total(f) + g[i]
  <2>1. f \in [Workers -> Nat] /\ g \in [Workers -> Nat] /\ \A j \in Workers \ {i} : g[j] = f[j]
    BY <1>3, <1>5
  <2> HIDE DEF f, g
  <2> QED BY <2>1, FiniteWorkers, TotalChanges
<1>7. Total(OutRows') = Total(OutRows)'
  BY DEF Total, Units, OutRows
<1> QED BY <1>1, <1>2, <1>3, <1>4, <1>6

-----------------------------------------------------------------------------
(* What each kind of step does to the log.                                 *)

LEMMA SlotKept ==
  ASSUME TypeOK, WorkersInv, SlotInv, NEW i \in Workers, Stays(i),
         \/ LogQuiet(i) \/ LogPops(i) \/ LogRecords(i) \/ LogRows(i) \/ LogReturns(i)
         \/ LogErrors(i)
  PROVE  SlotInv'
<1>0. /\ last \in LogEntry /\ w[i] \in Worker /\ w[i].part \in Nat \cup {NoWork}
      /\ query \in Nat /\ now \in Nat /\ UNCHANGED query
  BY DEF SlotInv, WorkersInv, Worker, TypeOK, Stays
<1>1. CASE UNCHANGED <<last, log, start>>
  BY <1>0, <1>1 DEF SlotInv
<1>2. CASE \E f \in Fields : \E v : T!Mirror(f, v) /\ [last EXCEPT ![f] = v] \in LogEntry
  BY <1>0, <1>2, MirrorIs
<1>3. CASE LogRecords(i)
  <2> DEFINE c == [query |-> query, part |-> w[i].part]
  <2>1. c \in [query : Nat, part : Nat \cup {NoWork}] /\ c.query = query
    BY <1>0
  <2>2. LogSize \in Int
    BY ScanAssumption DEF TypeOK, Bind, LogSize
  <2>3. T!RecordQuery(c, LogSize, now)
    BY <1>3 DEF LogRecords
  <2> HIDE DEF c
  <2> QED BY <1>0, <2>1, <2>2, <2>3, RecordIs
<1>4. CASE Meters
  BY <1>1, <1>2, <1>4 DEF Meters, Fields
<1>5. CASE LogRows(i)
  <2> DEFINE v == last.rows_read + Len(w[i].chunk)
  <2>1. v \in Nat
    <3>1. Len(w[i].chunk) \in Nat /\ last.rows_read \in Nat
      BY <1>0 DEF Worker, LogEntry
    <3> QED BY <3>1
  <2>2. T!Mirror("rows_read", v)
    BY <1>5 DEF LogRows
  <2> HIDE DEF v
  <2>3. [last EXCEPT !["rows_read"] = v] \in LogEntry
    BY <1>0, <2>1 DEF LogEntry
  <2> QED BY <1>2, <2>2, <2>3 DEF Fields
<1>6. CASE LogErrors(i)
  <2>1. T!Mirror("error_message", w[i].part)
    BY <1>6 DEF LogErrors
  <2>2. [last EXCEPT !["error_message"] = w[i].part] \in LogEntry
    BY <1>0 DEF LogEntry
  <2> QED BY <1>2, <2>1, <2>2 DEF Fields
<1> QED BY <1>1, <1>3, <1>4, <1>5, <1>6 DEF LogQuiet, LogPops, LogReturns

\* A meter leaves the rows and the errors of the newest entries alone.
LEMMA NewestMetered ==
  ASSUME SlotInv, RecentInv, Meters, UNCHANGED query, Logged' = Logged
  PROVE  /\ Logged' \in 0..Len(log')
         /\ \A k \in 1..Len(log') : log'[k].capture.query = query' <=> k > Len(log') - Logged'
         /\ \A k \in 1..Logged : /\ Newest'[k].rows_read = Newest[k].rows_read
                                 /\ Newest'[k].error_message = Newest[k].error_message
         /\ NewestRows' = NewestRows
<1>0. /\ Logged \in 0..Len(log)
      /\ \A k \in 1..Len(log) : log[k].capture.query = query <=> k > Len(log) - Logged
  BY DEF RecentInv
<1>1. /\ Logged' \in 0..Len(log')
      /\ \A k \in 1..Len(log') : log'[k].capture.query = query' <=> k > Len(log') - Logged'
      /\ \A k \in 1..Logged : /\ Newest'[k].rows_read = Newest[k].rows_read
                              /\ Newest'[k].error_message = Newest[k].error_message
  <2>1. CASE UNCHANGED <<last, log, start>>
    <3>1. Newest' = Newest
      BY <2>1 DEF Newest
    <3> QED BY <1>0, <2>1, <3>1
  <2>2. CASE \E f \in {"bytes_read_estimate", "firebird_time_us", "total_time_us"} : \E v :
               T!Mirror(f, v) /\ [last EXCEPT ![f] = v] \in LogEntry
    <3>1. PICK f \in {"bytes_read_estimate", "firebird_time_us", "total_time_us"} : \E v :
            T!Mirror(f, v) /\ [last EXCEPT ![f] = v] \in LogEntry
      BY <2>2
    <3>2. PICK v : T!Mirror(f, v) /\ [last EXCEPT ![f] = v] \in LogEntry
      BY <3>1
    <3>3. f \in Fields
      BY DEF Fields
    <3>4. /\ Logged' \in 0..Len(log')
          /\ \A k \in 1..Len(log') : log'[k].capture.query = query' <=> k > Len(log') - Logged'
          /\ \A k \in 1..Logged : Newest'[k] = IF k = Logged THEN [last EXCEPT ![f] = v]
                                               ELSE Newest[k]
      BY <1>0, <3>2, <3>3, NewestChanges
    <3>5. /\ [last EXCEPT ![f] = v].rows_read = last.rows_read
          /\ [last EXCEPT ![f] = v].error_message = last.error_message
      BY DEF SlotInv, LogEntry
    <3>6. Logged > 0 => Newest[Logged] = last
      BY <1>0, NewestType
    <3>7. ASSUME NEW k \in 1..Logged
          PROVE  /\ Newest'[k].rows_read = Newest[k].rows_read
                 /\ Newest'[k].error_message = Newest[k].error_message
      <4>1. CASE k = Logged
        <5>1. Logged > 0
          BY <1>0, <4>1
        <5>2. Newest'[k] = [last EXCEPT ![f] = v]
          BY ONLY <3>4, <4>1, k \in 1..Logged
        <5>3. Newest[k] = last
          BY ONLY <3>6, <4>1, <5>1
        <5> QED BY ONLY <3>5, <5>2, <5>3
      <4>2. CASE k # Logged
        BY <3>4, <4>2
      <4> QED BY <4>1, <4>2
    <3> QED BY <3>4, <3>7
  <2> QED BY <2>1, <2>2 DEF Meters
<1>2. NewestRows' = [k \in 1..Logged |-> Newest'[k].rows_read]
  BY DEF NewestRows
<1> QED BY <1>1, <1>2 DEF NewestRows

LEMMA QuietKeepsLog ==
  ASSUME TypeOK, WorkersInv, WorkersInv', SlotInv, NEW i \in Workers, Stays(i), Logs,
         RecentInv, SumInv, BlameInv, LogQuiet(i) \/ LogPops(i)
  PROVE  RecentInv' /\ SumInv' /\ BlameInv'
<1>1. UNCHANGED query /\ status = "running" /\ Meters /\ UNCHANGED delivered
  BY DEF Stays, Logs, LogQuiet, LogPops, Meters
<1>2. Logged' = Logged
  BY LoggedMoves DEF LogQuiet, LogPops
<1>3. /\ Logged' \in 0..Len(log')
      /\ \A k \in 1..Len(log') : log'[k].capture.query = query' <=> k > Len(log') - Logged'
      /\ \A k \in 1..Logged : /\ Newest'[k].rows_read = Newest[k].rows_read
                              /\ Newest'[k].error_message = Newest[k].error_message
      /\ NewestRows' = NewestRows
  BY <1>1, <1>2, NewestMetered
<1>4. RecentInv'
  <2>1. ASSUME NEW j \in Workers, w'[j].part # NoWork, w'[j].pc # "record" PROVE Logged' > 0
    BY <1>2, <2>1 DEF RecentInv, Stays, LogQuiet, LogPops
  <2> QED BY <1>3, <2>1 DEF RecentInv
<1>5. SumInv'
  <2>1. Out(w'[i]) = Out(w[i])
    BY DEF LogQuiet, LogPops, Out
  <2>2. OutRows' = OutRows
    BY <2>1 DEF OutRows, Stays
  <2> QED BY <1>1, <1>3, <2>2 DEF SumInv
<1>6. BlameInv'
  <2>1. /\ w[i].pc \notin {"scan_error", "threw"}
        /\ w'[i].pc = "threw" => w'[i].part = NoWork
    BY <1>1 DEF LogQuiet, LogPops
  <2>2. Logged \in Nat
    <3>1. Logged \in 0..Len(log) /\ Len(log) \in Nat
      BY DEF RecentInv, SlotInv
    <3> QED BY <3>1
  <2> QED BY <1>2, <1>3, <2>1, <2>2, BlameKept
<1> QED BY <1>4, <1>5, <1>6

\* A capture is one more entry of the query: those of this query stay.
LEMMA RecordKeepsLog ==
  ASSUME TypeOK, WorkersInv, WorkersInv', SlotInv, NEW i \in Workers, Stays(i), Logs,
         RecentInv, SumInv, BlameInv, LogRecords(i)
  PROVE  RecentInv' /\ SumInv' /\ BlameInv'
<1> DEFINE c == [query |-> query, part |-> w[i].part]
<1>0. /\ Len(log) \in Nat /\ Logged \in 0..Len(log) /\ Logged \in Nat
      /\ \A k \in 1..Len(log) : log[k].capture.query = query <=> k > Len(log) - Logged
      /\ query \in Nat /\ now \in Nat /\ partitions \in Nat /\ next_partition \in 0..partitions
      /\ UNCHANGED <<query, delivered, next_partition>>
  BY DEF SlotInv, RecentInv, TypeOK, Stays, LogRecords
<1>1. Logged' = Logged + 1 /\ Logged < next_partition
  BY LoggedMoves DEF LogRecords
<1>2. LogSize \in Int /\ LogSize >= partitions
  BY ScanAssumption DEF TypeOK, Bind, LogSize, Logs
<1>3. LogSize > 0 /\ Logged < LogSize
  BY <1>0, <1>1, <1>2
<1>4. c \in [query : Nat, part : Nat \cup {NoWork}] /\ c.query = query
  BY <1>0 DEF WorkersInv, Worker
<1>5. T!RecordQuery(c, LogSize, now)
  BY DEF LogRecords
<1> HIDE DEF c
<1>6. /\ last' = T!Fresh(c)
      /\ \E d \in 0..Len(log) :
           /\ Len(log') = Len(log) + 1 - d
           /\ d > 0 => Len(log') = LogSize
           /\ \A n \in 1..Len(log') : log'[n] = IF n = Len(log') THEN last' ELSE log[n + d]
  BY <1>0, <1>2, <1>3, <1>4, <1>5, RecordIs
<1>7. PICK d \in 0..Len(log) :
           /\ Len(log') = Len(log) + 1 - d
           /\ d > 0 => Len(log') = LogSize
           /\ \A n \in 1..Len(log') : log'[n] = IF n = Len(log') THEN last' ELSE log[n + d]
  BY <1>6
<1>8. last'.capture.query = query /\ last'.rows_read = 0 /\ last'.error_message = NoError
  BY <1>4, <1>6 DEF T!Fresh
<1>9. /\ Len(log') \in Nat /\ Logged' \in 0..Len(log') /\ Len(log') - Logged' = Len(log) - Logged - d
      /\ Len(log) - Logged - d >= 0
  <2>1. Len(log) - Logged - d >= 0
    BY <1>0, <1>2, <1>3, <1>7
  <2> QED BY <1>0, <1>1, <1>7, <2>1
<1>9a. /\ Len(log) \in Nat /\ Logged \in Nat /\ Logged <= Len(log) /\ d \in Nat
       /\ Len(log') \in Nat /\ Len(log') = Len(log) + 1 - d /\ Logged' = Logged + 1
       /\ Len(log) - Logged - d >= 0
  BY <1>0, <1>1, <1>7, <1>9
<1>10. ASSUME NEW k \in 1..Len(log')
       PROVE  log'[k].capture.query = query <=> k > Len(log') - Logged'
  <2>1. CASE k = Len(log')
    <3>1. k > Len(log') - Logged'
      BY <1>0, <1>1, <1>9, <2>1
    <3>2. log'[k] = last'
      BY <1>7, <2>1
    <3> QED BY <1>8, <3>1, <3>2
  <2>2. CASE k # Len(log')
    <3>1. k + d \in 1..Len(log) /\ (k > Len(log') - Logged' <=> k + d > Len(log) - Logged)
      BY ONLY k \in 1..Len(log'), <1>9a, <2>2
    <3>2. log'[k] = log[k + d]
      BY <1>7, <2>2
    <3>3. log[k + d].capture.query = query <=> k + d > Len(log) - Logged
      BY <1>0, <3>1
    <3> QED BY <3>1, <3>2, <3>3
  <2> QED BY <2>1, <2>2
<1>11. ASSUME NEW k \in 1..Logged'
       PROVE  Newest'[k] = IF k = Logged' THEN last' ELSE Newest[k]
  <2>1. Newest'[k] = log'[Len(log') - Logged' + k]
    BY DEF Newest
  <2>2. /\ Len(log') - Logged' + k \in 1..Len(log')
        /\ k = Logged' <=> Len(log') - Logged' + k = Len(log')
        /\ Len(log') - Logged' + k + d = Len(log) - Logged + k
    BY ONLY k \in 1..Logged', <1>9a
  <2>3. log'[Len(log') - Logged' + k] =
          IF k = Logged' THEN last' ELSE log[Len(log) - Logged + k]
    BY <1>7, <2>2
  <2>4. k # Logged' => Newest[k] = log[Len(log) - Logged + k]
    BY <1>0, <1>1 DEF Newest
  <2> QED BY <2>1, <2>3, <2>4
<1>12. RecentInv'
  <2>1. Logged' > 0
    BY <1>0, <1>1
  <2> QED BY <1>0, <1>9, <1>10, <2>1 DEF RecentInv
<1>13. SumInv'
  <2> DEFINE f == NewestRows
             g == NewestRows'
             S == 1..Logged
             R == 1..Logged'
  <2>1. f \in [S -> Nat]
    BY <1>0, NewestType
  <2>2. ASSUME NEW k \in R PROVE g[k] = IF k \in S THEN f[k] ELSE 0
    <3>1. g[k] = Newest'[k].rows_read /\ (k \in 1..Logged => f[k] = Newest[k].rows_read)
      BY DEF NewestRows
    <3>2. k \in 1..Logged <=> k # Logged'
      BY <1>0, <1>1
    <3> QED BY <1>8, <1>11, <3>1, <3>2
  <2>3. g = [k \in R |-> g[k]]
    BY DEF NewestRows
  <2>4. S \subseteq R
    BY ONLY <1>9a
  <2> HIDE DEF f, g, S, R
  <2>4a. g \in [R -> Nat]
    <3>1. \A k \in R : g[k] \in Nat
      BY <2>1, <2>2
    <3> QED BY <2>3, <3>1
  <2>5. Total(g) = Total(f)
    <3>1. \A k \in R : g[k] = IF k \in S THEN f[k] ELSE 0
      BY <2>2
    <3> QED BY ONLY <2>1, <2>4, <2>4a, <3>1, TotalOfPart
  <2>6. OutRows' = OutRows
    BY DEF OutRows, Stays, LogRecords, Out
  <2> QED BY <1>0, <2>5, <2>6 DEF SumInv, f, g
<1>14. BlameInv'
  <2>1. \A k \in 1..Logged : Newest'[k].error_message = Newest[k].error_message
    BY <1>0, <1>1, <1>11
  <2>2. Newest'[Logged + 1].error_message = NoError
    <3>1. Logged + 1 \in 1..Logged'
      BY <1>0, <1>1
    <3> QED BY <1>1, <1>8, <1>11, <3>1
  <2>3. w[i].pc \notin {"scan_error", "threw"} /\ w'[i].pc # "threw"
    BY DEF LogRecords
  <2> QED BY <1>0, <1>1, <2>1, <2>2, <2>3, BlameKept
<1> QED BY <1>12, <1>13, <1>14

\* A chunk counted is added to the newest entry, and is out with its worker.
LEMMA RowsKeepLog ==
  ASSUME TypeOK, WorkersInv, WorkersInv', SlotInv, NEW i \in Workers, Stays(i), Logs,
         Placed(w[i]), RecentInv, SumInv, BlameInv, LogRows(i)
  PROVE  RecentInv' /\ SumInv' /\ BlameInv'
<1> DEFINE n == Len(w[i].chunk)
           v == last.rows_read + n
           e == [last EXCEPT !["rows_read"] = v]
<1>0. /\ Len(log) \in Nat /\ Logged \in 0..Len(log) /\ Logged \in Nat /\ last \in LogEntry
      /\ n \in Nat /\ last.rows_read \in Nat
      /\ \A k \in 1..Len(log) : log[k].capture.query = query <=> k > Len(log) - Logged
      /\ UNCHANGED <<query, delivered, next_partition>>
  <2>1. Len(log) \in Nat /\ last \in LogEntry /\ last.rows_read \in Nat
    BY DEF SlotInv, LogEntry
  <2>2. n \in Nat
    BY DEF WorkersInv, Worker
  <2>3. /\ Logged \in 0..Len(log)
        /\ \A k \in 1..Len(log) : log[k].capture.query = query <=> k > Len(log) - Logged
        /\ UNCHANGED <<query, delivered, next_partition>>
    BY DEF RecentInv, Stays, LogRows
  <2> QED BY <2>1, <2>2, <2>3
<1>1. Logged' = Logged
  BY LoggedMoves DEF LogRows
<1>2. w[i].part # NoWork /\ Logged > 0
  BY DEF LogRows, Placed, RecentInv
<1>3. T!Mirror("rows_read", v) /\ v \in Nat
  BY <1>0 DEF LogRows
<1>4. /\ Out(w[i]) = 0 /\ Out(w'[i]) = n
  BY DEF LogRows, Out
<1> HIDE DEF n
<1>5. v = last.rows_read + n
  OBVIOUS
<1> HIDE DEF v
<1>6. e \in LogEntry /\ e.rows_read = v /\ e.error_message = last.error_message
  BY <1>0, <1>3 DEF LogEntry
<1>7. /\ Logged' \in 0..Len(log')
      /\ \A k \in 1..Len(log') : log'[k].capture.query = query' <=> k > Len(log') - Logged'
      /\ \A k \in 1..Logged : Newest'[k] = IF k = Logged THEN e ELSE Newest[k]
  <2>1. "rows_read" \in Fields
    BY DEF Fields
  <2> QED BY <1>0, <1>1, <1>3, <1>6, <2>1, NewestChanges
<1> HIDE DEF e
<1>8. /\ NewestRows \in [1..Logged -> Nat] /\ Newest[Logged] = last
      /\ \A k \in 1..Logged : NewestRows[k] = Newest[k].rows_read
  BY <1>0, <1>2, NewestType
<1>9. RecentInv'
  <2>1. Logged' > 0
    BY <1>1, <1>2
  <2> QED BY <1>7, <2>1 DEF RecentInv
<1>10. SumInv'
  <2> DEFINE f == NewestRows
             g == NewestRows'
             S == 1..Logged
  <2>1. \A k \in S : g[k] = IF k = Logged THEN v ELSE f[k]
    <3>1. \A k \in S : g[k] = Newest'[k].rows_read
      BY <1>1 DEF NewestRows
    <3> QED BY <1>6, <1>7, <1>8, <3>1
  <2>2. g = [k \in S |-> g[k]] /\ f \in [S -> Nat]
    BY <1>1, <1>8 DEF NewestRows
  <2>3. Logged \in S /\ IsFiniteSet(S)
    <3>1. 1 \in Int /\ Logged \in Int
      BY <1>0
    <3> QED BY <1>0, <1>2, <3>1, FS_Interval
  <2>4. f[Logged] = last.rows_read /\ g[Logged] = v
    BY <1>8, <2>1, <2>3
  <2> HIDE DEF f, g, S
  <2>5. g \in [S -> Nat] /\ \A k \in S \ {Logged} : g[k] = f[k]
    <3>1. \A k \in S : g[k] \in Nat
      BY <1>3, <2>1, <2>2
    <3> QED BY <2>1, <2>2, <3>1
  <2>6. Total(f) \in Nat /\ Total(g) \in Nat /\ Total(g) + f[Logged] = Total(f) + g[Logged]
    BY ONLY <2>2, <2>3, <2>5, TotalChanges
  <2>7. Total(g) = Total(f) + n
    BY <1>0, <1>5, <2>4, <2>6
  <2>8. /\ Total(OutRows) \in Nat /\ Total(OutRows') \in Nat
        /\ Total(OutRows') + Out(w[i]) = Total(OutRows) + Out(w'[i])
    BY OutMoves
  <2>9. Total(OutRows') = Total(OutRows) + n
    BY <1>4, <2>8
  <2>10. Total(f) = Total(delivered) + Total(OutRows)
    BY DEF SumInv, f
  <2>11. Total(delivered) \in Nat
    BY RowsAreInt64, UnitsFinite, FS_CardinalityType DEF Total, TypeOK
  <2>12. Total(g) = Total(delivered) + Total(OutRows')
    BY <1>0, <2>7, <2>8, <2>9, <2>10, <2>11
  <2> QED BY <1>0, <2>12 DEF SumInv, g
<1>11. BlameInv'
  <2>1. \A k \in 1..Logged : Newest'[k].error_message = Newest[k].error_message
    BY <1>6, <1>7, <1>8
  <2>2. w[i].pc \notin {"scan_error", "threw"} /\ w'[i].pc # "threw"
    BY DEF LogRows
  <2> QED BY <1>0, <1>1, <2>1, <2>2, BlameKept
<1> QED BY <1>9, <1>10, <1>11

\* A chunk returned is delivered, and no longer out.
LEMMA ReturnKeepsLog ==
  ASSUME TypeOK, WorkersInv, WorkersInv', SlotInv, OnceInv, NEW i \in Workers, Stays(i), Logs,
         RecentInv, SumInv, BlameInv, LogReturns(i)
  PROVE  RecentInv' /\ SumInv' /\ BlameInv'
<1>0. /\ Len(log) \in Nat /\ Logged \in 0..Len(log) /\ Logged \in Nat
      /\ UNCHANGED <<query, next_partition>> /\ Meters /\ Returns(i) /\ status = "running"
      /\ w[i].pc = "flush_total" /\ w'[i].pc \in {"exhausted", "scan"} /\ w'[i].part = w[i].part
  BY DEF SlotInv, RecentInv, Stays, LogReturns, Returns, Logs
<1>1. Logged' = Logged
  BY <1>0, LoggedMoves
<1>2. /\ Logged' \in 0..Len(log')
      /\ \A k \in 1..Len(log') : log'[k].capture.query = query' <=> k > Len(log') - Logged'
      /\ \A k \in 1..Logged : /\ Newest'[k].rows_read = Newest[k].rows_read
                              /\ Newest'[k].error_message = Newest[k].error_message
      /\ NewestRows' = NewestRows
  BY <1>0, <1>1, NewestMetered
<1>3. RecentInv'
  <2>1. ASSUME NEW j \in Workers, w'[j].part # NoWork, w'[j].pc # "record" PROVE Logged' > 0
    BY <1>0, <1>1, <2>1 DEF RecentInv, Stays
  <2> QED BY <1>2, <2>1 DEF RecentInv
<1>4. SumInv'
  <2> DEFINE c == w[i].chunk
             f == delivered
             g == delivered'
  <2>1. c \in Seq(Rows) /\ f \in [Rows -> Nat] /\ IsFiniteSet(Rows) /\ Len(c) \in Nat
    <3>1. c \in Seq(Rows)
      BY DEF WorkersInv, Worker
    <3>2. Len(c) \in Nat
      BY <3>1
    <3> QED BY <3>1, <3>2, RowsAreInt64 DEF TypeOK
  <2>2. \A m, n \in 1..Len(c) : c[m] = c[n] => m = n
    BY DEF OnceInv, NoDuplicates
  <2>3. \A k \in Rows : g[k] = IF \E n \in 1..Len(c) : c[n] = k THEN f[k] + 1 ELSE f[k]
    <3>1. \A k \in Rows : g[k] = f[k] + Count(c, k)
      BY <1>0 DEF Returns
    <3>2. \A k \in Rows : f[k] \in Nat
      BY <2>1
    <3>3. \A k \in Rows : Count(c, k) = IF \E n \in 1..Len(c) : c[n] = k THEN 1 ELSE 0
      BY <2>1, <2>2, CountOnce DEF NoDuplicates
    <3> QED BY <3>1, <3>2, <3>3
  <2>3a. OneMoreEach(Rows, f, g, c)
    BY <2>2, <2>3 DEF OneMoreEach
  <2>4. g = [k \in Rows |-> g[k]]
    BY <1>0 DEF Returns
  <2>5. /\ Out(w[i]) = Len(c) /\ Out(w'[i]) = 0
    BY <1>0 DEF Out
  <2> HIDE DEF c, f, g
  <2>6. g \in [Rows -> Nat]
    <3>1. \A k \in Rows : f[k] \in Nat /\ f[k] + 1 \in Nat
      BY <2>1
    <3>2. \A k \in Rows : g[k] \in Nat
      BY <2>3, <3>1
    <3> QED BY <2>4, <3>2
  <2>7. Total(f) \in Nat /\ Total(g) = Total(f) + Len(c)
    BY ONLY <2>1, <2>3a, <2>6, TotalOfMore
  <2>8. /\ Total(OutRows) \in Nat /\ Total(OutRows') \in Nat
        /\ Total(OutRows') + Out(w[i]) = Total(OutRows) + Out(w'[i])
    BY OutMoves
  <2>9. Total(NewestRows) = Total(f) + Total(OutRows)
    BY DEF SumInv, f
  <2>10. Total(NewestRows) = Total(g) + Total(OutRows')
    BY <2>1, <2>5, <2>7, <2>8, <2>9
  <2> QED BY <1>2, <2>10 DEF SumInv, g
<1>5. BlameInv'
  BY <1>0, <1>1, <1>2, BlameKept
<1> QED BY <1>3, <1>4, <1>5

\* A worker's error is blamed on the newest entry, whosever it is.
LEMMA ErrorKeepsLog ==
  ASSUME TypeOK, WorkersInv, WorkersInv', SlotInv, NEW i \in Workers, Stays(i), Logs,
         Placed(w[i]), RecentInv, SumInv, BlameInv, LogErrors(i)
  PROVE  RecentInv' /\ SumInv' /\ BlameInv'
<1> DEFINE e == [last EXCEPT !["error_message"] = w[i].part]
<1>0. /\ Len(log) \in Nat /\ Logged \in 0..Len(log) /\ Logged \in Nat /\ last \in LogEntry
      /\ w[i].part \in Nat \cup {NoWork}
      /\ \A k \in 1..Len(log) : log[k].capture.query = query <=> k > Len(log) - Logged
      /\ UNCHANGED <<query, delivered, next_partition>>
  <2>1. Len(log) \in Nat /\ last \in LogEntry
    BY DEF SlotInv
  <2>2. w[i].part \in Nat \cup {NoWork}
    BY DEF WorkersInv, Worker
  <2>3. /\ Logged \in 0..Len(log)
        /\ \A k \in 1..Len(log) : log[k].capture.query = query <=> k > Len(log) - Logged
        /\ UNCHANGED <<query, delivered, next_partition>>
    BY DEF RecentInv, Stays, LogErrors
  <2> QED BY <2>1, <2>2, <2>3
<1>1. Logged' = Logged
  BY LoggedMoves DEF LogErrors
<1>2. w[i].part # NoWork /\ Logged > 0
  <2>1. w[i].part # NoWork
    BY DEF LogErrors, Placed
  <2> QED BY <2>1 DEF LogErrors, RecentInv
<1>3. T!Mirror("error_message", w[i].part)
  BY DEF LogErrors
<1>4. e \in LogEntry /\ e.rows_read = last.rows_read /\ e.error_message = w[i].part
  BY <1>0 DEF LogEntry
<1>5. /\ Logged' \in 0..Len(log')
      /\ \A k \in 1..Len(log') : log'[k].capture.query = query' <=> k > Len(log') - Logged'
      /\ \A k \in 1..Logged : Newest'[k] = IF k = Logged THEN e ELSE Newest[k]
  <2>1. "error_message" \in Fields
    BY DEF Fields
  <2> QED BY <1>0, <1>1, <1>3, <1>4, <2>1, NewestChanges
<1> HIDE DEF e
<1>6. Newest[Logged] = last
  BY <1>0, <1>2, NewestType
<1>7. RecentInv'
  <2>1. Logged' > 0
    BY <1>1, <1>2
  <2> QED BY <1>5, <2>1 DEF RecentInv
<1>8. SumInv'
  <2>1. \A k \in 1..Logged : Newest'[k].rows_read = Newest[k].rows_read
    BY <1>4, <1>5, <1>6
  <2>2. NewestRows' = NewestRows
    BY <1>1, <2>1 DEF NewestRows
  <2>3. OutRows' = OutRows
    BY DEF OutRows, Stays, LogErrors, Out
  <2> QED BY <1>0, <2>2, <2>3 DEF SumInv
<1>9. BlameInv'
  <2>1. \A k \in 1..Logged : Newest'[k].error_message = IF k = Logged THEN w[i].part
                                                        ELSE Newest[k].error_message
    BY <1>4, <1>5
  <2> QED BY <1>0, <1>1, <1>2, <2>1, BlameAdded
<1> QED BY <1>7, <1>8, <1>9

-----------------------------------------------------------------------------
(* The log adds up.                                                        *)

LEMMA InitLogInv == Init => LogInv
<1> SUFFICES ASSUME Init PROVE LogInv
  OBVIOUS
<1>1. last \in LogEntry /\ log = <<>> /\ start \in Nat
  BY DEF Init, T!NoQuery, T!Fresh, LogEntry
<1>2. SlotInv
  BY <1>1 DEF SlotInv
<1>3. \A i \in Workers : Placed(w[i])
  BY IdleWorker DEF Init, Placed, Opening
<1> QED BY <1>2, <1>3 DEF Init, LogInv, Logs

LEMMA BeginClearsLog ==
  ASSUME TypeOK, SlotInv, Begin
  PROVE  SlotInv' /\ (\A i \in Workers : Placed(w'[i])) /\ RecentInv' /\ SumInv' /\ BlameInv'
<1>0. /\ \A i \in Workers : w'[i] = Idle
      /\ query \in Nat /\ query' = query + 1 /\ UNCHANGED <<last, log, start>>
      /\ next_partition' = 0 /\ delivered' = [r \in Rows |-> 0]
  BY DEF Begin, InitGlobal, telemetry, TypeOK
<1>1. SlotInv'
  <2>1. log \in Seq(LogEntry) /\ \A k \in 1..Len(log) : log[k].capture.query \in Nat
    <3>1. log \in Seq(LogEntry)
      BY DEF SlotInv
    <3>2. \A k \in 1..Len(log) : log[k] \in LogEntry
      BY <3>1
    <3> QED BY <3>1, <3>2 DEF LogEntry
  <2>2. \A k \in 1..Len(log) : log[k].capture.query <= query'
    BY <1>0, <2>1 DEF SlotInv
  <2> QED BY <1>0, <2>2 DEF SlotInv
<1>2. \A i \in Workers : Placed(w'[i])
  BY <1>0, IdleWorker DEF Placed, Opening
<1>3. Logged' = 0
  <2>1. AtRecord' = {}
    BY <1>0, IdleWorker DEF AtRecord
  <2> QED BY <1>0, <2>1, FS_EmptySet DEF Logged
<1>4. RecentInv'
  <2>1. Len(log') \in Nat /\ Len(log') = Len(log)
    BY <1>0 DEF SlotInv
  <2>2. ASSUME NEW k \in 1..Len(log)
        PROVE  log[k].capture.query # query + 1
    <3>1. log[k] \in LogEntry
      BY DEF SlotInv
    <3>2. log[k].capture.query \in Nat /\ log[k].capture.query <= query
      BY <3>1 DEF SlotInv, LogEntry
    <3> QED BY <1>0, <3>2
  <2>3. \A k \in 1..Len(log') : log'[k].capture.query = query' <=> k > Len(log') - Logged'
    <3>1. \A k \in 1..Len(log') : ~(k > Len(log') - 0)
      BY <2>1
    <3> QED BY <1>0, <1>3, <2>2, <3>1
  <2>4. \A i \in Workers : w'[i].part = NoWork
    BY <1>0, IdleWorker
  <2> QED BY <1>3, <2>1, <2>3, <2>4 DEF RecentInv
<1>5. SumInv'
  <2>1. Total(NewestRows') = 0
    <3>1. NewestRows' \in [1..Logged' -> Nat] /\ \A k \in 1..Logged' : NewestRows'[k] = 0
      BY <1>3 DEF NewestRows
    <3> QED BY <3>1, TotalZero
  <2>2. Total(OutRows') = 0
    <3>1. \A i \in Workers : Out(w'[i]) = 0
      BY <1>0, IdleWorker DEF Out
    <3>2. OutRows' \in [Workers -> Nat] /\ \A i \in Workers : OutRows'[i] = 0
      BY <3>1 DEF OutRows
    <3> QED BY <3>2, TotalZero
  <2>3. Total(delivered') = 0
    <3>1. delivered' \in [Rows -> Nat] /\ \A r \in Rows : delivered'[r] = 0
      BY <1>0
    <3> QED BY <3>1, TotalZero
  <2> QED BY <2>1, <2>2, <2>3 DEF SumInv
<1>6. BlameInv'
  <2>1. Failed' = {}
    BY <1>0, IdleWorker DEF Failed
  <2>2. 1..Logged' = {}
    BY <1>3
  <2> QED BY <2>1, <2>2 DEF BlameInv
<1> QED BY <1>1, <1>2, <1>4, <1>5, <1>6

LEMMA WorkKeepsLog ==
  ASSUME TypeOK, WorkersInv, WorkersInv', DrainInv, OnceInv, LogInv,
         NEW i \in Workers, Work(i) \/ Schedule(i)
  PROVE  LogInv'
<1>1. SlotInv /\ \A j \in Workers : Placed(w[j])
  BY DEF LogInv
<1>2. Stays(i)
  BY WorkerStays
<1>3. /\ Placed(w'[i])
      /\ \/ LogQuiet(i) \/ LogPops(i) \/ LogRecords(i) \/ LogRows(i) \/ LogReturns(i)
         \/ LogErrors(i)
  BY <1>1, WorkerLogs
<1>4. SlotInv'
  BY <1>1, <1>2, <1>3, SlotKept
<1>5. \A j \in Workers : Placed(w'[j])
  BY <1>1, <1>2, <1>3 DEF Stays
<1>6. ASSUME Logs' PROVE RecentInv' /\ SumInv' /\ BlameInv'
  <2>1. Logs
    BY <1>2, <1>6 DEF Logs, Stays, LogSize
  <2>2. RecentInv /\ SumInv /\ BlameInv
    BY <2>1 DEF LogInv
  <2> QED BY <1>1, <1>2, <1>3, <2>1, <2>2, QuietKeepsLog, RecordKeepsLog, RowsKeepLog,
             ReturnKeepsLog, ErrorKeepsLog
<1> QED BY <1>4, <1>5, <1>6 DEF LogInv

LEMMA NextLogInv ==
  ScanInv /\ ScanInv' /\ HeldInv /\ LogInv /\ [Next]_vars => LogInv'
<1> SUFFICES ASSUME ScanInv, ScanInv', HeldInv, LogInv, [Next]_vars PROVE LogInv'
  OBVIOUS
<1>0. TypeOK /\ WorkersInv /\ WorkersInv' /\ DrainInv /\ OnceInv /\ SlotInv
  BY DEF ScanInv, TypeOK, WorkersInv, HeldInv, LogInv
<1>1. CASE Begin
  BY <1>0, <1>1, BeginClearsLog DEF LogInv
<1>2. CASE Abort \/ Finish
  BY <1>2 DEF Abort, Finish, EndQuery, telemetry, LogInv, SlotInv, Logs
<1>3. CASE Insert \/ Tick \/ UNCHANGED vars
  <2>1. UNCHANGED <<bind, status, query, partitions, next_partition, last, log, start, w,
                    delivered>>
    BY <1>3 DEF Insert, Tick, vars, shared, telemetry
  <2>2. UNCHANGED <<Logged, Newest, NewestRows, OutRows, Failed, Failing, LogSize>>
    BY <2>1 DEF Logged, AtRecord, Newest, NewestRows, OutRows, Failed, Failing, LogSize
  <2>3. UNCHANGED <<SlotInv, RecentInv, SumInv, BlameInv, Logs>>
    BY <2>1, <2>2 DEF SlotInv, RecentInv, SumInv, BlameInv, Logs
  <2> QED BY <2>1, <2>3 DEF LogInv
<1>4. CASE \E i \in Workers : Work(i) \/ Schedule(i)
  BY <1>0, <1>4, WorkKeepsLog
<1> QED BY <1>1, <1>2, <1>3, <1>4 DEF Next

LEMMA LogInvAddsUp ==
  ASSUME ScanInv, LogInv
  PROVE  LogAddsUp
<1> SUFFICES ASSUME Logs
             PROVE  /\ LoggedRows = DeliveredRows + FlushedRows
                    /\ Failed # {} => LoggedErrors # {}
                    /\ LoggedErrors \subseteq {w[i].part : i \in Failed \cup Failing}
  BY DEF LogAddsUp, Logs
<1>0. SlotInv /\ RecentInv /\ SumInv /\ BlameInv /\ WorkersInv
  BY DEF LogInv, ScanInv, TypeOK, WorkersInv
<1> DEFINE d == Len(log) - Logged
           n == Logged
<1>1. Len(log) \in Nat /\ n \in Nat /\ d \in Nat /\ d + n = Len(log)
  <2>1. Len(log) \in Nat /\ Logged \in 0..Len(log)
    BY <1>0 DEF SlotInv, RecentInv
  <2> QED BY <2>1
<1>2. Entries = (d + 1)..(d + n)
  <2>1. \A k \in 1..Len(log) : log[k].capture.query = query <=> k > d
    BY <1>0 DEF RecentInv
  <2> HIDE DEF d, n
  <2>2. ASSUME NEW k
        PROVE  (k \in 1..Len(log) /\ log[k].capture.query = query) <=> k \in (d + 1)..(d + n)
    <3>1. k \in (d + 1)..(d + n) <=> k \in 1..Len(log) /\ k > d
      BY <1>1
    <3> QED BY <2>1, <3>1
  <2> QED BY <2>2 DEF Entries
<1>3. \A k \in 1..n : d + k \in Entries /\ Newest[k] = log[d + k]
  <2>1. \A k \in 1..n : d + k \in (d + 1)..(d + n)
    BY <1>1
  <2> QED BY <1>2, <2>1 DEF Newest
<1>4. \A m \in Entries : \E k \in 1..n : m = d + k
  <2> SUFFICES ASSUME NEW m \in Entries PROVE \E k \in 1..n : m = d + k
    OBVIOUS
  <2>1. m - d \in 1..n /\ m = d + (m - d)
    BY <1>1, <1>2
  <2> QED BY <2>1
<1>5. NewestRows \in [1..n -> Nat] /\ \A k \in 1..n : NewestRows[k] = Newest[k].rows_read
  BY <1>0, NewestType DEF RecentInv
<1> HIDE DEF d, n
<1>6. LoggedRows = Total(NewestRows)
  <2> DEFINE g == [k \in Entries |-> log[k].rows_read]
  <2>1. \A k \in 1..n : d + k \in Entries /\ g[d + k] = NewestRows[k]
    BY <1>3, <1>5
  <2>2. \A k \in 1..n : NewestRows[k] \in Nat
    BY <1>5
  <2>3. \A m \in Entries : g[m] \in Nat
    BY <1>4, <2>1, <2>2
  <2>4. g \in [(d + 1)..(d + n) -> Nat]
    BY <1>2, <2>3
  <2>5. Total(g) = LoggedRows
    BY DEF LoggedRows
  <2> HIDE DEF g
  <2>6. d \in Int /\ \A k \in 1..n : g[d + k] = NewestRows[k]
    BY <1>1, <2>1
  <2>7. Total(g) = Total(NewestRows)
    BY ONLY <1>1, <1>5, <2>4, <2>6, TotalShifted
  <2> QED BY <2>5, <2>7
<1>7. FlushedRows = Total(OutRows)
  <2> DEFINE f == [i \in Flushed |-> Len(w[i].chunk)]
  <2>1. Flushed \subseteq Workers
    BY DEF Flushed
  <2>2. \A i \in Workers : OutRows[i] = IF i \in Flushed THEN f[i] ELSE 0
    BY DEF OutRows, Out, Flushed
  <2>3. \A i \in Workers : Len(w[i].chunk) \in Nat
    BY <1>0 DEF WorkersInv, Worker
  <2>4. f \in [Flushed -> Nat]
    BY <2>1, <2>3
  <2>5. Total(f) = FlushedRows
    BY DEF FlushedRows
  <2> HIDE DEF f
  <2>6. \A i \in Workers : OutRows[i] \in Nat
    BY <2>2, <2>4
  <2>7. OutRows \in [Workers -> Nat]
    BY <2>6 DEF OutRows
  <2>8. Total(OutRows) = Total(f)
    BY ONLY <2>1, <2>2, <2>4, <2>7, TotalOfPart
  <2> QED BY <2>5, <2>8
<1>8. Failed # {} => LoggedErrors # {}
  <2> SUFFICES ASSUME Failed # {} PROVE LoggedErrors # {}
    OBVIOUS
  <2>1. PICK k \in 1..n : Newest[k].error_message # NoError
    BY <1>0 DEF BlameInv, n
  <2>2. d + k \in Entries /\ log[d + k].error_message # NoError
    BY <1>3, <2>1
  <2> QED BY <2>2 DEF LoggedErrors
<1>9. LoggedErrors \subseteq {w[i].part : i \in Failed \cup Failing}
  <2> SUFFICES ASSUME NEW m \in Entries, log[m].error_message # NoError
               PROVE  \E i \in Failed \cup Failing : log[m].error_message = w[i].part
    BY DEF LoggedErrors
  <2>1. PICK k \in 1..n : m = d + k
    BY <1>4
  <2>2. Newest[k] = log[m]
    BY <1>3, <2>1
  <2>3. \/ Newest[k].error_message = NoError
        \/ \E i \in Failed \cup Failing : Newest[k].error_message = w[i].part
    BY <1>0 DEF BlameInv, n
  <2> QED BY <2>2, <2>3
<1>10. LoggedRows = DeliveredRows + FlushedRows
  BY <1>0, <1>6, <1>7 DEF SumInv, DeliveredRows
<1> QED BY <1>8, <1>9, <1>10

\* Whichever worker's call counts its rows, or its error, onto whichever
\* entry is the newest by then: with a log large enough for all partitions,
\* the entries of the running query add up to what DuckDB has been given and
\* what is on its way, and a worker has failed exactly when one of them names
\* the partition of a worker that has failed or is failing.
THEOREM LogAlwaysAddsUp == Spec => []LogAddsUp
<1>1. Init => LogInv
  BY InitLogInv
<1>2. ScanInv /\ LogInv => LogAddsUp
  BY LogInvAddsUp
<1> QED BY <1>1, <1>2, NextLogInv, RowsTakenOnce, ScanInvariant, PTL DEF Spec
=============================================================================
