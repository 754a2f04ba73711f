------------------------ MODULE AttachedCatalogProofs ------------------------
(***************************************************************************)
(* For any number of threads and relations: once the catalog is published  *)
(* no step changes it, and all scans of a table use the one memoised range.*)
(*                                                                         *)
(* The first rests on LoadInv: whoever is inside the load holds load_lock_,*)
(* and nobody is once loaded_ is set.  The second rests on MemoInv: whoever*)
(* probes holds pk_lock_ of an entry that is not memoised yet, so the      *)
(* probe cannot contradict a range that a scan has bound before.           *)
(*                                                                         *)
(* A failed load leaves nothing (EmptyInv: tables_ is empty wherever a    *)
(* load can throw), and a published catalog is complete (FoundInv: what was*)
(* there all through the load has its entry, was skipped, or is to come). *)
(***************************************************************************)
EXTENDS AttachedCatalog, TLAPS

ThreadType ==
  /\ thread \in [Threads -> [pc : PCs, key : Keys \cup {AllTables}, bound : Ranges]]
  /\ pk_lock \in [Keys -> Threads \cup {NoThread}]
  /\ pk \in [Keys -> Ranges]

LoadPCs == {"acquire", "unique", "foreign", "batch", "adding", "discover", "each"}

HolderLoads == \A t \in Threads : thread[t].pc \in LoadPCs => load_lock = t
LoadedOnce  == loaded => \A t \in Threads : thread[t].pc \notin LoadPCs
LoadInv     == HolderLoads /\ LoadedOnce

Binding(t) == thread[t].pc \in {"scan_function", "probe"}

MemoOf(t) ==
  /\ Binding(t) => thread[t].key \in Keys /\ thread[t].bound = Unloaded
  /\ At(t, "probe") => pk_lock[thread[t].key] = t /\ pk[thread[t].key] = Unloaded
  /\ thread[t].bound # Unloaded =>
       /\ thread[t].pc \in {"done", "idle"}
       /\ thread[t].key \in Keys /\ thread[t].bound = pk[thread[t].key]

MemoInv == \A t \in Threads : MemoOf(t)

IInv == ThreadType /\ LoadInv /\ MemoInv

-----------------------------------------------------------------------------
\* Moving one thread to another place keeps the types and everything but its
\* place; the code's Goto is every such move.
LEMMA GotoOnlyMoves ==
  ASSUME ThreadType, NEW t \in Threads, NEW p \in PCs, Goto(t, p)
  PROVE  /\ thread' \in [Threads -> [pc : PCs, key : Keys \cup {AllTables}, bound : Ranges]]
         /\ thread'[t].pc = p /\ thread'[t].key = thread[t].key
         /\ thread'[t].bound = thread[t].bound
         /\ \A u \in Threads \ {t} : thread'[u] = thread[u]
BY DEF ThreadType, Goto

\* A move to a place outside GetScanFunction, with the memo as it was, keeps
\* the memo invariant.
LEMMA MoveKeepsMemo ==
  ASSUME IInv, NEW t \in Threads, NEW p \in PCs \ {"scan_function", "probe"},
         Goto(t, p), UNCHANGED memo, thread[t].pc \notin {"done", "idle"} \/ p = "idle"
  PROVE  ThreadType' /\ MemoInv'
<1>1. /\ thread' \in [Threads -> [pc : PCs, key : Keys \cup {AllTables}, bound : Ranges]]
      /\ thread'[t].pc = p /\ thread'[t].key = thread[t].key
      /\ thread'[t].bound = thread[t].bound
      /\ \A u \in Threads \ {t} : thread'[u] = thread[u]
  BY GotoOnlyMoves DEF IInv
<1>2. pk' = pk /\ pk_lock' = pk_lock
  BY DEF memo
<1>3. ThreadType'
  BY <1>1, <1>2 DEF IInv, ThreadType
<1>4. ASSUME NEW u \in Threads PROVE MemoOf(u)'
  <2>1. MemoOf(u)
    BY DEF IInv, MemoInv
  <2>2. CASE u = t
    BY <1>1, <1>2, <2>1, <2>2 DEF MemoOf, Binding, At
  <2>3. CASE u # t
    BY <1>1, <1>2, <2>1, <2>3 DEF MemoOf, Binding, At
  <2> QED BY <2>2, <2>3
<1> QED BY <1>3, <1>4 DEF MemoInv

\* A step inside the load that keeps the lock.
LEMMA LoadStepKeepsLock ==
  ASSUME IInv, NEW t \in Threads, thread[t].pc \in LoadPCs,
         NEW p \in LoadPCs, Goto(t, p), UNCHANGED <<load_lock, loaded>>
  PROVE  LoadInv'
<1>1. /\ thread'[t].pc = p
      /\ \A u \in Threads \ {t} : thread'[u] = thread[u]
  BY GotoOnlyMoves DEF IInv, LoadPCs, PCs
<1>2. load_lock = t /\ ~loaded
  BY DEF IInv, LoadInv, HolderLoads, LoadedOnce
<1> QED BY <1>1, <1>2 DEF IInv, LoadInv, HolderLoads, LoadedOnce

\* The end of the load, with an exception or without.
LEMMA LeavingKeepsLock ==
  ASSUME IInv, NEW t \in Threads, thread[t].pc \in LoadPCs,
         NEW p \in PCs \ LoadPCs, Goto(t, p)
  PROVE  LoadInv'
<1>1. /\ thread'[t].pc = p
      /\ \A u \in Threads \ {t} : thread'[u] = thread[u]
  BY GotoOnlyMoves DEF IInv
<1>2. \A u \in Threads : thread[u].pc \in LoadPCs => u = t
  BY DEF IInv, LoadInv, HolderLoads
<1>3. \A u \in Threads : thread'[u].pc \notin LoadPCs
  BY <1>1, <1>2
<1> QED BY <1>3 DEF LoadInv, HolderLoads, LoadedOnce

\* A step outside the load changes neither the lock nor the flag.
LEMMA OutsideKeepsLock ==
  ASSUME IInv, NEW t \in Threads, UNCHANGED <<load_lock, loaded>>,
         thread'[t].pc \notin LoadPCs,
         \A u \in Threads \ {t} : thread'[u] = thread[u]
  PROVE  LoadInv'
BY DEF IInv, LoadInv, HolderLoads, LoadedOnce

-----------------------------------------------------------------------------
\* The steps of EnsureTablesLoaded.
LEMMA LoadKeepsInv ==
  ASSUME IInv, NEW t \in Threads, Load(t) PROVE IInv'
<1>0. /\ LoadPCs \subseteq PCs \ {"scan_function", "probe"}
      /\ {"failed", "read"} \subseteq PCs \ {"scan_function", "probe"}
      /\ {"failed", "read"} \cap LoadPCs = {}
      /\ {"done", "idle"} \cap LoadPCs = {}
  BY DEF LoadPCs, PCs
<1>1. ASSUME thread[t].pc \in LoadPCs, UNCHANGED <<memo, load_lock, loaded>>,
             NEW p \in LoadPCs, Goto(t, p)
      PROVE  IInv'
  BY <1>0, <1>1, MoveKeepsMemo, LoadStepKeepsLock DEF IInv
<1>2. ASSUME thread[t].pc \in LoadPCs, UNCHANGED memo, NEW p \in {"failed", "read"}, Goto(t, p)
      PROVE  IInv'
  BY <1>0, <1>2, MoveKeepsMemo, LeavingKeepsLock DEF IInv
<1>3. ASSUME UNCHANGED <<memo, thread, load_lock, loaded>> PROVE IInv'
  BY <1>3 DEF IInv, ThreadType, LoadInv, HolderLoads, LoadedOnce, MemoInv, MemoOf, Binding, At, memo
<1>4. CASE Acquire(t)
  BY <1>1, <1>4 DEF Acquire, At, LoadPCs, schema
<1>5. CASE AcquireFails(t)
  BY <1>2, <1>5 DEF AcquireFails, Throw, At, LoadPCs
<1>6. CASE LoadUniqueConstraints(t)
  BY <1>1, <1>6 DEF LoadUniqueConstraints, At, LoadPCs, schema
<1>7. CASE LoadForeignKeys(t)
  BY <1>1, <1>7 DEF LoadForeignKeys, At, LoadPCs, schema
<1>8. CASE LoadAllTableSchemas(t)
  BY <1>1, <1>8 DEF LoadAllTableSchemas, At, LoadPCs, schema
<1>9. CASE LoadAllTableSchemasFails(t)
  BY <1>1, <1>9 DEF LoadAllTableSchemasFails, BatchFails, At, LoadPCs
<1>10. CASE AddFromBatch(t)
  BY <1>3, <1>10 DEF AddFromBatch
<1>11. CASE AddFromBatchThrows(t)
  BY <1>1, <1>11 DEF AddFromBatchThrows, BatchFails, At, LoadPCs
<1>12. CASE ListRelations(t)
  BY <1>1, <1>12 DEF ListRelations, At, LoadPCs, schema
<1>13. CASE ListRelationsFails(t)
  BY <1>2, <1>13 DEF ListRelationsFails, Throw, At, LoadPCs
<1>14. CASE LoadTableSchema(t)
  BY <1>3, <1>14 DEF LoadTableSchema
<1>15. CASE LoadTableSchemaThrows(t)
  BY <1>3, <1>15 DEF LoadTableSchemaThrows, schema
<1>16. CASE LoadedNothing(t)
  BY <1>2, <1>16 DEF LoadedNothing, Throw, At, LoadPCs
<1>17. CASE Finish(t)
  BY <1>2, <1>17 DEF Finish, MayFinish, At, LoadPCs
<1> QED
  BY <1>4, <1>5, <1>6, <1>7, <1>8, <1>9, <1>10, <1>11, <1>12, <1>13, <1>14, <1>15, <1>16,
     <1>17 DEF Load

-----------------------------------------------------------------------------
\* The steps before and after the load.
LEMMA CallKeepsInv ==
  ASSUME IInv, NEW t \in Threads, NEW key \in Keys \cup {AllTables}, Call(t, key)
  PROVE  IInv'
<1>1. /\ thread' = [thread EXCEPT ![t] = [pc |-> "lock", key |-> key, bound |-> Unloaded]]
      /\ pk' = pk /\ pk_lock' = pk_lock /\ load_lock' = load_lock /\ loaded' = loaded
  BY DEF Call, memo, schema
<1>2. ThreadType'
  BY <1>1 DEF IInv, ThreadType, PCs, Ranges
<1>3. /\ thread'[t] = [pc |-> "lock", key |-> key, bound |-> Unloaded]
      /\ \A u \in Threads \ {t} : thread'[u] = thread[u]
  BY <1>1 DEF IInv, ThreadType
<1>4. LoadInv'
  BY <1>1, <1>3, OutsideKeepsLock DEF LoadPCs
<1>5. MemoInv'
  BY <1>1, <1>3 DEF IInv, MemoInv, MemoOf, Binding, At
<1> QED BY <1>2, <1>4, <1>5 DEF IInv

LEMMA LockKeepsInv ==
  ASSUME IInv, NEW t \in Threads, AlreadyLoaded(t) \/ LockForLoad(t) \/ Return(t)
  PROVE  IInv'
<1>0. {"read", "acquire", "idle"} \subseteq PCs \ {"scan_function", "probe"}
  BY DEF PCs
<1>1. CASE AlreadyLoaded(t) \/ Return(t)
  <2>1. PICK p \in {"read", "idle"} :
          Goto(t, p) /\ (thread[t].pc \notin {"done", "idle"} \/ p = "idle")
    BY <1>1 DEF AlreadyLoaded, Return, At
  <2>2. UNCHANGED memo /\ UNCHANGED <<load_lock, loaded>>
    BY <1>1 DEF AlreadyLoaded, Return, schema
  <2>3. ThreadType' /\ MemoInv'
    BY <1>0, <1>1, <2>1, <2>2, MoveKeepsMemo
  <2>4. thread'[t].pc \notin LoadPCs /\ \A u \in Threads \ {t} : thread'[u] = thread[u]
    BY <1>0, <2>1, GotoOnlyMoves DEF IInv, LoadPCs
  <2>5. LoadInv'
    BY <2>2, <2>4, OutsideKeepsLock
  <2> QED BY <2>3, <2>5 DEF IInv
<1>2. CASE LockForLoad(t)
  <2>1. ThreadType' /\ MemoInv'
    BY <1>0, <1>2, MoveKeepsMemo DEF LockForLoad, At
  <2>2. \A u \in Threads \ {t} : thread'[u] = thread[u]
    BY <1>0, <1>2, GotoOnlyMoves DEF LockForLoad, IInv
  <2>3. load_lock = NoThread /\ load_lock' = t /\ ~loaded /\ loaded' = loaded
    BY <1>2 DEF LockForLoad, LoadLockFree
  <2>4. \A u \in Threads : thread[u].pc \notin LoadPCs
    BY <2>3, CatalogAssumption DEF IInv, LoadInv, HolderLoads
  <2>5. LoadInv'
    BY <2>2, <2>3, <2>4 DEF LoadInv, HolderLoads, LoadedOnce
  <2> QED BY <2>1, <2>5 DEF IInv
<1> QED BY <1>1, <1>2

-----------------------------------------------------------------------------
\* The steps of a lookup and of GetScanFunction.
LEMMA ReadKeepsInv ==
  ASSUME IInv, NEW t \in Threads, Read(t) PROVE IInv'
<1>1. PICK p \in {"scan_function", "done"} :
        /\ Goto(t, p)
        /\ p = "scan_function" => thread[t].key # AllTables
  BY DEF Read
<1>2. pk' = pk /\ pk_lock' = pk_lock /\ load_lock' = load_lock /\ loaded' = loaded
  BY DEF Read, memo, schema
<1>3. p \in PCs /\ p \notin LoadPCs
  BY DEF PCs, LoadPCs
<1>4. /\ thread' \in [Threads -> [pc : PCs, key : Keys \cup {AllTables}, bound : Ranges]]
      /\ thread'[t].pc = p /\ thread'[t].key = thread[t].key
      /\ thread'[t].bound = thread[t].bound
      /\ \A u \in Threads \ {t} : thread'[u] = thread[u]
  BY <1>1, <1>3, GotoOnlyMoves DEF IInv
<1>5. thread[t].key \in Keys \cup {AllTables} /\ thread[t].bound = Unloaded
  BY DEF IInv, ThreadType, MemoInv, MemoOf, Read, At
<1> QED
  BY <1>1, <1>2, <1>3, <1>4, <1>5, OutsideKeepsLock DEF IInv, ThreadType, MemoInv, MemoOf, Binding, At

LEMMA PkKeepsInv ==
  ASSUME IInv, NEW t \in Threads, ReusePk(t) \/ LockPk(t) \/ ProbeAcquireFails(t)
  PROVE  IInv'
<1> DEFINE k == thread[t].key
<1>0. /\ {"done", "failed", "probe"} \subseteq PCs \ LoadPCs
      /\ k \in Keys /\ thread[t].bound = Unloaded
      /\ \A u \in Threads : MemoOf(u)
  BY DEF PCs, LoadPCs, IInv, MemoInv, MemoOf, Binding, ReusePk, LockPk, ProbeAcquireFails, At
<1>1. UNCHANGED <<load_lock, loaded>> /\ pk' = pk
  BY DEF ReusePk, LockPk, ProbeAcquireFails, memo, schema
<1>2. CASE ReusePk(t)
  <2>1. /\ thread' = [thread EXCEPT ![t].pc = "done", ![t].bound = pk[k]]
        /\ pk_lock' = pk_lock
    BY <1>2 DEF ReusePk, Bind, memo
  <2>2. ThreadType'
    BY <1>0, <1>1, <2>1 DEF IInv, ThreadType
  <2>3. /\ thread'[t].pc = "done" /\ thread'[t].key = k /\ thread'[t].bound = pk[k]
        /\ \A u \in Threads \ {t} : thread'[u] = thread[u]
    BY <2>1 DEF IInv, ThreadType
  <2>4. LoadInv'
    BY <1>0, <1>1, <2>3, OutsideKeepsLock
  <2>5. MemoOf(t)'
    BY <1>0, <1>1, <2>3 DEF MemoOf, Binding, At
  <2>6. ASSUME NEW u \in Threads \ {t} PROVE MemoOf(u)'
    <3>1. thread'[u] = thread[u] /\ pk' = pk /\ pk_lock' = pk_lock /\ MemoOf(u)
      BY <1>0, <1>1, <2>1, <2>3
    <3> QED BY ONLY <3>1 DEF MemoOf, Binding, At
  <2>7. MemoInv'
    BY <2>5, <2>6 DEF MemoInv
  <2> QED BY <2>2, <2>4, <2>7 DEF IInv
<1>3. CASE LockPk(t)
  <2>1. /\ Goto(t, "probe") /\ pk_lock' = [pk_lock EXCEPT ![k] = t]
        /\ pk_lock[k] = NoThread /\ pk[k] = Unloaded
    BY <1>3 DEF LockPk, PkLockFree
  <2>2. /\ thread' \in [Threads -> [pc : PCs, key : Keys \cup {AllTables}, bound : Ranges]]
        /\ thread'[t].pc = "probe" /\ thread'[t].key = k /\ thread'[t].bound = Unloaded
        /\ \A u \in Threads \ {t} : thread'[u] = thread[u]
    BY <1>0, <2>1, GotoOnlyMoves DEF IInv
  <2>3. ThreadType'
    BY <1>0, <1>1, <2>1, <2>2 DEF IInv, ThreadType
  <2>4. LoadInv'
    BY <1>0, <1>1, <2>2, OutsideKeepsLock
  <2>5. \A j \in Keys : j # k => pk_lock'[j] = pk_lock[j]
    BY <2>1 DEF IInv, ThreadType
  <2>6. pk_lock'[k] = t
    BY <1>0, <2>1 DEF IInv, ThreadType
  <2>7. \A u \in Threads : At(u, "probe") => thread[u].key # k
    BY <1>0, <2>1, CatalogAssumption DEF MemoOf
  <2>8. MemoInv'
    BY <1>0, <1>1, <2>1, <2>2, <2>5, <2>6, <2>7 DEF MemoInv, MemoOf, Binding, At
  <2> QED BY <2>3, <2>4, <2>8 DEF IInv
<1>4. CASE ProbeAcquireFails(t)
  <2>1. /\ Goto(t, "failed") /\ pk_lock' = [pk_lock EXCEPT ![k] = NoThread]
        /\ At(t, "probe")
    BY <1>4 DEF ProbeAcquireFails, UnlockPk
  <2>2. /\ thread' \in [Threads -> [pc : PCs, key : Keys \cup {AllTables}, bound : Ranges]]
        /\ thread'[t].pc = "failed" /\ thread'[t].key = k /\ thread'[t].bound = Unloaded
        /\ \A u \in Threads \ {t} : thread'[u] = thread[u]
    BY <1>0, <2>1, GotoOnlyMoves DEF IInv
  <2>3. ThreadType'
    BY <1>1, <2>1, <2>2 DEF IInv, ThreadType
  <2>4. LoadInv'
    BY <1>0, <1>1, <2>2, OutsideKeepsLock
  <2>5. \A j \in Keys : j # k => pk_lock'[j] = pk_lock[j]
    BY <2>1 DEF IInv, ThreadType
  <2>6. \A u \in Threads \ {t} : At(u, "probe") => thread[u].key # k
    BY <1>0, <2>1 DEF MemoOf
  <2>7. MemoInv'
    BY <1>0, <1>1, <2>2, <2>5, <2>6 DEF MemoInv, MemoOf, Binding, At
  <2> QED BY <2>3, <2>4, <2>7 DEF IInv
<1> QED BY <1>2, <1>3, <1>4

LEMMA ProbeKeepsInv ==
  ASSUME IInv, NEW t \in Threads, Probe(t) PROVE IInv'
<1> DEFINE k == thread[t].key
<1>1. PICK range \in Ranges :
        /\ pk' = [pk EXCEPT ![k] = range]
        /\ thread' = [thread EXCEPT ![t].pc = "done", ![t].bound = range]
  BY DEF Probe, Bind
<1>2. /\ pk_lock' = [pk_lock EXCEPT ![k] = NoThread]
      /\ UNCHANGED <<load_lock, loaded>> /\ At(t, "probe")
  BY DEF Probe, UnlockPk, schema
<1>3. /\ k \in Keys /\ pk_lock[k] = t /\ pk[k] = Unloaded
      /\ \A u \in Threads : MemoOf(u)
  BY <1>2 DEF IInv, MemoInv, MemoOf, Binding, At
<1>4. ThreadType'
  BY <1>1, <1>2 DEF IInv, ThreadType, PCs
<1>5. /\ thread'[t].pc = "done" /\ thread'[t].key = k /\ thread'[t].bound = range
      /\ \A u \in Threads \ {t} : thread'[u] = thread[u]
  BY <1>1 DEF IInv, ThreadType
<1>6. LoadInv'
  BY <1>2, <1>5, OutsideKeepsLock DEF LoadPCs
<1>7. /\ pk'[k] = range
      /\ \A j \in Keys : j # k => pk'[j] = pk[j] /\ pk_lock'[j] = pk_lock[j]
  BY <1>1, <1>2, <1>3 DEF IInv, ThreadType
<1>8. \A u \in Threads \ {t} :
        /\ At(u, "probe") => thread[u].key # k
        /\ thread[u].bound # Unloaded => thread[u].key # k
  BY <1>3 DEF MemoOf
<1>9. MemoInv'
  BY <1>3, <1>5, <1>7, <1>8 DEF MemoInv, MemoOf, Binding, At
<1> QED BY <1>4, <1>6, <1>9 DEF IInv

-----------------------------------------------------------------------------
LEMMA NextKeepsInv == IInv /\ [Next]_vars => IInv'
<1> SUFFICES ASSUME IInv, [Next]_vars PROVE IInv'
  OBVIOUS
<1>1. ASSUME UNCHANGED <<schema, memo, thread>> PROVE IInv'
  BY <1>1 DEF schema, memo, IInv, ThreadType, LoadInv, HolderLoads, LoadedOnce, MemoInv, MemoOf,
              Binding, At
<1>2. ASSUME NEW t \in Threads, Step(t) PROVE IInv'
  BY <1>2, LoadKeepsInv, LockKeepsInv, ReadKeepsInv, PkKeepsInv, ProbeKeepsInv DEF Step
<1>3. CASE OtherClient
  BY <1>1, <1>3 DEF OtherClient
<1>4. CASE UNCHANGED vars
  BY <1>1, <1>4 DEF vars
<1> QED BY <1>2, <1>3, <1>4, CallKeepsInv DEF Next

LEMMA InitInv == Init => IInv
BY DEF Init, IInv, ThreadType, LoadInv, HolderLoads, LoadedOnce, MemoInv, MemoOf, Binding, At,
       PCs, LoadPCs, Ranges

\* The inductive invariant of the catalog: load_lock_ is held by whoever loads,
\* nobody loads once loaded_ is set, and a probe holds the lock of an entry that
\* is not memoised.
THEOREM CatalogInvariant == Spec => []IInv
BY InitInv, NextKeepsInv, PTL DEF Spec

\* All scans of an attached table use the memoised key range, for any number of
\* threads and relations (GetScanFunction under pk_lock_).
THEOREM ScansAlwaysAgree == Spec => []ScansAgree
<1>1. IInv => ScansAgree
  BY DEF IInv, MemoInv, MemoOf, ScansAgree
<1> QED BY <1>1, CatalogInvariant, PTL

\* No step changes tables_ once loaded_ is set, so the readers need no lock.
THEOREM PublishedIsFrozen == Spec => PublishedFrozen
<1>1. ASSUME IInv, loaded, [Next]_vars PROVE tables' = tables
  <2>1. ASSUME NEW t \in Threads, Load(t) PROVE FALSE
    <3>1. thread[t].pc \in LoadPCs
      BY <2>1 DEF Load, Acquire, AcquireFails, LoadUniqueConstraints, LoadForeignKeys,
                  LoadAllTableSchemas, LoadAllTableSchemasFails, AddFromBatch,
                  AddFromBatchThrows, ListRelations, ListRelationsFails, LoadTableSchema,
                  LoadTableSchemaThrows, LoadedNothing, Finish, MayFinish, At, LoadPCs
    <3> QED BY <1>1, <3>1 DEF IInv, LoadInv, LoadedOnce
  <2>2. ASSUME NEW t \in Threads, Step(t) PROVE tables' = tables
    BY <2>1, <2>2 DEF Step, AlreadyLoaded, LockForLoad, Read, ReusePk, LockPk, Probe,
                      ProbeAcquireFails, Return, schema
  <2>3. ASSUME NEW t \in Threads, NEW key \in Keys \cup {AllTables}, Call(t, key)
        PROVE  tables' = tables
    BY <2>3 DEF Call, schema
  <2> QED BY <1>1, <2>2, <2>3 DEF Next, OtherClient, vars, schema
<1>2. IInv /\ [Next]_vars => [loaded => tables' = tables]_tables
  BY <1>1
<1> QED BY <1>2, CatalogInvariant, PTL DEF Spec, PublishedFrozen

-----------------------------------------------------------------------------
\* tables_ is empty from the lock to the batch, and again from its failure to
\* the fallback, which is where a load can throw.
EmptyPCs == {"acquire", "unique", "foreign", "batch", "discover"}
EmptyInv ==
  /\ RetriesStartClean
  /\ \A t \in Threads : thread[t].pc \in EmptyPCs => tables = << >>

\* A load step of t that leaves tables_ empty, and moves nobody else.
LEMMA EmptyStep ==
  ASSUME tables' = << >> PROVE EmptyInv'
BY DEF EmptyInv, RetriesStartClean

\* While t loads it alone does, so it may add entries, unless it moves to a
\* place where they have to be gone.
LEMMA AddingStep ==
  ASSUME IInv, NEW t \in Threads, thread[t].pc \in LoadPCs,
         \/ UNCHANGED thread /\ thread[t].pc \notin EmptyPCs /\ UNCHANGED load_lock
         \/ \E p \in PCs \ EmptyPCs : Goto(t, p) /\ (UNCHANGED load_lock \/ loaded')
  PROVE  EmptyInv'
<1>1. EmptyPCs \subseteq LoadPCs
  BY DEF EmptyPCs, LoadPCs
<1>2. /\ load_lock = t
      /\ \A u \in Threads \ {t} : thread[u].pc \notin EmptyPCs
  BY <1>1 DEF IInv, LoadInv, HolderLoads
<1>3. \A u \in Threads : thread'[u].pc \notin EmptyPCs
  <2>1. CASE UNCHANGED thread /\ thread[t].pc \notin EmptyPCs
    BY <1>2, <2>1
  <2>2. CASE \E p \in PCs \ EmptyPCs : Goto(t, p)
    <3>1. PICK p \in PCs \ EmptyPCs : Goto(t, p)
      BY <2>2
    <3>2. thread'[t].pc = p /\ \A u \in Threads \ {t} : thread'[u] = thread[u]
      BY <3>1, GotoOnlyMoves DEF IInv
    <3> QED BY <1>2, <3>2
  <2> QED BY <2>1, <2>2
<1>4. load_lock' = t \/ loaded'
  BY <1>2
<1> QED BY <1>3, <1>4, CatalogAssumption DEF EmptyInv, RetriesStartClean

\* A step outside the load that leaves its state alone.
LEMMA OutsideStep ==
  ASSUME EmptyInv, UNCHANGED schema,
         \A u \in Threads : thread'[u].pc \in EmptyPCs => thread[u].pc \in EmptyPCs
  PROVE  EmptyInv'
BY DEF EmptyInv, RetriesStartClean, schema

LEMMA LoadKeepsEmpty ==
  ASSUME IInv, EmptyInv, NEW t \in Threads, Load(t) PROVE EmptyInv'
<1>0. {"adding", "each", "read"} \subseteq PCs \ EmptyPCs
  BY DEF PCs, EmptyPCs
<1>1. CASE Acquire(t) \/ AcquireFails(t) \/ LoadUniqueConstraints(t) \/ LoadForeignKeys(t)
           \/ ListRelationsFails(t)
  <2>1. tables = << >>
    BY <1>1 DEF EmptyInv, EmptyPCs, Acquire, AcquireFails, LoadUniqueConstraints,
                LoadForeignKeys, ListRelationsFails, At
  <2>2. tables' = tables
    BY <1>1 DEF Acquire, AcquireFails, LoadUniqueConstraints, LoadForeignKeys,
                ListRelationsFails, Throw, schema
  <2> QED BY <2>1, <2>2, EmptyStep
<1>2. CASE LoadAllTableSchemasFails(t) \/ AddFromBatchThrows(t)
  BY <1>2, EmptyStep DEF LoadAllTableSchemasFails, AddFromBatchThrows, BatchFails
<1>3. CASE LoadedNothing(t)
  BY <1>3, EmptyStep DEF LoadedNothing, NothingLoaded, Throw
<1>4. CASE LoadAllTableSchemas(t) \/ ListRelations(t)
  <2>1. PICK p \in PCs \ EmptyPCs : Goto(t, p)
    BY <1>0, <1>4 DEF LoadAllTableSchemas, ListRelations
  <2>2. thread[t].pc \in LoadPCs /\ UNCHANGED load_lock
    BY <1>4 DEF LoadAllTableSchemas, ListRelations, At, LoadPCs, schema
  <2> QED BY <2>1, <2>2, AddingStep
<1>5. CASE AddFromBatch(t) \/ LoadTableSchema(t) \/ LoadTableSchemaThrows(t)
  <2>1. /\ thread[t].pc \in {"adding", "each"}
        /\ UNCHANGED thread /\ UNCHANGED load_lock
    BY <1>5 DEF AddFromBatch, LoadTableSchema, LoadTableSchemaThrows, At, schema
  <2>2. thread[t].pc \in LoadPCs /\ thread[t].pc \notin EmptyPCs
    BY <2>1 DEF LoadPCs, EmptyPCs
  <2> QED BY <2>1, <2>2, AddingStep
<1>6. CASE Finish(t)
  <2>1. thread[t].pc \in LoadPCs /\ Goto(t, "read") /\ loaded'
    BY <1>6 DEF Finish, MayFinish, At, LoadPCs
  <2> QED BY <1>0, <2>1, AddingStep
<1> QED BY <1>1, <1>2, <1>3, <1>4, <1>5, <1>6 DEF Load

LEMMA StepKeepsEmpty ==
  ASSUME IInv, EmptyInv, NEW t \in Threads, Step(t) PROVE EmptyInv'
<1>1. CASE Load(t)
  BY <1>1, LoadKeepsEmpty
<1>2. CASE LockForLoad(t)
  BY <1>2, EmptyStep DEF LockForLoad, LoadLockFree, EmptyInv, RetriesStartClean
<1>3. CASE AlreadyLoaded(t) \/ Read(t) \/ LockPk(t) \/ ProbeAcquireFails(t) \/ Return(t)
  <2>1. PICK p \in {"read", "scan_function", "done", "probe", "failed", "idle"} : Goto(t, p)
    BY <1>3 DEF AlreadyLoaded, Read, LockPk, ProbeAcquireFails, Return
  <2>2. p \in PCs /\ p \notin EmptyPCs
    BY DEF PCs, EmptyPCs
  <2>3. thread'[t].pc = p /\ \A u \in Threads \ {t} : thread'[u] = thread[u]
    BY <2>1, <2>2, GotoOnlyMoves DEF IInv
  <2>4. UNCHANGED schema
    BY <1>3 DEF AlreadyLoaded, Read, LockPk, ProbeAcquireFails, Return
  <2> QED BY <2>2, <2>3, <2>4, OutsideStep
<1>4. ASSUME NEW range, Bind(t, range), UNCHANGED schema PROVE EmptyInv'
  <2>1. thread'[t].pc = "done" /\ \A u \in Threads \ {t} : thread'[u] = thread[u]
    BY <1>4 DEF Bind, IInv, ThreadType
  <2> QED BY <1>4, <2>1, OutsideStep DEF EmptyPCs
<1>5. CASE ReusePk(t) \/ Probe(t)
  BY <1>4, <1>5 DEF ReusePk, Probe
<1> QED BY <1>1, <1>2, <1>3, <1>5 DEF Step

LEMMA NextKeepsEmpty == IInv /\ EmptyInv /\ [Next]_vars => EmptyInv'
<1> SUFFICES ASSUME IInv, EmptyInv, [Next]_vars PROVE EmptyInv'
  OBVIOUS
<1>1. ASSUME NEW t \in Threads, NEW key \in Keys \cup {AllTables}, Call(t, key) PROVE EmptyInv'
  <2>1. thread'[t].pc = "lock" /\ \A u \in Threads \ {t} : thread'[u] = thread[u]
    BY <1>1 DEF Call, IInv, ThreadType
  <2>2. UNCHANGED schema
    BY <1>1 DEF Call
  <2> QED BY <2>1, <2>2, OutsideStep DEF EmptyPCs
<1>2. CASE OtherClient \/ UNCHANGED vars
  BY <1>2, OutsideStep DEF OtherClient, vars
<1> QED BY <1>1, <1>2, StepKeepsEmpty DEF Next

\* A load that failed, wherever it did, leaves no entry behind that the
\* emplace of the next one would keep (EnsureTablesLoaded).
THEOREM FailedLoadsLeaveNothing == Spec => []RetriesStartClean
<1>1. Init => EmptyInv
  BY DEF Init, EmptyInv, RetriesStartClean
<1>2. EmptyInv => RetriesStartClean
  BY DEF EmptyInv
<1> QED BY <1>1, <1>2, NextKeepsEmpty, CatalogInvariant, PTL DEF Spec

-----------------------------------------------------------------------------
\* What the load has to answer for: each relation that was there all the time
\* has its entry, was skipped, or is still to come.  Nothing is skipped before
\* the fallback, and the fallback knows that there was something to load.
FoundAt(t) ==
  /\ thread[t].pc \in LoadPCs \ {"each"} => skipped = {}
  /\ thread[t].pc \in {"adding", "each"} =>
       \A r \in stable : Upper[r] \in DOMAIN tables \/ r \in skipped \/ r \in todo
  /\ thread[t].pc = "each" /\ stable # {} => found

FoundInv ==
  /\ stable \subseteq server
  /\ CompleteOrSkipped
  /\ \A t \in Threads : FoundAt(t)

\* While t loads nobody else does.
LEMMA LoadingAlone ==
  ASSUME IInv, NEW t \in Threads, thread[t].pc \in LoadPCs
  PROVE  ~loaded /\ \A u \in Threads \ {t} : thread[u].pc \notin LoadPCs
BY DEF IInv, LoadInv, HolderLoads, LoadedOnce

\* A step of the thread that loads answers for itself only.
LEMMA LoadingStep ==
  ASSUME IInv, FoundInv, NEW t \in Threads, thread[t].pc \in LoadPCs, UNCHANGED <<server, stable>>,
         \A u \in Threads \ {t} : thread'[u] = thread[u], FoundAt(t)', CompleteOrSkipped'
  PROVE  FoundInv'
<1>1. ASSUME NEW u \in Threads \ {t} PROVE FoundAt(u)'
  <2>1. thread'[u].pc \notin LoadPCs
    BY LoadingAlone
  <2> QED BY <2>1 DEF FoundAt, LoadPCs
<1> QED BY <1>1 DEF FoundInv

\* A step outside the load.
LEMMA NotLoadingStep ==
  ASSUME FoundInv, UNCHANGED <<schema, locals, skipped>>, stable' \subseteq server', stable' \subseteq stable,
         \A u \in Threads : thread'[u].pc \in LoadPCs => thread'[u].pc = thread[u].pc
  PROVE  FoundInv'
<1>1. ASSUME NEW u \in Threads PROVE FoundAt(u)'
  <2>1. FoundAt(u)
    BY DEF FoundInv
  <2> QED BY <2>1 DEF FoundAt, LoadPCs, schema, locals
<1>2. CompleteOrSkipped'
  BY DEF FoundInv, CompleteOrSkipped, schema
<1> QED BY <1>1, <1>2 DEF FoundInv

\* An entry is found under its upper-cased name, and so is what was there.
LEMMA EmplaceFinds ==
  ASSUME NEW r, NEW c, add_entry(r, c)
  PROVE  Upper[r] \in DOMAIN tables' /\ DOMAIN tables \subseteq DOMAIN tables'
<1>1. PICK live \in BOOLEAN : Emplace(NewEntry(r, c, live))
  BY DEF add_entry
<1>2. NewEntry(r, c, live).relation = r
  BY DEF NewEntry
<1>3. DOMAIN tables' = DOMAIN tables \cup {Upper[r]}
  BY <1>1, <1>2 DEF Emplace
<1> QED BY <1>3

\* A table map with a name in it is not the empty one.
LEMMA NamesAreEntries ==
  ASSUME NEW k \in DOMAIN tables PROVE tables # << >>
OBVIOUS

LEMMA LoadKeepsFound ==
  ASSUME IInv, FoundInv, NEW t \in Threads, Load(t) PROVE FoundInv'
<1>0. thread[t].pc \in LoadPCs /\ UNCHANGED <<server, stable>>
  BY DEF Load, Acquire, AcquireFails, LoadUniqueConstraints, LoadForeignKeys, LoadAllTableSchemas,
     LoadAllTableSchemasFails, AddFromBatch, AddFromBatchThrows, BatchFails, ListRelations,
     ListRelationsFails, LoadTableSchema, LoadTableSchemaThrows, LoadedNothing, Finish, MayFinish,
     Throw, At, LoadPCs, env
<1>1. ~loaded /\ FoundAt(t) /\ stable \subseteq server
  BY <1>0, LoadingAlone DEF FoundInv
<1>2. ASSUME NEW p \in PCs, Goto(t, p)
      PROVE  thread'[t].pc = p /\ \A u \in Threads \ {t} : thread'[u] = thread[u]
  BY <1>2, GotoOnlyMoves DEF IInv
<1>3. ASSUME NEW p \in PCs, Goto(t, p), FoundAt(t)', ~loaded' PROVE FoundInv'
  <2>1. CompleteOrSkipped'
    BY <1>3 DEF CompleteOrSkipped
  <2> QED BY <1>0, <1>2, <1>3, <2>1, LoadingStep
<1>4. CASE Acquire(t) \/ LoadUniqueConstraints(t) \/ LoadForeignKeys(t)
           \/ LoadAllTableSchemasFails(t) \/ AddFromBatchThrows(t)
  <2>1. PICK p \in {"unique", "foreign", "batch", "discover"} : Goto(t, p)
    BY <1>4 DEF Acquire, LoadUniqueConstraints, LoadForeignKeys, LoadAllTableSchemasFails,
       AddFromBatchThrows, BatchFails
  <2>2. thread[t].pc \in LoadPCs \ {"each"} /\ UNCHANGED <<loaded, skipped>>
    BY <1>4 DEF Acquire, LoadUniqueConstraints, LoadForeignKeys, LoadAllTableSchemasFails,
       AddFromBatchThrows, BatchFails, At, LoadPCs, schema
  <2>3. p \in PCs
    BY DEF PCs
  <2>4. FoundAt(t)'
    BY <1>1, <1>2, <2>1, <2>2, <2>3 DEF FoundAt
  <2> QED BY <1>1, <1>3, <2>1, <2>2, <2>3, <2>4
<1>5. CASE LoadAllTableSchemas(t)
  <2>1. Goto(t, "adding") /\ thread[t].pc = "batch" /\ UNCHANGED <<loaded, skipped>> /\ todo' = server
    BY <1>5 DEF LoadAllTableSchemas, At, schema
  <2>2. "adding" \in PCs /\ "batch" \in LoadPCs
    BY DEF PCs, LoadPCs
  <2>3. FoundAt(t)'
    BY <1>0, <1>1, <1>2, <2>1, <2>2 DEF FoundAt
  <2> QED BY <1>1, <1>3, <2>1, <2>2, <2>3
<1>6. CASE ListRelations(t)
  <2>1. /\ Goto(t, "each") /\ UNCHANGED <<loaded, skipped>>
        /\ todo' = server /\ found' = (server # {})
    BY <1>6 DEF ListRelations, schema
  <2>2. "each" \in PCs
    BY DEF PCs
  <2>3. FoundAt(t)'
    BY <1>0, <1>1, <1>2, <2>1, <2>2 DEF FoundAt
  <2> QED BY <1>1, <1>3, <2>1, <2>2, <2>3
<1>7. CASE AddFromBatch(t) \/ LoadTableSchema(t)
  <2>1. PICK r \in todo : (\E c : add_entry(r, c)) /\ todo' = todo \ {r}
    BY <1>7 DEF AddFromBatch, LoadTableSchema
  <2>2. Upper[r] \in DOMAIN tables' /\ DOMAIN tables \subseteq DOMAIN tables'
    BY <2>1, EmplaceFinds
  <2>3. thread[t].pc \in {"adding", "each"} /\ UNCHANGED <<thread, loaded, skipped, found>>
    BY <1>7 DEF AddFromBatch, LoadTableSchema, At
  <2>4. FoundAt(t)'
    BY <1>0, <1>1, <2>1, <2>2, <2>3 DEF FoundAt
  <2>5. CompleteOrSkipped'
    BY <1>1, <2>3 DEF CompleteOrSkipped
  <2> QED BY <1>0, <2>3, <2>4, <2>5, LoadingStep
<1>8. CASE LoadTableSchemaThrows(t)
  <2>1. PICK r \in todo : skipped' = skipped \cup {r} /\ todo' = todo \ {r}
    BY <1>8 DEF LoadTableSchemaThrows
  <2>2. thread[t].pc = "each" /\ UNCHANGED <<thread, loaded, tables, found>>
    BY <1>8 DEF LoadTableSchemaThrows, At, schema
  <2>3. FoundAt(t)'
    BY <1>0, <1>1, <2>1, <2>2 DEF FoundAt
  <2>4. CompleteOrSkipped'
    BY <1>1, <2>2 DEF CompleteOrSkipped
  <2> QED BY <1>0, <2>2, <2>3, <2>4, LoadingStep
<1>9. CASE AcquireFails(t) \/ ListRelationsFails(t) \/ LoadedNothing(t)
  <2>1. Goto(t, "failed") /\ UNCHANGED loaded
    BY <1>9 DEF AcquireFails, ListRelationsFails, LoadedNothing, Throw
  <2>2. "failed" \in PCs \ LoadPCs
    BY DEF PCs, LoadPCs
  <2>3. FoundAt(t)'
    BY <1>2, <2>1, <2>2 DEF FoundAt, LoadPCs
  <2> QED BY <1>1, <1>3, <2>1, <2>2, <2>3
<1>10. CASE Finish(t)
  <2>1. /\ Goto(t, "read") /\ todo = {} /\ UNCHANGED <<tables, skipped>>
        /\ thread[t].pc = "adding" \/ (thread[t].pc = "each" /\ ~NothingLoaded)
    BY <1>10 DEF Finish, MayFinish, At
  <2>2. "read" \in PCs \ LoadPCs
    BY DEF PCs, LoadPCs
  <2>3. FoundAt(t)'
    BY <1>2, <2>1, <2>2 DEF FoundAt, LoadPCs
  <2>4. \A r \in stable : Upper[r] \in DOMAIN tables \/ r \in skipped
    BY <1>1, <2>1 DEF FoundAt
  <2>5. stable # {} => tables # << >>
    <3>1. CASE thread[t].pc = "adding"
      <4>1. skipped = {}
        BY <1>1, <3>1 DEF FoundAt, LoadPCs
      <4> QED BY <2>4, <4>1, NamesAreEntries
    <3>2. CASE thread[t].pc = "each" /\ ~NothingLoaded
      BY <1>1, <3>2 DEF FoundAt, NothingLoaded
    <3> QED BY <2>1, <3>1, <3>2
  <2>6. CompleteOrSkipped'
    BY <1>0, <2>1, <2>4, <2>5 DEF CompleteOrSkipped
  <2> QED BY <1>0, <1>2, <2>1, <2>2, <2>3, <2>6, LoadingStep
<1> QED BY <1>4, <1>5, <1>6, <1>7, <1>8, <1>9, <1>10 DEF Load

LEMMA LockKeepsFound ==
  ASSUME IInv, FoundInv, NEW t \in Threads, LockForLoad(t) PROVE FoundInv'
<1>1. /\ load_lock = NoThread /\ ~loaded /\ loaded' = loaded /\ Goto(t, "acquire")
      /\ stable' = server /\ server' = server /\ skipped' = {}
  BY DEF LockForLoad, LoadLockFree, env
<1>2. thread'[t].pc = "acquire" /\ \A u \in Threads \ {t} : thread'[u] = thread[u]
  BY <1>1, GotoOnlyMoves DEF IInv, PCs
<1>3. \A u \in Threads : thread[u].pc \notin LoadPCs
  BY <1>1, CatalogAssumption DEF IInv, LoadInv, HolderLoads
<1>4. ASSUME NEW u \in Threads PROVE FoundAt(u)'
  BY <1>1, <1>2, <1>3 DEF FoundAt, LoadPCs
<1> QED BY <1>1, <1>4 DEF FoundInv, CompleteOrSkipped

LEMMA NextKeepsFound == IInv /\ FoundInv /\ [Next]_vars => FoundInv'
<1> SUFFICES ASSUME IInv, FoundInv, [Next]_vars PROVE FoundInv'
  OBVIOUS
<1>0. stable \subseteq server
  BY DEF FoundInv
<1>1. ASSUME NEW t \in Threads, AlreadyLoaded(t) \/ Read(t) \/ LockPk(t) \/ ProbeAcquireFails(t) \/ Return(t)
      PROVE  FoundInv'
  <2>1. PICK p \in {"read", "scan_function", "done", "probe", "failed", "idle"} : Goto(t, p)
    BY <1>1 DEF AlreadyLoaded, Read, LockPk, ProbeAcquireFails, Return
  <2>2. p \in PCs \ LoadPCs
    BY DEF PCs, LoadPCs
  <2>3. thread'[t].pc = p /\ \A u \in Threads \ {t} : thread'[u] = thread[u]
    BY <2>1, <2>2, GotoOnlyMoves DEF IInv
  <2>4. UNCHANGED <<schema, locals, env, stable, skipped>>
    BY <1>1 DEF AlreadyLoaded, Read, LockPk, ProbeAcquireFails, Return
  <2> QED BY <1>0, <2>2, <2>3, <2>4, NotLoadingStep DEF env
<1>2. ASSUME NEW t \in Threads, ReusePk(t) \/ Probe(t) PROVE FoundInv'
  <2>1. (\E range : Bind(t, range)) /\ UNCHANGED <<schema, locals, env, stable, skipped>>
    BY <1>2 DEF ReusePk, Probe
  <2>2. thread'[t].pc = "done" /\ \A u \in Threads \ {t} : thread'[u] = thread[u]
    BY <2>1 DEF Bind, IInv, ThreadType
  <2>3. "done" \notin LoadPCs
    BY DEF LoadPCs
  <2> QED BY <1>0, <2>1, <2>2, <2>3, NotLoadingStep DEF env
<1>3. ASSUME NEW t \in Threads, NEW key \in Keys \cup {AllTables}, Call(t, key) PROVE FoundInv'
  <2>1. thread'[t].pc = "lock" /\ \A u \in Threads \ {t} : thread'[u] = thread[u]
    BY <1>3 DEF Call, IInv, ThreadType
  <2>2. UNCHANGED <<schema, locals, env, stable, skipped>> /\ "lock" \notin LoadPCs
    BY <1>3 DEF Call, LoadPCs
  <2> QED BY <1>0, <2>1, <2>2, NotLoadingStep DEF env
<1>4. CASE OtherClient
  <2>1. stable' \subseteq server' /\ stable' \subseteq stable
    BY <1>0, <1>4 DEF OtherClient, CreateRelation, DropRelation, InsertRow
  <2>2. UNCHANGED <<schema, locals, thread, skipped>>
    BY <1>4 DEF OtherClient
  <2> QED BY <2>1, <2>2, NotLoadingStep
<1>5. CASE UNCHANGED vars
  BY <1>0, <1>5, NotLoadingStep DEF vars, env
<1> QED BY <1>1, <1>2, <1>3, <1>4, <1>5, LoadKeepsFound, LockKeepsFound DEF Next, Step

\* A published catalog has an entry for each relation that was there all
\* through the load, but for those the per-table fallback skipped, and is not
\* empty when there was one (EnsureTablesLoaded).
THEOREM PublishedIsComplete == Spec => []CompleteOrSkipped
<1>1. Init => FoundInv
  <2> SUFFICES ASSUME Init PROVE FoundInv
    OBVIOUS
  <2>1. stable \subseteq server /\ ~loaded
    BY DEF Init
  <2>2. ASSUME NEW t \in Threads PROVE FoundAt(t)
    BY DEF Init, FoundAt, LoadPCs
  <2> QED BY <2>1, <2>2 DEF FoundInv, CompleteOrSkipped
<1>2. FoundInv => CompleteOrSkipped
  BY DEF FoundInv
<1> QED BY <1>1, <1>2, NextKeepsFound, CatalogInvariant, PTL DEF Spec
=============================================================================
