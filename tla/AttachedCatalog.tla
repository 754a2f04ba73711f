--------------------------- MODULE AttachedCatalog ---------------------------
(***************************************************************************)
(* The catalog of an attached database: FirebirdSchemaEntry loads every    *)
(* relation once, lazily, under load_lock_, and then answers lookups and   *)
(* scans without a lock; FirebirdTableEntry probes the primary key once,   *)
(* under pk_lock_, and hands the memoised range to every later scan.       *)
(*                                                                         *)
(* The threads run queries on one attached database.  The server is the    *)
(* environment: relations come and go, rows move the key ranges, and any   *)
(* metadata query may fail.                                                *)
(***************************************************************************)
EXTENDS Integers, Sequences, SequencesExt

CONSTANTS
  Threads,        \* the threads that bind queries
  NoThread,       \* nobody holds the mutex
  AllTables,      \* the argument of a Scan of the schema
  Names,          \* the relations, ORDER BY RDB$RELATION_NAME
  Upper,          \* ToUpper of each name
  Views,          \* the relations with a VIEW_BLR
  NoneText,       \* the relations whose text column is CHARACTER SET NONE
  Clashing,       \* the relations with two columns that differ only in case
  Keyed,          \* the relations with a one-column integer primary key
  BlobEncoding,   \* none_encoding = 'blob'
  MaxFaults, MaxChanges, MaxCalls   \* bounds on the environment and the calls

Relations == ToSet(Names)
Keys == {Upper[r] : r \in Relations}

ASSUME CatalogAssumption ==
  /\ NoThread \notin Threads
  /\ Upper \in [Relations -> Relations]
  /\ \A r \in Relations : Upper[Upper[r]] = Upper[r]
  /\ AllTables \notin Keys
  /\ Views \subseteq Relations /\ NoneText \subseteq Relations
  /\ Clashing \subseteq Relations /\ Keyed \subseteq Relations
  /\ BlobEncoding \in BOOLEAN
  /\ MaxFaults \in Nat /\ MaxChanges \in Nat /\ MaxCalls \in Nat

VARIABLES
  server,     \* the user relations that exist
  max_key,    \* how far the MAX of each key column has moved
  load_lock, loaded, tables,        \* FirebirdSchemaEntry
  unique, foreign, todo, found,     \* the locals of EnsureTablesLoaded
  pk_lock, pk,                      \* of the FirebirdTableEntry of each key
  thread,     \* where each thread is, what it asked for, the range it bound
  stable,     \* history: the relations that were there all through the load
  skipped,    \* history: the relations the per-table fallback skipped
  faults, changes, calls

schema == <<load_lock, loaded, tables>>
locals == <<unique, foreign, todo, found>>
memo   == <<pk_lock, pk>>
env    == <<server, max_key, changes>>
vars   == <<schema, locals, memo, env, thread, stable, skipped, faults, calls>>

-----------------------------------------------------------------------------
Unloaded == -2     \* pk_loaded_ is false
NoKey    == -1     \* pk_cache_ is null: the scan is not partitioned
Ranges   == {Unloaded, NoKey} \cup 0..MaxChanges

PCs == {"idle", "lock", "acquire", "unique", "foreign", "batch", "adding",
        "discover", "each", "read", "scan_function", "probe", "done", "failed"}

\* What RDB$RELATION_FIELDS says of the type of the text column of r: a NONE
\* column is surfaced as BLOB when the user asked for it.
MapFirebirdColumn(r) ==
  IF r \in NoneText /\ BlobEncoding THEN "BLOB" ELSE "VARCHAR"

\* The type a live description gives it.
FirebirdToDuckDBType == "VARCHAR"

Entry == [relation : Relations, columns_of : Relations, live : BOOLEAN,
          type : {"BLOB", "VARCHAR"}, unique : BOOLEAN, foreign : BOOLEAN]

\* The rows of both queries come in the order of the names: r is the next of
\* the relations that are left.
IsNext(r) ==
  /\ r \in todo
  /\ \A q \in todo : \E i, j \in DOMAIN Names : i <= j /\ Names[i] = r /\ Names[j] = q

Fault == faults < MaxFaults /\ faults' = faults + 1
NoFault == UNCHANGED faults

At(t, pc) == thread[t].pc = pc
Goto(t, pc) == thread' = [thread EXCEPT ![t].pc = pc]

Init ==
  /\ server \in SUBSET Relations
  /\ max_key = [r \in Relations |-> 0]
  /\ load_lock = NoThread /\ loaded = FALSE /\ tables = << >>
  /\ unique = FALSE /\ foreign = FALSE /\ todo = {} /\ found = FALSE
  /\ pk_lock = [k \in Keys |-> NoThread]
  /\ pk = [k \in Keys |-> Unloaded]
  /\ thread = [t \in Threads |-> [pc |-> "idle", key |-> AllTables, bound |-> Unloaded]]
  /\ stable = {} /\ skipped = {}
  /\ faults = 0 /\ changes = 0 /\ calls = 0

-----------------------------------------------------------------------------
(* A lookup of a table, by its upper-cased name, or a scan of the schema.   *)
Call(t, key) ==
  /\ At(t, "idle") /\ calls < MaxCalls
  /\ calls' = calls + 1
  /\ thread' = [thread EXCEPT ![t] = [pc |-> "lock", key |-> key, bound |-> Unloaded]]
  /\ UNCHANGED <<schema, locals, memo, env, stable, skipped, faults>>

LoadLockFree == load_lock = NoThread

\* lock_guard on load_lock_, then the early return.
AlreadyLoaded(t) ==
  /\ At(t, "lock") /\ LoadLockFree /\ loaded
  /\ Goto(t, "read")
  /\ UNCHANGED <<schema, locals, memo, env, stable, skipped, faults, calls>>

LockForLoad(t) ==
  /\ At(t, "lock") /\ LoadLockFree /\ ~loaded
  /\ load_lock' = t
  /\ stable' = server /\ skipped' = {}
  /\ Goto(t, "acquire")
  /\ UNCHANGED <<loaded, tables, locals, memo, env, faults, calls>>

\* The locals are gone when EnsureTablesLoaded returns or throws.
DropLocals == unique' = FALSE /\ foreign' = FALSE /\ todo' = {} /\ found' = FALSE

\* Fault: a mutex that is unlocked by hand, not on the way of an exception.
ThrowKeepsLock(t) ==
  /\ Goto(t, "failed")
  /\ DropLocals
  /\ UNCHANGED <<schema, memo, env, stable, skipped, calls>>

\* An exception leaves EnsureTablesLoaded: the lock_guard unlocks, loaded_
\* stays false and the next call tries again.
Throw(t) ==
  /\ load_lock' = NoThread
  /\ Goto(t, "failed")
  /\ DropLocals
  /\ UNCHANGED <<loaded, tables, memo, env, stable, skipped, calls>>

Acquire(t) ==
  /\ At(t, "acquire")
  /\ Goto(t, "unique")
  /\ UNCHANGED <<schema, locals, memo, env, stable, skipped, faults, calls>>

AcquireFails(t) == At(t, "acquire") /\ Fault /\ Throw(t)

\* A failure of either constraint query leaves its map empty and the load
\* goes on.
LoadUniqueConstraints(t) ==
  /\ At(t, "unique")
  /\ \/ unique' = TRUE /\ NoFault
     \/ unique' = FALSE /\ Fault
  /\ Goto(t, "foreign")
  /\ UNCHANGED <<schema, foreign, todo, found, memo, env, stable, skipped, calls>>

LoadForeignKeys(t) ==
  /\ At(t, "foreign")
  /\ \/ foreign' = TRUE /\ NoFault
     \/ foreign' = FALSE /\ Fault
  /\ Goto(t, "batch")
  /\ UNCHANGED <<schema, unique, todo, found, memo, env, stable, skipped, calls>>

-----------------------------------------------------------------------------
\* Whether the live description of r replaces its types.  Any failure keeps
\* the types of the catalog; the classification looks up the upper-cased name
\* and a confirmed table of that name ends it.
Reconciled(r, live) ==
  \/ /\ r \notin Views \/ (Upper[r] \in server \ Views)
     /\ live = FALSE /\ NoFault
  \/ /\ r \in Views /\ Upper[r] \notin server \ Views
     /\ \/ live = (r \in server) /\ NoFault
        \/ live = FALSE /\ Fault

NewEntry(r, columns_of, live) ==
  [relation |-> r, columns_of |-> columns_of, live |-> live,
   type |-> IF live THEN FirebirdToDuckDBType ELSE MapFirebirdColumn(columns_of),
   unique |-> unique, foreign |-> foreign]

\* unordered_map::emplace keeps the entry that is there.
Emplace(e) ==
  tables' = [k \in DOMAIN tables \cup {Upper[e.relation]} |->
               IF k \in DOMAIN tables THEN tables[k] ELSE e]

\* The lambda add_entry; AddColumn throws for a name that differs only in case
\* from an earlier one.
add_entry(r, columns_of) ==
  /\ columns_of \notin Clashing
  /\ \E live \in BOOLEAN : Reconciled(r, live) /\ Emplace(NewEntry(r, columns_of, live))

\* The one query over all relations, read to its end.
LoadAllTableSchemas(t) ==
  /\ At(t, "batch")
  /\ todo' = server
  /\ Goto(t, "adding")
  /\ UNCHANGED <<schema, unique, foreign, found, memo, env, stable, skipped, faults, calls>>

\* Fault: the entries of the failed batch stay.
BatchFailsKeeps(t) ==
  /\ todo' = {}
  /\ Goto(t, "discover")
  /\ UNCHANGED <<schema, unique, foreign, found, memo, env, stable, skipped, calls>>

\* The handler of the batch: what it added so far is dropped.
BatchFails(t) ==
  /\ tables' = << >>
  /\ todo' = {}
  /\ Goto(t, "discover")
  /\ UNCHANGED <<load_lock, loaded, unique, foreign, found, memo, env, stable, skipped, calls>>

LoadAllTableSchemasFails(t) == At(t, "batch") /\ Fault /\ BatchFails(t)

AddFromBatch(t) ==
  /\ At(t, "adding")
  /\ \E r \in todo : IsNext(r) /\ add_entry(r, r) /\ todo' = todo \ {r}
  /\ UNCHANGED <<load_lock, loaded, unique, foreign, found, memo, env, thread, stable,
                 skipped, calls>>

\* Fault: the handler takes what the batch has added for the catalog.
AddFromBatchStops(t) ==
  /\ At(t, "adding") /\ (\E r \in Clashing : IsNext(r))
  /\ NoFault /\ todo' = {}
  /\ UNCHANGED <<schema, unique, foreign, found, memo, env, thread, stable, skipped, calls>>

AddFromBatchThrows(t) ==
  /\ At(t, "adding") /\ (\E r \in Clashing : IsNext(r))
  /\ NoFault /\ BatchFails(t)

\* The fallback: the list of relations, then one query per relation.
ListRelations(t) ==
  /\ At(t, "discover")
  /\ todo' = server /\ found' = (server # {})
  /\ Goto(t, "each")
  /\ UNCHANGED <<schema, unique, foreign, memo, env, stable, skipped, faults, calls>>

ListRelationsFails(t) == At(t, "discover") /\ Fault /\ Throw(t)

\* LoadTableSchema asks for the upper-cased name.
LoadTableSchema(t) ==
  /\ At(t, "each")
  /\ \E r \in todo : /\ IsNext(r)
                     /\ Upper[r] \in server
                     /\ add_entry(r, Upper[r])
                     /\ todo' = todo \ {r}
  /\ UNCHANGED <<load_lock, loaded, unique, foreign, found, memo, env, thread, stable,
                 skipped, calls>>

\* It throws when there is no such relation, when AddColumn does, or when the
\* query fails; the relation is skipped.
LoadTableSchemaThrows(t) ==
  /\ At(t, "each")
  /\ \E r \in todo : /\ IsNext(r)
                     /\ \/ (Upper[r] \notin server \/ Upper[r] \in Clashing) /\ NoFault
                        \/ Fault
                     /\ skipped' = skipped \cup {r}
                     /\ todo' = todo \ {r}
  /\ UNCHANGED <<schema, unique, foreign, found, memo, env, thread, stable, calls>>

NothingLoaded == found /\ tables = << >>

LoadedNothing(t) ==
  /\ At(t, "each") /\ todo = {} /\ NothingLoaded
  /\ NoFault /\ Throw(t)

MayFinish(t) == At(t, "adding") \/ (At(t, "each") /\ ~NothingLoaded)

Finish(t) ==
  /\ MayFinish(t) /\ todo = {}
  /\ loaded' = TRUE /\ load_lock' = NoThread
  /\ Goto(t, "read")
  /\ DropLocals
  /\ UNCHANGED <<tables, memo, env, stable, skipped, faults, calls>>

-----------------------------------------------------------------------------
\* LookupEntry and Scan read tables_ without a lock.
Read(t) ==
  /\ At(t, "read")
  /\ IF thread[t].key # AllTables /\ thread[t].key \in DOMAIN tables
     THEN Goto(t, "scan_function") ELSE Goto(t, "done")
  /\ UNCHANGED <<schema, locals, memo, env, stable, skipped, faults, calls>>

\* GetScanFunction.
\* Fault: pk_loaded_ is tested without pk_lock_.
PkUnguarded(k) == k \in Keys

PkLockFree(k) == pk_lock[k] = NoThread

Bind(t, range) == thread' = [thread EXCEPT ![t].pc = "done", ![t].bound = range]

ReusePk(t) ==
  LET k == thread[t].key IN
  /\ At(t, "scan_function") /\ PkLockFree(k) /\ pk[k] # Unloaded
  /\ Bind(t, pk[k])
  /\ UNCHANGED <<schema, locals, memo, env, stable, skipped, faults, calls>>

\* Fault: the types of a view are reconciled in the published entry.
LockPkReconciles(t) ==
  LET k == thread[t].key IN
  /\ At(t, "scan_function") /\ PkLockFree(k) /\ pk[k] = Unloaded
  /\ pk_lock' = [pk_lock EXCEPT ![k] = t]
  /\ tables' = [tables EXCEPT ![k].live = @ \/ tables[k].relation \in Views,
                              ![k].type = FirebirdToDuckDBType]
  /\ Goto(t, "probe")
  /\ UNCHANGED <<load_lock, loaded, locals, pk, env, stable, skipped, faults, calls>>

LockPk(t) ==
  LET k == thread[t].key IN
  /\ At(t, "scan_function") /\ PkLockFree(k) /\ pk[k] = Unloaded
  /\ pk_lock' = [pk_lock EXCEPT ![k] = t]
  /\ Goto(t, "probe")
  /\ UNCHANGED <<schema, locals, pk, env, stable, skipped, faults, calls>>

UnlockPk(k) == pk_lock' = [pk_lock EXCEPT ![k] = NoThread]

\* The constraint is looked up under the upper-cased name, MIN and MAX come
\* from the relation itself.
ProbePrimaryKey(r) ==
  IF Upper[r] \in server \cap Keyed /\ r \in server THEN max_key[r] ELSE NoKey

\* Any exception inside the probe means "no key", and that is memoised too.
Probe(t) ==
  LET k == thread[t].key IN
  /\ At(t, "probe")
  /\ \E range \in Ranges :
       /\ \/ range = ProbePrimaryKey(tables[k].relation) /\ NoFault
          \/ range = NoKey /\ Fault
       /\ pk' = [pk EXCEPT ![k] = range]
       /\ Bind(t, range)
  /\ UnlockPk(k)
  /\ UNCHANGED <<schema, locals, env, stable, skipped, calls>>

\* The pool cannot connect: the exception unlocks, nothing is memoised.
ProbeAcquireFails(t) ==
  /\ At(t, "probe") /\ Fault
  /\ UnlockPk(thread[t].key)
  /\ Goto(t, "failed")
  /\ UNCHANGED <<schema, locals, pk, env, stable, skipped, calls>>

Return(t) ==
  /\ At(t, "done") \/ At(t, "failed")
  /\ Goto(t, "idle")
  /\ UNCHANGED <<schema, locals, memo, env, stable, skipped, faults, calls>>

-----------------------------------------------------------------------------
(* Other clients of the server.                                            *)
CreateRelation(r) ==
  /\ r \notin server /\ server' = server \cup {r}
  /\ UNCHANGED <<max_key, stable>>

DropRelation(r) ==
  /\ r \in server /\ server' = server \ {r} /\ stable' = stable \ {r}
  /\ UNCHANGED max_key

InsertRow(r) ==
  /\ r \in server \cap Keyed /\ max_key' = [max_key EXCEPT ![r] = @ + 1]
  /\ UNCHANGED <<server, stable>>

OtherClient ==
  /\ changes < MaxChanges /\ changes' = changes + 1
  /\ \E r \in Relations : CreateRelation(r) \/ DropRelation(r) \/ InsertRow(r)
  /\ UNCHANGED <<schema, locals, memo, thread, skipped, faults, calls>>

Load(t) ==
  \/ Acquire(t) \/ AcquireFails(t)
  \/ LoadUniqueConstraints(t) \/ LoadForeignKeys(t)
  \/ LoadAllTableSchemas(t) \/ LoadAllTableSchemasFails(t)
  \/ AddFromBatch(t) \/ AddFromBatchThrows(t)
  \/ ListRelations(t) \/ ListRelationsFails(t)
  \/ LoadTableSchema(t) \/ LoadTableSchemaThrows(t)
  \/ LoadedNothing(t) \/ Finish(t)

Step(t) ==
  \/ AlreadyLoaded(t) \/ LockForLoad(t) \/ Load(t) \/ Read(t)
  \/ ReusePk(t) \/ LockPk(t) \/ Probe(t) \/ ProbeAcquireFails(t) \/ Return(t)

Next ==
  \/ \E t \in Threads : Step(t) \/ \E key \in Keys \cup {AllTables} : Call(t, key)
  \/ OtherClient

Spec == Init /\ [][Next]_vars

\* Each thread that is inside a call keeps running.  Calls, faults and changes
\* are finite in number, so a weakly fair thread also gets the mutexes.
FairSpec == Spec /\ \A t \in Threads : WF_vars(Step(t))

-----------------------------------------------------------------------------
TypeOK ==
  /\ server \subseteq Relations /\ stable \subseteq server /\ skipped \subseteq Relations
  /\ max_key \in [Relations -> 0..MaxChanges]
  /\ load_lock \in Threads \cup {NoThread} /\ loaded \in BOOLEAN
  /\ DOMAIN tables \subseteq Keys
  /\ \A k \in DOMAIN tables : tables[k] \in Entry
  /\ unique \in BOOLEAN /\ foreign \in BOOLEAN /\ found \in BOOLEAN
  /\ todo \subseteq Relations
  /\ pk_lock \in [Keys -> Threads \cup {NoThread}]
  /\ pk \in [Keys -> Ranges]
  /\ thread \in [Threads -> [pc : PCs, key : Keys \cup {AllTables}, bound : Ranges]]
  /\ faults \in 0..MaxFaults /\ changes \in 0..MaxChanges /\ calls \in 0..MaxCalls

\* Lookups and scans of the schema read tables_ and its entries without a
\* lock, so once loaded_ is set no step may add, remove or change an entry
\* (the race that reconciling view types in GetScanFunction used to be).
PublishedFrozen == [][loaded => tables' = tables]_tables

\* Every relation that was there from the lock to the publication is found
\* under its upper-cased name, or the fallback skipped it: the batch never
\* publishes a part of the catalog.  However many queries of the load failed, a
\* database with relations is not published as an empty catalog.
CompleteOrSkipped ==
  loaded => /\ \A r \in stable : Upper[r] \in DOMAIN tables \/ r \in skipped
            /\ stable # {} => tables # << >>

\* A load that failed leaves nothing behind for the next one, whose emplace
\* would keep it.
RetriesStartClean == ~loaded /\ load_lock = NoThread => tables = << >>

\* All scans of an attached table cut the same key range: the one that is
\* memoised.
ScansAgree ==
  \A t \in Threads : thread[t].bound # Unloaded => thread[t].bound = pk[thread[t].key]

\* Every call comes back, with an exception or without: no exception leaves
\* load_lock_ or pk_lock_ locked.
CallsReturn == \A t \in Threads : ~At(t, "idle") ~> At(t, "idle")

\* README.md:209: with none_encoding 'blob', NONE text columns are surfaced as
\* BLOB, those of a view too.
NoneTextIsBlob ==
  \A k \in DOMAIN tables :
    BlobEncoding /\ tables[k].columns_of \in NoneText => tables[k].type = "BLOB"
=============================================================================
