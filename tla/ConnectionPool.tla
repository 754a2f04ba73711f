--------------------------- MODULE ConnectionPool ---------------------------
(***************************************************************************)
(* FirebirdConnectionPool and the FirebirdConnection objects it hands out  *)
(* (src/src/firebird_client.cpp), as seen by the threads that borrow them: *)
(* scan workers, metadata leases and the catalog load.                     *)
(*                                                                         *)
(* The pool's mutex is explicit (lock): what the code does inside one      *)
(* lock_guard scope is several steps, and only the mutex keeps them        *)
(* together.  The attach and the start of the transaction happen outside   *)
(* the mutex, as in the code, and each may fail.  The four counters are    *)
(* relaxed atomics, updated where the code updates them.                   *)
(***************************************************************************)
EXTENDS Integers, Sequences, FiniteSets

CONSTANTS
  Threads,      \* threads that acquire and release connections
  Loaders,      \* the threads that may run EnsureTablesLoaded
  NoThread,     \* the mutex is free
  NoConn,       \* a null unique_ptr<FirebirdConnection>
  MaxConns,     \* bound: FirebirdConnection constructions in a behaviour
  MaxReused,    \* bound: no new acquire once total_reused_ is this large
  MaxTime,      \* bound: ticks of the steady clock
  Configs       \* the pool configurations an ATTACH may ask for

ConnId == 1..MaxConns   \* FirebirdConnection::Id(), one per construction

ASSUME PoolAssumption ==
  /\ Loaders \subseteq Threads
  /\ NoThread \notin Threads
  /\ NoConn \notin ConnId
  /\ MaxConns \in Nat
  /\ MaxReused \in Nat
  /\ MaxTime \in Nat
  /\ Configs \subseteq [enabled : BOOLEAN, max_size : Nat, idle_timeout_ms : Nat]

\* A process has finitely many threads.
ASSUME FiniteThreads == IsFiniteSet(Threads)

VARIABLES
  config,      \* config_, fixed by the constructor
  lock,        \* the holder of lock_, or NoThread
  idle,        \* idle_: the parked connections, oldest first
  conn,        \* life of every FirebirdConnection object
  pc,          \* where each thread is in Acquire / Release
  held,        \* the connection each thread owns (a unique_ptr)
  clock,       \* steady_clock::now()
  created, reused, discarded, active,   \* the relaxed atomic counters
  lost,        \* history: leases destroyed without a Release
  last_error   \* TRUE once last_error_ holds a message

counters == <<created, reused, discarded, active, lost, last_error>>
vars == <<config, lock, idle, conn, pc, held, clock, counters>>

Enabled == config.enabled
MaxSize == config.max_size              \* 0 = unlimited
IdleTimeout == config.idle_timeout_ms   \* in ticks of the clock, 0 = no expiry

IdleEntry == [conn : ConnId \cup {NoConn}, released_at : 0..MaxTime]

Init ==
  /\ config \in Configs
  /\ lock = NoThread
  /\ idle = <<>>
  /\ conn = [c \in ConnId |-> "unborn"]
  /\ pc = [t \in Threads |-> "out"]
  /\ held = [t \in Threads |-> NoConn]
  /\ clock = 0
  /\ created = 0 /\ reused = 0 /\ discarded = 0 /\ active = 0 /\ lost = 0
  /\ last_error = FALSE

-----------------------------------------------------------------------------
(* The mutex, and the program counter of a thread.                         *)

Goto(t, from, to) == pc[t] = from /\ pc' = [pc EXCEPT ![t] = to]
\* Fault: the lock_guard is gone.
NoMutex == TRUE

MutexFree == lock = NoThread
Lock(t) == MutexFree /\ lock' = t
Unlock == lock' = NoThread

\* ~FirebirdConnection: rolls back and detaches, ignoring errors.
Destroy(c) == conn' = [conn EXCEPT ![c] = "closed"]

-----------------------------------------------------------------------------
(* AcquireWithInfo                                                         *)

\* A disabled pool goes straight to the construction of a fresh connection.
AcquireDisabled(t) ==
  /\ ~Enabled
  /\ Goto(t, "out", "attach")
  /\ UNCHANGED <<lock, idle, conn, held, clock, counters>>

AcquireLock(t) ==
  /\ Enabled
  /\ reused < MaxReused
  /\ Lock(t)
  /\ Goto(t, "out", "drain")
  /\ UNCHANGED <<idle, conn, held, clock, counters>>

Expired(e) == IdleTimeout > 0 /\ clock - e.released_at > IdleTimeout

\* The n oldest entries have expired and the next one, where the code stops
\* looking, has not.
ExpiredPrefix(n) ==
  /\ \A i \in 1..n : Expired(idle[i])
  /\ n < Len(idle) => ~Expired(idle[n + 1])

\* idle_.erase destroys the expired connections while lock_ is held.
DrainExpired(t) ==
  /\ Goto(t, "drain", "take")
  /\ \E n \in 0..Len(idle) :
       /\ ExpiredPrefix(n)
       /\ conn' = [c \in ConnId |-> IF \E i \in 1..n : idle[i].conn = c
                                    THEN "closed" ELSE conn[c]]
       /\ idle' = SubSeq(idle, n + 1, Len(idle))
       /\ discarded' = discarded + n
  /\ UNCHANGED <<lock, held, clock, created, reused, active, lost, last_error>>

\* std::move(idle_.back().conn) leaves a null pointer in the entry.
TakeBack(t) ==
  /\ idle # <<>>
  /\ Goto(t, "take", "pop")
  /\ held' = [held EXCEPT ![t] = idle[Len(idle)].conn]
  /\ idle' = [idle EXCEPT ![Len(idle)].conn = NoConn]
  /\ UNCHANGED <<lock, conn, clock, counters>>

\* Fault: a reused lease is not counted as active.
PopBackUncounted(t) ==
  /\ Goto(t, "pop", "leased")
  /\ idle' = SubSeq(idle, 1, Len(idle) - 1)
  /\ reused' = reused + 1
  /\ Unlock
  /\ UNCHANGED <<conn, held, clock, created, discarded, active, lost, last_error>>

\* pop_back removes the emptied entry: the lease is handed out as reused.
PopBack(t) ==
  /\ Goto(t, "pop", "leased")
  /\ idle' = SubSeq(idle, 1, Len(idle) - 1)
  /\ reused' = reused + 1
  /\ active' = active + 1
  /\ Unlock
  /\ UNCHANGED <<conn, held, clock, created, discarded, lost, last_error>>

\* Fault: the connection is built inside the lock_guard scope.
MissIdleKeepsLock(t) ==
  /\ idle = <<>>
  /\ Goto(t, "take", "attach")
  /\ UNCHANGED <<lock, idle, conn, held, clock, counters>>

\* Nothing idle: the mutex is released before the connection is built.
MissIdle(t) ==
  /\ idle = <<>>
  /\ Goto(t, "take", "attach")
  /\ Unlock
  /\ UNCHANGED <<idle, conn, held, clock, counters>>

-----------------------------------------------------------------------------
(* The FirebirdConnection constructor, outside the mutex.                  *)

\* g_firebird_connection_id_counter.fetch_add: the lowest id not used yet.
IsNextId(c) == conn[c] = "unborn" /\ \A d \in 1..(c - 1) : conn[d] # "unborn"

AttachOk(t, c) ==
  /\ Goto(t, "attach", "start_tx")
  /\ IsNextId(c)
  /\ conn' = [conn EXCEPT ![c] = "attached"]
  /\ held' = [held EXCEPT ![t] = c]
  /\ UNCHANGED <<lock, idle, clock, counters>>

\* The charset is rejected or isc_attach_database fails; the id is consumed.
\* (The bound on constructions shows up as a failed attach.)
AttachFails(t) ==
  /\ Goto(t, "attach", "record_error")
  /\ \/ \E c \in ConnId : IsNextId(c) /\ Destroy(c)
     \/ (\A c \in ConnId : ~IsNextId(c)) /\ UNCHANGED conn
  /\ UNCHANGED <<lock, idle, held, clock, counters>>

StartTxOk(t) ==
  /\ Goto(t, "start_tx", "leased")
  /\ conn' = [conn EXCEPT ![held[t]] = "open"]
  /\ created' = created + 1
  /\ active' = active + 1
  /\ UNCHANGED <<lock, idle, held, clock, reused, discarded, lost, last_error>>

\* Fault: the constructor's catch block does not detach.
StartTxFailsLeaks(t) ==
  /\ Goto(t, "start_tx", "record_error")
  /\ held' = [held EXCEPT ![t] = NoConn]
  /\ UNCHANGED <<lock, idle, conn, clock, counters>>

\* Fault: the constructor's catch block does not rethrow.
StartTxFailsSwallowed(t) ==
  /\ Goto(t, "start_tx", "leased")
  /\ Destroy(held[t])
  /\ created' = created + 1
  /\ active' = active + 1
  /\ UNCHANGED <<lock, idle, held, clock, reused, discarded, lost, last_error>>

\* The destructor of a half-built object does not run: the constructor's own
\* catch block detaches before it rethrows.
StartTxFails(t) ==
  /\ Goto(t, "start_tx", "record_error")
  /\ Destroy(held[t])
  /\ held' = [held EXCEPT ![t] = NoConn]
  /\ UNCHANGED <<lock, idle, clock, counters>>

\* RecordConnectionError takes lock_ again, then the exception propagates.
RecordConnectionError(t) ==
  /\ MutexFree
  /\ Goto(t, "record_error", "out")
  /\ last_error' = TRUE
  /\ UNCHANGED <<lock, idle, conn, held, clock,
                 created, reused, discarded, active, lost>>

-----------------------------------------------------------------------------
(* Release                                                                 *)

\* active_ is decremented before lock_ is taken.
ReleaseToPool(t) ==
  /\ Enabled
  /\ Goto(t, "leased", "returning")
  /\ active' = active - 1
  /\ UNCHANGED <<lock, idle, conn, held, clock, created, reused, discarded, lost, last_error>>

ReleaseDisabled(t) ==
  /\ ~Enabled
  /\ Goto(t, "leased", "out")
  /\ active' = active - 1
  /\ discarded' = discarded + 1
  /\ Destroy(held[t])
  /\ held' = [held EXCEPT ![t] = NoConn]
  /\ UNCHANGED <<lock, idle, clock, created, reused, lost, last_error>>

ReleaseLock(t) ==
  /\ Lock(t)
  /\ Goto(t, "returning", "check_cap")
  /\ UNCHANGED <<idle, conn, held, clock, counters>>

\* Fault: the cap is checked with > instead of >=.
IdleOverfull == MaxSize > 0 /\ Len(idle) > MaxSize

IdleFull == MaxSize > 0 /\ Len(idle) >= MaxSize

DiscardSurplus(t) ==
  /\ IdleFull
  /\ Goto(t, "check_cap", "out")
  /\ discarded' = discarded + 1
  /\ Destroy(held[t])
  /\ held' = [held EXCEPT ![t] = NoConn]
  /\ Unlock
  /\ UNCHANGED <<idle, clock, created, reused, active, lost, last_error>>

HasRoom(t) ==
  /\ ~IdleFull
  /\ Goto(t, "check_cap", "park")
  /\ UNCHANGED <<lock, idle, conn, held, clock, counters>>

\* Fault: push_front.
ParkFront(t) ==
  /\ Goto(t, "park", "out")
  /\ idle' = <<[conn |-> held[t], released_at |-> clock]>> \o idle
  /\ held' = [held EXCEPT ![t] = NoConn]
  /\ Unlock
  /\ UNCHANGED <<conn, clock, counters>>

Park(t) ==
  /\ Goto(t, "park", "out")
  /\ idle' = Append(idle, [conn |-> held[t], released_at |-> clock])
  /\ held' = [held EXCEPT ![t] = NoConn]
  /\ Unlock
  /\ UNCHANGED <<conn, clock, counters>>

-----------------------------------------------------------------------------
(* What else happens to a lease.                                           *)

\* EnsureTablesLoaded throws ("could not list tables", "failed to load any
\* table metadata") while it owns a connection: conn_owned is destroyed by
\* stack unwinding and Release is never called.
LoadThrows(t) ==
  /\ t \in Loaders
  /\ Goto(t, "leased", "out")
  /\ Destroy(held[t])
  /\ held' = [held EXCEPT ![t] = NoConn]
  /\ lost' = lost + 1
  /\ UNCHANGED <<lock, idle, clock, created, reused, discarded, active, last_error>>

Tick ==
  /\ clock < MaxTime
  /\ clock' = clock + 1
  /\ UNCHANGED <<lock, idle, conn, pc, held, counters>>

-----------------------------------------------------------------------------

\* What a thread does once it has started a call; only the caller decides
\* when to start one.
InCall(t) ==
  \/ DrainExpired(t) \/ TakeBack(t) \/ PopBack(t) \/ MissIdle(t)
  \/ \E c \in ConnId : AttachOk(t, c)
  \/ AttachFails(t) \/ StartTxOk(t) \/ StartTxFails(t)
  \/ RecordConnectionError(t)
  \/ ReleaseLock(t) \/ DiscardSurplus(t) \/ HasRoom(t) \/ Park(t)

Call(t) ==
  \/ AcquireDisabled(t) \/ AcquireLock(t)
  \/ ReleaseToPool(t) \/ ReleaseDisabled(t)
  \/ LoadThrows(t)

Next ==
  /\ Tick \/ \E t \in Threads : InCall(t) \/ Call(t)
  /\ UNCHANGED config

Spec == Init /\ [][Next]_vars

\* A thread inside a call keeps running (the OS schedules it); no call is
\* ever forced to start, and no lease is ever forced to end.
FairSpec == Spec /\ \A t \in Threads : WF_vars(InCall(t) /\ UNCHANGED config)

-----------------------------------------------------------------------------
(* Properties                                                              *)

PC == {"out", "drain", "take", "pop", "attach", "start_tx", "record_error",
       "leased", "returning", "check_cap", "park"}

TypeOK ==
  /\ config \in Configs
  /\ lock \in Threads \cup {NoThread}
  /\ idle \in Seq(IdleEntry)
  /\ conn \in [ConnId -> {"unborn", "attached", "open", "closed"}]
  /\ pc \in [Threads -> PC]
  /\ held \in [Threads -> ConnId \cup {NoConn}]
  /\ clock \in 0..MaxTime
  /\ created \in Nat /\ reused \in Nat /\ discarded \in Nat /\ lost \in Nat
  /\ active \in Int
  /\ last_error \in BOOLEAN

Owning == {"pop", "leased", "returning", "check_cap", "park"}
Owners == {t \in Threads : pc[t] \in Owning}

\* A lease is exclusive and live: the connection a thread owns is an open
\* one, no other thread owns it, and it is not parked at the same time
\* (AcquireWithInfo / Release under lock_).
ExclusiveLease ==
  \A t \in Owners :
    /\ held[t] \in ConnId /\ conn[held[t]] = "open"
    /\ \A u \in Owners \ {t} : held[u] # held[t]
    /\ \A i \in 1..Len(idle) : idle[i].conn # held[t]

\* Every attachment the server sees has an owner in the program, so it will
\* be detached: a failed or half-failed construction, an expiry, a surplus
\* return and an unwound load leave none behind.
NoOrphanAttachment ==
  \A c \in ConnId : conn[c] \in {"attached", "open"} =>
    \/ \E t \in Threads : held[t] = c
    \/ \E i \in 1..Len(idle) : idle[i].conn = c

\* max_size caps the idle queue, whatever the number of threads that return
\* a connection at the same time.
IdleCap == MaxSize > 0 => Len(idle) <= MaxSize

\* A disabled pool never parks a connection.
DisabledNeverParks == ~Enabled => idle = <<>>

\* The lifetime counters add up: each connection created is parked, owned by
\* a thread, discarded by the pool, or lost to an unwound catalog load.  (The
\* entry TakeBack has emptied is on its way out.)  active_connections counts the
\* leases that are out and every lease ever lost.
CountersAddUp ==
  /\ created = Cardinality({i \in 1..Len(idle) : idle[i].conn # NoConn})
               + Cardinality(Owners) + discarded + lost
  /\ active = Cardinality({t \in Threads : pc[t] = "leased"}) + lost

\* Draining looks only at the front of idle_, which is right only while the
\* queue is sorted by released_at: no expired connection survives a drain.
DrainKeepsFresh ==
  \A t \in Threads : (pc[t] = "drain" /\ pc'[t] # "drain") =>
    \A i \in 1..Len(idle') : ~Expired(idle'[i])
DrainIsComplete == [][DrainKeepsFresh]_vars

\* Nobody keeps the mutex: in particular no path that needs it again
\* (RecordConnectionError) is entered while it is held.
MutexReleased == \A t \in Threads : lock = t ~> lock # t

-----------------------------------------------------------------------------
(* The inductive invariant behind ExclusiveLease, NoOrphanAttachment,      *)
(* IdleCap, DisabledNeverParks and DrainIsComplete (proved in              *)
(* ConnectionPoolProofs).                                                  *)

\* Exactly the threads inside a lock_guard scope of the pool hold the mutex.
Critical == {"drain", "take", "pop", "check_cap", "park"}
MutexInv == \A t \in Threads : pc[t] \in Critical <=> lock = t

\* A thread owns a connection object exactly between its construction (or
\* its removal from idle_) and its return, and no two threads own the same.
HeldInv ==
  \A t \in Threads :
    /\ held[t] # NoConn <=> pc[t] \in Owning \cup {"start_tx"}
    /\ pc[t] \in Owning => conn[held[t]] = "open"
    /\ pc[t] = "start_tx" => conn[held[t]] = "attached"
    /\ \A u \in Threads \ {t} : held[t] # NoConn => held[u] # held[t]

\* idle_ holds distinct open connections no thread owns, in the order of
\* their release; its last entry is empty between move and pop_back.
IdleInv ==
  /\ \A i \in 1..Len(idle) :
       /\ idle[i].conn # NoConn => /\ conn[idle[i].conn] = "open"
                                  /\ \A t \in Threads : held[t] # idle[i].conn
       /\ idle[i].conn = NoConn =>
            i = Len(idle) /\ \E t \in Threads : pc[t] = "pop"
       /\ idle[i].released_at <= clock
       /\ \A j \in 1..Len(idle) : j < i =>
            /\ idle[j].conn # idle[i].conn
            /\ idle[j].released_at <= idle[i].released_at
  /\ \A t \in Threads : pc[t] = "pop" =>
       Len(idle) > 0 /\ idle[Len(idle)].conn = NoConn

\* The room found by the size check is still there when the entry is pushed.
CapInv ==
  /\ IdleCap
  /\ \A t \in Threads : pc[t] = "park" => ~IdleFull

\* A disabled pool never takes its mutex except to record an error.
DisabledInv ==
  ~Enabled => /\ idle = <<>>
              /\ \A t \in Threads :
                   pc[t] \in {"out", "attach", "start_tx", "record_error", "leased"}

PoolInv ==
  /\ TypeOK /\ MutexInv /\ HeldInv /\ IdleInv /\ CapInv /\ DisabledInv
  /\ NoOrphanAttachment

-----------------------------------------------------------------------------

\* The pool implements exclusive leases: a thread may use what it holds from
\* the moment AcquireWithInfo returns it to the moment it calls Release.
LeaseOf == [t \in Threads |-> IF pc[t] = "leased" THEN held[t] ELSE NoConn]
LifeOf == [c \in ConnId |-> IF conn[c] = "attached" THEN "unborn" ELSE conn[c]]
Leases == INSTANCE ConnectionLeases WITH
  Conns <- ConnId, lease <- LeaseOf, life <- LifeOf
ImplementsLeases == Leases!Spec
=============================================================================
