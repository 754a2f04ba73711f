------------------------ MODULE ConnectionPoolProofs ------------------------
(***************************************************************************)
(* Theorems about ConnectionPool, for every value of its constants.        *)
(*                                                                         *)
(* PoolInv is inductive: InitPoolInv, one lemma per action, NextPoolInv.   *)
(* The safety theorems at the end follow from it.                          *)
(***************************************************************************)
EXTENDS ConnectionPool, SequenceTheorems, FiniteSetTheorems, TLAPS

USE DEF ConnId

\* The configuration of a pool is well typed and never changes.
LEMMA ConfigFacts ==
  /\ TypeOK => Enabled \in BOOLEAN /\ MaxSize \in Nat /\ IdleTimeout \in Nat
  /\ UNCHANGED config => UNCHANGED <<Enabled, MaxSize, IdleTimeout>>
  BY PoolAssumption DEF PoolAssumption, TypeOK, Enabled, MaxSize, IdleTimeout

LEMMA InitPoolInv == Init => PoolInv
  <1> SUFFICES ASSUME Init PROVE PoolInv
    OBVIOUS
  <1> USE PoolAssumption
  <1>1. idle \in Seq(IdleEntry)
    BY EmptySeq DEF Init
  <1>1a. last_error \in BOOLEAN
    BY DEF Init
  <1>1b. conn \in [ConnId -> {"unborn", "attached", "open", "closed"}]
    BY DEF Init
  <1>1c. pc \in [Threads -> PC] /\ held \in [Threads -> ConnId \cup {NoConn}]
    BY DEF Init, PC
  <1>1d. lock \in Threads \cup {NoThread} /\ clock \in 0..MaxTime
    BY DEF Init, PoolAssumption
  <1>2. TypeOK
    BY <1>1, <1>1a, <1>1b, <1>1c, <1>1d DEF Init, TypeOK
  <1>3. MutexInv /\ HeldInv /\ IdleInv /\ CapInv /\ DisabledInv /\ NoOrphanAttachment
    BY <1>2, ConfigFacts DEF Init, MutexInv, Critical, HeldInv, Owning, IdleInv, CapInv, IdleCap,
           DisabledInv, NoOrphanAttachment
  <1> QED BY <1>2, <1>3 DEF PoolInv

-----------------------------------------------------------------------------
(* What the invariant says of the data a step touches.                     *)

\* The entries of idle_ and the connection a thread owns are well typed.
LEMMA IdleFacts ==
  ASSUME TypeOK
  PROVE  /\ Len(idle) \in Nat
         /\ \A i \in 1..Len(idle) : /\ idle[i] \in IdleEntry
                                    /\ idle[i].conn \in ConnId \cup {NoConn}
                                    /\ idle[i].released_at \in Nat
  <1>1. idle \in Seq(IdleEntry) /\ Len(idle) \in Nat
    BY LenProperties DEF TypeOK
  <1>2. \A i \in 1..Len(idle) : idle[i] \in IdleEntry
    BY <1>1, ElementOfSeq
  <1> QED BY <1>1, <1>2, PoolAssumption DEF IdleEntry

LEMMA HeldFacts ==
  ASSUME TypeOK, HeldInv, NEW t \in Threads, pc[t] \in Owning \cup {"start_tx"}
  PROVE  held[t] \in ConnId
  BY DEF TypeOK, HeldInv

\* A thread that destroys the connection it owns orphans no other.
LEMMA DestroyedByOwner ==
  ASSUME TypeOK, NoOrphanAttachment, NEW t \in Threads, held[t] \in ConnId, Destroy(held[t]),
         held' = [held EXCEPT ![t] = NoConn], UNCHANGED idle
  PROVE  NoOrphanAttachment'
<1> SUFFICES ASSUME NEW c \in ConnId, conn'[c] \in {"attached", "open"},
                    ~ \E i \in 1..Len(idle) : idle[i].conn = c
             PROVE  \E u \in Threads : held'[u] = c
  BY DEF NoOrphanAttachment
<1>1. c # held[t] /\ conn[c] = conn'[c]
  BY DEF TypeOK, Destroy
<1>2. PICK u \in Threads : held[u] = c
  BY <1>1 DEF NoOrphanAttachment
<1>3. held'[u] = held[u]
  BY <1>1, <1>2 DEF TypeOK
<1> QED BY <1>2, <1>3

\* A connection that changes while a thread owns it has an owner.
LEMMA ChangedByOwner ==
  ASSUME TypeOK, NoOrphanAttachment, NEW t \in Threads, held[t] \in ConnId,
         NEW x, conn' = [conn EXCEPT ![held[t]] = x], UNCHANGED <<held, idle>>
  PROVE  NoOrphanAttachment'
<1> SUFFICES ASSUME NEW c \in ConnId, conn'[c] \in {"attached", "open"},
                    ~ \E i \in 1..Len(idle) : idle[i].conn = c, c # held[t]
             PROVE  \E u \in Threads : held[u] = c
  BY DEF NoOrphanAttachment
<1>1. conn[c] = conn'[c]
  BY DEF TypeOK
<1> QED BY <1>1 DEF NoOrphanAttachment

-----------------------------------------------------------------------------
(* One lemma per action.                                                   *)

LEMMA AcquireDisabledInv ==
  ASSUME PoolInv, NEW t \in Threads, AcquireDisabled(t), UNCHANGED config
  PROVE  PoolInv'
  <1> USE PoolAssumption DEF PoolInv, AcquireDisabled, Goto, counters, Lock, Unlock, MutexFree, Destroy
  <1>1. TypeOK'
    BY DEF TypeOK, PC
  <1>2. MutexInv'
    BY DEF TypeOK, MutexInv, Critical
  <1>3. HeldInv'
    BY DEF TypeOK, HeldInv, Owning, IdleInv, IsNextId
  <1>4. IdleInv'
    BY IdleFacts DEF TypeOK, IdleInv, HeldInv, Owning
  <1>5. CapInv' /\ DisabledInv'
    BY ConfigFacts DEF TypeOK, CapInv, IdleCap, IdleFull, DisabledInv
  <1>6. NoOrphanAttachment'
    BY DEF TypeOK, NoOrphanAttachment, HeldInv, Owning
  <1> QED BY <1>1, <1>2, <1>3, <1>4, <1>5, <1>6

LEMMA AcquireLockInv ==
  ASSUME PoolInv, NEW t \in Threads, AcquireLock(t), UNCHANGED config
  PROVE  PoolInv'
  <1> USE PoolAssumption DEF PoolInv, AcquireLock, Goto, counters, Lock, Unlock, MutexFree, Destroy
  <1>1. TypeOK'
    BY DEF TypeOK, PC
  <1>2. MutexInv'
    BY DEF TypeOK, MutexInv, Critical
  <1>3. HeldInv'
    BY DEF TypeOK, HeldInv, Owning, IdleInv, IsNextId
  <1>4. IdleInv'
    BY IdleFacts DEF TypeOK, IdleInv, HeldInv, Owning
  <1>5. CapInv' /\ DisabledInv'
    BY ConfigFacts DEF TypeOK, CapInv, IdleCap, IdleFull, DisabledInv
  <1>6. NoOrphanAttachment'
    BY DEF TypeOK, NoOrphanAttachment, HeldInv, Owning
  <1> QED BY <1>1, <1>2, <1>3, <1>4, <1>5, <1>6

LEMMA MissIdleInv ==
  ASSUME PoolInv, NEW t \in Threads, MissIdle(t), UNCHANGED config
  PROVE  PoolInv'
  <1> USE PoolAssumption DEF PoolInv, MissIdle, Goto, counters, Lock, Unlock, MutexFree, Destroy
  <1>1. TypeOK'
    BY DEF TypeOK, PC
  <1>2. MutexInv'
    BY DEF TypeOK, MutexInv, Critical
  <1>3. HeldInv'
    BY DEF TypeOK, HeldInv, Owning, IdleInv, IsNextId
  <1>4. IdleInv'
    BY IdleFacts DEF TypeOK, IdleInv, HeldInv, Owning
  <1>5. CapInv' /\ DisabledInv'
    BY ConfigFacts DEF TypeOK, CapInv, IdleCap, IdleFull, DisabledInv
  <1>6. NoOrphanAttachment'
    BY DEF TypeOK, NoOrphanAttachment, HeldInv, Owning
  <1> QED BY <1>1, <1>2, <1>3, <1>4, <1>5, <1>6

LEMMA AttachFailsInv ==
  ASSUME PoolInv, NEW t \in Threads, AttachFails(t), UNCHANGED config
  PROVE  PoolInv'
  <1> USE PoolAssumption DEF PoolInv, AttachFails, Goto, counters, Lock, Unlock, MutexFree, Destroy
  <1>1. TypeOK'
    BY DEF TypeOK, PC
  <1>2. MutexInv'
    BY DEF TypeOK, MutexInv, Critical
  <1>3. HeldInv'
    BY DEF TypeOK, HeldInv, Owning, IdleInv, IsNextId
  <1>4. IdleInv'
    BY IdleFacts DEF TypeOK, IdleInv, HeldInv, Owning, IsNextId
  <1>5. CapInv' /\ DisabledInv'
    BY ConfigFacts DEF TypeOK, CapInv, IdleCap, IdleFull, DisabledInv
  <1>6. NoOrphanAttachment'
    BY SMTT(30) DEF TypeOK, NoOrphanAttachment, HeldInv, Owning
  <1> QED BY <1>1, <1>2, <1>3, <1>4, <1>5, <1>6

LEMMA StartTxOkInv ==
  ASSUME PoolInv, NEW t \in Threads, StartTxOk(t), UNCHANGED config
  PROVE  PoolInv'
  <1> USE PoolAssumption DEF PoolInv, StartTxOk, Goto, counters, Lock, Unlock, MutexFree, Destroy
  <1>1a. held[t] \in ConnId
    BY HeldFacts DEF Owning
  <1>1. TypeOK'
    BY <1>1a DEF TypeOK, PC
  <1>2. MutexInv'
    BY DEF TypeOK, MutexInv, Critical
  <1>3. HeldInv'
    BY DEF TypeOK, HeldInv, Owning, IdleInv, IsNextId
  <1>4. IdleInv'
    BY SMTT(30), IdleFacts, <1>1a DEF TypeOK, IdleInv, HeldInv, Owning
  <1>5. CapInv' /\ DisabledInv'
    BY ConfigFacts DEF TypeOK, CapInv, IdleCap, IdleFull, DisabledInv
  <1>6. NoOrphanAttachment'
    BY ONLY PoolInv, StartTxOk(t), <1>1a, ChangedByOwner DEF PoolInv, StartTxOk
  <1> QED BY <1>1, <1>2, <1>3, <1>4, <1>5, <1>6

LEMMA StartTxFailsInv ==
  ASSUME PoolInv, NEW t \in Threads, StartTxFails(t), UNCHANGED config
  PROVE  PoolInv'
  <1> USE PoolAssumption DEF PoolInv, StartTxFails, Goto, counters, Lock, Unlock, MutexFree, Destroy
  <1>1a. held[t] \in ConnId
    BY HeldFacts DEF Owning
  <1>1. TypeOK'
    BY <1>1a DEF TypeOK, PC
  <1>2. MutexInv'
    BY DEF TypeOK, MutexInv, Critical
  <1>3. HeldInv'
    BY DEF TypeOK, HeldInv, Owning, IdleInv, IsNextId
  <1>4. IdleInv'
    BY IdleFacts, <1>1a DEF TypeOK, IdleInv, HeldInv, Owning
  <1>5. CapInv' /\ DisabledInv'
    BY ConfigFacts DEF TypeOK, CapInv, IdleCap, IdleFull, DisabledInv
  <1>6. NoOrphanAttachment'
    BY ONLY PoolInv, StartTxFails(t), <1>1a, DestroyedByOwner DEF PoolInv, StartTxFails
  <1> QED BY <1>1, <1>2, <1>3, <1>4, <1>5, <1>6

LEMMA RecordConnectionErrorInv ==
  ASSUME PoolInv, NEW t \in Threads, RecordConnectionError(t), UNCHANGED config
  PROVE  PoolInv'
  <1> USE PoolAssumption DEF PoolInv, RecordConnectionError, Goto, counters, Lock, Unlock, MutexFree, Destroy
  <1>1. TypeOK'
    BY DEF TypeOK, PC
  <1>2. MutexInv'
    BY DEF TypeOK, MutexInv, Critical
  <1>3. HeldInv'
    BY DEF TypeOK, HeldInv, Owning, IdleInv, IsNextId
  <1>4. IdleInv'
    BY IdleFacts DEF TypeOK, IdleInv, HeldInv, Owning
  <1>5. CapInv' /\ DisabledInv'
    BY ConfigFacts DEF TypeOK, CapInv, IdleCap, IdleFull, DisabledInv
  <1>6. NoOrphanAttachment'
    BY DEF TypeOK, NoOrphanAttachment, HeldInv, Owning
  <1> QED BY <1>1, <1>2, <1>3, <1>4, <1>5, <1>6

LEMMA ReleaseToPoolInv ==
  ASSUME PoolInv, NEW t \in Threads, ReleaseToPool(t), UNCHANGED config
  PROVE  PoolInv'
  <1> USE PoolAssumption DEF PoolInv, ReleaseToPool, Goto, counters, Lock, Unlock, MutexFree, Destroy
  <1>1. TypeOK'
    BY DEF TypeOK, PC
  <1>2. MutexInv'
    BY DEF TypeOK, MutexInv, Critical
  <1>3. HeldInv'
    BY DEF TypeOK, HeldInv, Owning, IdleInv, IsNextId
  <1>4. IdleInv'
    BY IdleFacts DEF TypeOK, IdleInv, HeldInv, Owning
  <1>5. CapInv' /\ DisabledInv'
    BY ConfigFacts DEF TypeOK, CapInv, IdleCap, IdleFull, DisabledInv
  <1>6. NoOrphanAttachment'
    BY DEF TypeOK, NoOrphanAttachment, HeldInv, Owning
  <1> QED BY <1>1, <1>2, <1>3, <1>4, <1>5, <1>6

LEMMA ReleaseDisabledInv ==
  ASSUME PoolInv, NEW t \in Threads, ReleaseDisabled(t), UNCHANGED config
  PROVE  PoolInv'
  <1> USE PoolAssumption DEF PoolInv, ReleaseDisabled, Goto, counters, Lock, Unlock, MutexFree, Destroy
  <1>1a. held[t] \in ConnId
    BY HeldFacts DEF Owning
  <1>1. TypeOK'
    BY <1>1a DEF TypeOK, PC
  <1>2. MutexInv'
    BY DEF TypeOK, MutexInv, Critical
  <1>3. HeldInv'
    BY DEF TypeOK, HeldInv, Owning, IdleInv, IsNextId
  <1>4. IdleInv'
    BY IdleFacts, <1>1a DEF TypeOK, IdleInv, HeldInv, Owning
  <1>5. CapInv' /\ DisabledInv'
    BY ConfigFacts DEF TypeOK, CapInv, IdleCap, IdleFull, DisabledInv
  <1>6. NoOrphanAttachment'
    BY ONLY PoolInv, ReleaseDisabled(t), <1>1a, DestroyedByOwner DEF PoolInv, ReleaseDisabled
  <1> QED BY <1>1, <1>2, <1>3, <1>4, <1>5, <1>6

LEMMA ReleaseLockInv ==
  ASSUME PoolInv, NEW t \in Threads, ReleaseLock(t), UNCHANGED config
  PROVE  PoolInv'
  <1> USE PoolAssumption DEF PoolInv, ReleaseLock, Goto, counters, Lock, Unlock, MutexFree, Destroy
  <1>1. TypeOK'
    BY DEF TypeOK, PC
  <1>2. MutexInv'
    BY DEF TypeOK, MutexInv, Critical
  <1>3. HeldInv'
    BY DEF TypeOK, HeldInv, Owning, IdleInv, IsNextId
  <1>4. IdleInv'
    BY IdleFacts DEF TypeOK, IdleInv, HeldInv, Owning
  <1>5. CapInv' /\ DisabledInv'
    BY ConfigFacts DEF TypeOK, CapInv, IdleCap, IdleFull, DisabledInv
  <1>6. NoOrphanAttachment'
    BY DEF TypeOK, NoOrphanAttachment, HeldInv, Owning
  <1> QED BY <1>1, <1>2, <1>3, <1>4, <1>5, <1>6

LEMMA DiscardSurplusInv ==
  ASSUME PoolInv, NEW t \in Threads, DiscardSurplus(t), UNCHANGED config
  PROVE  PoolInv'
  <1> USE PoolAssumption DEF PoolInv, DiscardSurplus, Goto, counters, Lock, Unlock, MutexFree, Destroy
  <1>1a. held[t] \in ConnId
    BY HeldFacts DEF Owning
  <1>1. TypeOK'
    BY <1>1a DEF TypeOK, PC
  <1>2. MutexInv'
    BY DEF TypeOK, MutexInv, Critical
  <1>3. HeldInv'
    BY DEF TypeOK, HeldInv, Owning, IdleInv, IsNextId
  <1>4. IdleInv'
    BY IdleFacts, <1>1a DEF TypeOK, IdleInv, HeldInv, Owning
  <1>5. CapInv' /\ DisabledInv'
    BY ConfigFacts DEF TypeOK, CapInv, IdleCap, IdleFull, DisabledInv
  <1>6. NoOrphanAttachment'
    BY ONLY PoolInv, DiscardSurplus(t), <1>1a, DestroyedByOwner DEF PoolInv, DiscardSurplus
  <1> QED BY <1>1, <1>2, <1>3, <1>4, <1>5, <1>6

LEMMA HasRoomInv ==
  ASSUME PoolInv, NEW t \in Threads, HasRoom(t), UNCHANGED config
  PROVE  PoolInv'
  <1> USE PoolAssumption DEF PoolInv, HasRoom, Goto, counters, Lock, Unlock, MutexFree, Destroy
  <1>1. TypeOK'
    BY DEF TypeOK, PC
  <1>2. MutexInv'
    BY DEF TypeOK, MutexInv, Critical
  <1>3. HeldInv'
    BY DEF TypeOK, HeldInv, Owning, IdleInv, IsNextId
  <1>4. IdleInv'
    BY SMTT(30), IdleFacts DEF TypeOK, IdleInv, HeldInv, Owning
  <1>5. CapInv' /\ DisabledInv'
    BY ConfigFacts DEF TypeOK, CapInv, IdleCap, IdleFull, DisabledInv
  <1>6. NoOrphanAttachment'
    BY DEF TypeOK, NoOrphanAttachment, HeldInv, Owning
  <1> QED BY <1>1, <1>2, <1>3, <1>4, <1>5, <1>6

LEMMA LoadThrowsInv ==
  ASSUME PoolInv, NEW t \in Threads, LoadThrows(t), UNCHANGED config
  PROVE  PoolInv'
  <1> USE PoolAssumption DEF PoolInv, LoadThrows, Goto, counters, Lock, Unlock, MutexFree, Destroy
  <1>1a. held[t] \in ConnId
    BY HeldFacts DEF Owning
  <1>1. TypeOK'
    BY <1>1a DEF TypeOK, PC
  <1>2. MutexInv'
    BY DEF TypeOK, MutexInv, Critical
  <1>3. HeldInv'
    BY DEF TypeOK, HeldInv, Owning, IdleInv, IsNextId
  <1>4. IdleInv'
    BY IdleFacts, <1>1a DEF TypeOK, IdleInv, HeldInv, Owning
  <1>5. CapInv' /\ DisabledInv'
    BY ConfigFacts DEF TypeOK, CapInv, IdleCap, IdleFull, DisabledInv
  <1>6. NoOrphanAttachment'
    BY ONLY PoolInv, LoadThrows(t), <1>1a, DestroyedByOwner DEF PoolInv, LoadThrows
  <1> QED BY <1>1, <1>2, <1>3, <1>4, <1>5, <1>6

LEMMA DrainExpiredInv ==
  ASSUME PoolInv, NEW t \in Threads, DrainExpired(t), UNCHANGED config
  PROVE  PoolInv'
  <1> USE PoolAssumption DEF PoolInv, Goto
  <1> PICK n \in 0..Len(idle) :
        /\ ExpiredPrefix(n)
        /\ conn' = [c \in ConnId |-> IF \E i \in 1..n : idle[i].conn = c
                                     THEN "closed" ELSE conn[c]]
        /\ idle' = SubSeq(idle, n + 1, Len(idle))
        /\ discarded' = discarded + n
    BY DEF DrainExpired
  <1> USE IdleFacts
  <1>a. pc[t] = "drain" /\ pc' = [pc EXCEPT ![t] = "take"]
        /\ UNCHANGED <<lock, held, clock, created, reused, active, lost, last_error>>
    BY DEF DrainExpired
  <1>b. /\ idle' \in Seq(IdleEntry)
        /\ Len(idle') = Len(idle) - n
        /\ \A i \in 1..Len(idle') : idle'[i] = idle[n + i]
    <2>1. idle \in Seq(IdleEntry) /\ n + 1 \in 1..(Len(idle) + 1)
          /\ Len(idle) \in ((n + 1) - 1)..Len(idle)
      BY DEF TypeOK
    <2> QED BY <2>1, SubSeqProperties
  \* Every entry is complete: no other thread is between move and pop_back.
  <1>c. \A u \in Threads : pc[u] # "pop"
    BY <1>a DEF MutexInv, Critical, TypeOK
  <1>d. \A i \in 1..Len(idle) : idle[i].conn \in ConnId
    BY <1>c DEF IdleInv, TypeOK
  \* The connections kept are not among those destroyed.
  <1>e. \A i \in 1..Len(idle') : conn'[idle'[i].conn] = conn[idle[n + i].conn]
    <2> TAKE i \in 1..Len(idle')
    <2>1. n + i \in 1..Len(idle)
      BY <1>b
    <2>2. \A j \in 1..n : idle[j].conn # idle[n + i].conn
      BY <2>1 DEF IdleInv
    <2> QED BY <1>b, <1>d, <2>1, <2>2
  <1>1. TypeOK'
    BY <1>a, <1>b DEF TypeOK, PC
  <1>2. MutexInv'
    BY <1>a DEF TypeOK, MutexInv, Critical
  <1>3. HeldInv'
    <2>1. \A u \in Threads : held[u] \in ConnId => conn'[held[u]] = conn[held[u]]
      BY <1>d DEF IdleInv
    <2>2. \A u \in Threads : held[u] # NoConn => held[u] \in ConnId
      BY DEF TypeOK
    <2>3. \A u \in Threads : pc'[u] = IF u = t THEN "take" ELSE pc[u]
      BY <1>a DEF TypeOK
    <2>4. HeldInv /\ held' = held /\ pc[t] = "drain"
      BY <1>a
    <2>5. \A u \in Threads : held[u] # NoConn => conn'[held[u]] = conn[held[u]]
      BY <2>1, <2>2
    <2>6. held[t] = NoConn
      BY <2>4 DEF HeldInv, Owning
    <2> QED BY ONLY <2>3, <2>4, <2>5, <2>6 DEF HeldInv, Owning
  <1>4. IdleInv'
    <2>1. \A i \in 1..Len(idle') : n + i \in 1..Len(idle) /\ idle'[i] = idle[n + i]
      BY <1>b
    <2>2. \A i, j \in 1..Len(idle') : j < i => n + j < n + i
      BY <1>b
    <2>3. \A u \in Threads : pc'[u] # "pop"
      BY <1>a, <1>c DEF TypeOK
    <2>a. \A k \in 1..Len(idle) :
            /\ conn[idle[k].conn] = "open" /\ idle[k].released_at <= clock
            /\ \A u \in Threads : held[u] # idle[k].conn
      BY <1>d, PoolAssumption DEF IdleInv, PoolAssumption
    <2>b. \A k, l \in 1..Len(idle) : l < k =>
            idle[l].conn # idle[k].conn /\ idle[l].released_at <= idle[k].released_at
      BY DEF IdleInv
    <2>4. ASSUME NEW i \in 1..Len(idle')
          PROVE  /\ conn'[idle'[i].conn] = "open"
                 /\ \A u \in Threads : held'[u] # idle'[i].conn
                 /\ idle'[i].conn \in ConnId
                 /\ idle'[i].released_at <= clock'
      <3>1. n + i \in 1..Len(idle) /\ idle'[i] = idle[n + i]
        BY <2>1
      <3>2. conn'[idle'[i].conn] = "open"
        BY <1>e, <2>a, <3>1
      <3>3. /\ \A u \in Threads : held'[u] # idle'[i].conn
            /\ idle'[i].conn \in ConnId
            /\ idle'[i].released_at <= clock'
        BY <1>a, <1>d, <2>a, <3>1
      <3> QED BY <3>2, <3>3
    <2>5. ASSUME NEW i \in 1..Len(idle'), NEW j \in 1..Len(idle'), j < i
          PROVE  /\ idle'[j].conn # idle'[i].conn
                 /\ idle'[j].released_at <= idle'[i].released_at
      <3>1. n + i \in 1..Len(idle) /\ n + j \in 1..Len(idle) /\ n + j < n + i
        BY <2>1, <2>2, <2>5
      <3> QED BY ONLY <2>1, <2>b, <3>1
    <2> QED BY <2>3, <2>4, <2>5 DEF IdleInv, PoolAssumption
  <1>5. CapInv' /\ DisabledInv'
    BY ConfigFacts, <1>a, <1>b DEF TypeOK, CapInv, IdleCap, IdleFull, DisabledInv, MutexInv, Critical
  <1>6. NoOrphanAttachment'
    <2> SUFFICES ASSUME NEW c \in ConnId, conn'[c] \in {"attached", "open"},
                        \A u \in Threads : held'[u] # c
                 PROVE  \E i \in 1..Len(idle') : idle'[i].conn = c
      BY DEF NoOrphanAttachment
    <2>1. conn[c] = conn'[c] /\ ~ \E i \in 1..n : idle[i].conn = c
      OBVIOUS
    <2>2. PICK k \in 1..Len(idle) : idle[k].conn = c
      BY <1>a, <2>1 DEF NoOrphanAttachment
    <2>3. k - n \in 1..Len(idle') /\ idle'[k - n] = idle[k]
      BY SMTT(30), <1>b, <2>1, <2>2
    <2> QED BY <2>2, <2>3
  <1> QED BY <1>1, <1>2, <1>3, <1>4, <1>5, <1>6

LEMMA TakeBackInv ==
  ASSUME PoolInv, NEW t \in Threads, TakeBack(t), UNCHANGED config
  PROVE  PoolInv'
  <1> USE PoolAssumption DEF PoolInv, TakeBack, Goto, counters
  <1> USE IdleFacts
  <1> DEFINE last == Len(idle)
  <1>a. last \in 1..Len(idle) /\ last > 0
    <2>1. idle \in Seq(IdleEntry) /\ idle # <<>>
      BY DEF TypeOK
    <2> QED BY <2>1, EmptySeq
  <1>b. \A u \in Threads : pc[u] # "pop"
    BY DEF MutexInv, Critical, TypeOK
  <1>c. \A i \in 1..Len(idle) : idle[i].conn \in ConnId
    BY <1>b DEF IdleInv, TypeOK
  <1>d. /\ idle' \in Seq(IdleEntry)
        /\ Len(idle') = Len(idle)
        /\ \A i \in 1..Len(idle) : i # last => idle'[i] = idle[i]
        /\ idle'[last] = [idle[last] EXCEPT !.conn = NoConn]
    <2>1. [idle[last] EXCEPT !.conn = NoConn] \in IdleEntry
      BY <1>a DEF IdleEntry
    <2>2. idle \in Seq(IdleEntry)
      BY DEF TypeOK
    <2>3. idle' = [idle EXCEPT ![last] = [idle[last] EXCEPT !.conn = NoConn]]
      OBVIOUS
    <2> QED BY ONLY <1>a, <2>1, <2>2, <2>3, ExceptSeq
  <1>e. idle'[last].conn = NoConn /\ idle'[last].released_at = idle[last].released_at
    BY <1>a, <1>d DEF IdleEntry
  <1>f. pc' = [pc EXCEPT ![t] = "pop"] /\ held' = [held EXCEPT ![t] = idle[last].conn]
        /\ pc[t] = "take" /\ held[t] = NoConn
    BY DEF HeldInv, Owning
  <1>1. TypeOK'
    BY <1>a, <1>c, <1>d, <1>f DEF TypeOK, PC
  <1>2. MutexInv'
    BY <1>f DEF TypeOK, MutexInv, Critical
  <1>3. HeldInv'
    BY <1>a, <1>c, <1>f DEF TypeOK, HeldInv, Owning, IdleInv
  <1>4. IdleInv'
    <2>1. \A i \in 1..Len(idle') :
            /\ idle'[i].released_at = idle[i].released_at
            /\ i # last => idle'[i].conn = idle[i].conn
            /\ i = last => idle'[i].conn = NoConn
      BY <1>d, <1>e
    <2>2. \A i \in 1..Len(idle) : i # last => idle[i].conn # idle[last].conn
      <3>1. \A i \in 1..Len(idle) : i # last => i < last
        OBVIOUS
      <3> QED BY <1>a, <3>1 DEF IdleInv
    <2>3. \A u \in Threads : held'[u] = IF u = t THEN idle[last].conn ELSE held[u]
      BY <1>f DEF TypeOK
    <2>4. pc'[t] = "pop" /\ \A u \in Threads : pc'[u] = "pop" => u = t
      BY <1>b, <1>f DEF TypeOK
    <2> QED BY <1>a, <1>c, <1>d, <2>1, <2>2, <2>3, <2>4 DEF IdleInv
  <1>5. CapInv' /\ DisabledInv'
    BY ConfigFacts, <1>a, <1>d, <1>f DEF TypeOK, CapInv, IdleCap, IdleFull, DisabledInv
  <1>6. NoOrphanAttachment'
    <2>1. held'[t] = idle[last].conn /\ \A u \in Threads : held[u] # NoConn => held'[u] = held[u]
      BY <1>f DEF TypeOK
    <2>2. \A i \in 1..Len(idle') : i # last => idle'[i].conn = idle[i].conn
      BY <1>d
    <2>3. conn' = conn /\ NoConn \notin ConnId /\ Len(idle') = Len(idle) /\ NoOrphanAttachment
      BY <1>d, PoolAssumption DEF PoolAssumption
    <2> QED BY ONLY <2>1, <2>2, <2>3 DEF NoOrphanAttachment
  <1> QED BY <1>1, <1>2, <1>3, <1>4, <1>5, <1>6

LEMMA PopBackInv ==
  ASSUME PoolInv, NEW t \in Threads, PopBack(t), UNCHANGED config
  PROVE  PoolInv'
  <1> USE PoolAssumption DEF PoolInv, PopBack, Goto, Unlock
  <1> USE IdleFacts
  <1>a. Len(idle) > 0 /\ idle[Len(idle)].conn = NoConn
    BY DEF IdleInv
  <1>b. /\ idle' \in Seq(IdleEntry)
        /\ Len(idle') = Len(idle) - 1
        /\ \A i \in 1..Len(idle') : i \in 1..Len(idle) /\ idle'[i] = idle[i]
    <2> DEFINE last == Len(idle) - 1
    <2>1. last \in Nat /\ \A i \in 1..last : i \in 1..Len(idle) /\ idle[i] \in IdleEntry
      BY <1>a
    <2>2. idle' = SubSeq(idle, 1, last)
      OBVIOUS
    <2>3. /\ idle' \in Seq(IdleEntry)
          /\ Len(idle') = IF 1 <= last THEN last - 1 + 1 ELSE 0
          /\ \A i \in 1..(last - 1 + 1) : idle'[i] = idle[1 + i - 1]
      BY <2>1, <2>2, SubSeqProperties
    <2> HIDE DEF last
    <2>4. Len(idle') = last
      BY ONLY <2>1, <2>3
    <2>5. \A i \in 1..last : idle'[i] = idle[i]
      <3> TAKE i \in 1..last
      <3>1. i \in 1..(last - 1 + 1) /\ 1 + i - 1 = i
        BY ONLY <2>1
      <3> QED BY ONLY <2>3, <3>1
    <2> QED BY <2>1, <2>3, <2>4, <2>5 DEF last
  <1>c. pc' = [pc EXCEPT ![t] = "leased"] /\ pc[t] = "pop"
        /\ UNCHANGED <<conn, held, clock>>
    OBVIOUS
  <1>d. \A u \in Threads : pc'[u] # "pop"
    BY <1>c DEF TypeOK, MutexInv, Critical
  <1>1. TypeOK'
    BY <1>b, <1>c DEF TypeOK, PC
  <1>2. MutexInv'
    BY <1>c DEF TypeOK, MutexInv, Critical
  <1>3. HeldInv'
    BY <1>c DEF TypeOK, HeldInv, Owning
  <1>4. IdleInv'
    BY <1>b, <1>c, <1>d DEF IdleInv
  <1>5. CapInv' /\ DisabledInv'
    BY ConfigFacts, <1>b, <1>c DEF TypeOK, CapInv, IdleCap, IdleFull, DisabledInv
  <1>6. NoOrphanAttachment'
    <2> SUFFICES ASSUME NEW c \in ConnId, conn[c] \in {"attached", "open"},
                        \A u \in Threads : held[u] # c
                 PROVE  \E i \in 1..Len(idle') : idle'[i].conn = c
      BY <1>c DEF NoOrphanAttachment
    <2>1. PICK k \in 1..Len(idle) : idle[k].conn = c
      BY DEF NoOrphanAttachment
    <2>2. k # Len(idle)
      BY <1>a, <2>1
    <2>3. k \in 1..Len(idle') /\ Len(idle) \in Nat
      BY <1>b, <2>1, <2>2, IdleFacts
    <2>4. idle'[k] = idle[k]
      BY ONLY <1>b, <2>3
    <2> QED BY ONLY <2>1, <2>3, <2>4
  <1> QED BY <1>1, <1>2, <1>3, <1>4, <1>5, <1>6

LEMMA ParkInv ==
  ASSUME PoolInv, NEW t \in Threads, Park(t), UNCHANGED config
  PROVE  PoolInv'
  <1> USE PoolAssumption DEF PoolInv, Park, Goto, Unlock, counters
  <1> USE IdleFacts
  <1> DEFINE e == [conn |-> held[t], released_at |-> clock]
  <1>a. held[t] \in ConnId /\ conn[held[t]] = "open"
    BY HeldFacts DEF Owning, HeldInv
  <1>b. /\ idle' \in Seq(IdleEntry)
        /\ Len(idle') = Len(idle) + 1
        /\ \A i \in 1..Len(idle) : idle'[i] = idle[i]
        /\ idle'[Len(idle) + 1] = e
    <2>1. e \in IdleEntry
      BY <1>a DEF IdleEntry, TypeOK
    <2>2. idle \in Seq(IdleEntry) /\ idle' = Append(idle, e)
      BY DEF TypeOK
    <2> QED BY ONLY <2>1, <2>2, AppendProperties
  <1>c. pc' = [pc EXCEPT ![t] = "out"] /\ pc[t] = "park"
        /\ held' = [held EXCEPT ![t] = NoConn] /\ UNCHANGED <<conn, clock>>
    OBVIOUS
  <1>d. \A u \in Threads : pc[u] # "pop" /\ pc'[u] # "pop"
    BY <1>c DEF TypeOK, MutexInv, Critical
  <1>1. TypeOK'
    BY <1>b, <1>c DEF TypeOK, PC
  <1>2. MutexInv'
    BY <1>c DEF TypeOK, MutexInv, Critical
  <1>3. HeldInv'
    BY <1>c DEF TypeOK, HeldInv, Owning
  <1>4. IdleInv'
    <2>1. \A i \in 1..Len(idle) : idle[i].conn # held[t] /\ idle[i].conn \in ConnId
          /\ idle[i].released_at <= clock
      BY <1>a, <1>d DEF IdleInv
    <2>2. \A u \in Threads : held'[u] # held[t] /\ (held'[u] = held[u] \/ held'[u] = NoConn)
      BY <1>a, <1>c DEF TypeOK, HeldInv
    <2>3. \A i \in 1..Len(idle') : i \in 1..Len(idle) \/ i = Len(idle) + 1
      BY <1>b
    <2>4. clock \in Nat /\ e.conn = held[t] /\ e.released_at = clock
      BY DEF TypeOK
    <2> QED BY <1>a, <1>b, <1>c, <1>d, <2>1, <2>2, <2>3, <2>4 DEF IdleInv
  <1>5. CapInv' /\ DisabledInv'
    <2>1. MaxSize \in Nat /\ MaxSize' = MaxSize /\ Enabled' = Enabled
      BY ConfigFacts
    <2>2. ~IdleFull /\ Enabled
      BY <1>c DEF CapInv, DisabledInv
    <2>3. \A u \in Threads : pc'[u] # "park"
      BY <1>c DEF TypeOK, MutexInv, Critical
    <2> QED BY ONLY <1>b, <2>1, <2>2, <2>3, IdleFacts, TypeOK DEF CapInv, IdleCap, IdleFull, DisabledInv
  <1>6. NoOrphanAttachment'
    <2>1. Len(idle) + 1 \in 1..Len(idle') /\ idle'[Len(idle) + 1].conn = held[t]
      BY <1>b
    <2>2. \A u \in Threads : held[u] = held[t] \/ held'[u] = held[u]
      BY <1>c DEF TypeOK
    <2>3. \A i \in 1..Len(idle) : i \in 1..Len(idle') /\ idle'[i] = idle[i]
      BY <1>b
    <2>4. conn' = conn /\ NoOrphanAttachment
      BY <1>c
    <2> QED BY ONLY <2>1, <2>2, <2>3, <2>4 DEF NoOrphanAttachment
  <1> QED BY <1>1, <1>2, <1>3, <1>4, <1>5, <1>6

LEMMA AttachOkInv ==
  ASSUME PoolInv, NEW t \in Threads, NEW c \in ConnId, AttachOk(t, c), UNCHANGED config
  PROVE  PoolInv'
  <1> USE PoolAssumption DEF PoolInv, AttachOk, Goto, counters
  <1>a. conn[c] = "unborn" /\ held[t] = NoConn
    BY DEF IsNextId, HeldInv, Owning
  <1>1. TypeOK'
    BY DEF TypeOK, PC
  <1>2. MutexInv'
    BY DEF TypeOK, MutexInv, Critical
  <1>3. HeldInv'
    BY <1>a DEF TypeOK, HeldInv, Owning
  <1>4. IdleInv'
    BY SMTT(30), <1>a, IdleFacts DEF TypeOK, IdleInv, HeldInv, Owning
  <1>5. CapInv' /\ DisabledInv'
    BY ConfigFacts DEF TypeOK, CapInv, IdleCap, IdleFull, DisabledInv
  <1>6. NoOrphanAttachment'
    <2>1. conn' = [conn EXCEPT ![c] = "attached"] /\ held' = [held EXCEPT ![t] = c]
      OBVIOUS
    <2>2. held'[t] = c /\ \A u \in Threads : held[u] # NoConn => held'[u] = held[u]
      BY <1>a, <2>1 DEF TypeOK
    <2>3. \A d \in ConnId : d # c => conn'[d] = conn[d]
      BY <2>1 DEF TypeOK
    <2> QED BY <2>2, <2>3 DEF NoOrphanAttachment, PoolAssumption
  <1> QED BY <1>1, <1>2, <1>3, <1>4, <1>5, <1>6

LEMMA TickInv ==
  ASSUME PoolInv, Tick, UNCHANGED config
  PROVE  PoolInv'
  <1> USE PoolAssumption DEF PoolInv, Tick, counters
  <1>1. TypeOK'
    BY DEF TypeOK, PoolAssumption
  <1>2. MutexInv' /\ HeldInv' /\ CapInv' /\ DisabledInv' /\ NoOrphanAttachment'
    BY ConfigFacts DEF MutexInv, HeldInv, CapInv, IdleCap, IdleFull, DisabledInv, NoOrphanAttachment
  <1>3. IdleInv'
    BY IdleFacts DEF IdleInv, TypeOK
  <1> QED BY <1>1, <1>2, <1>3

-----------------------------------------------------------------------------

LEMMA NextPoolInv == PoolInv /\ [Next]_vars => PoolInv'
  <1> SUFFICES ASSUME PoolInv, [Next]_vars PROVE PoolInv'
    OBVIOUS
  <1>1. CASE UNCHANGED vars
    BY <1>1, ConfigFacts DEF PoolInv, vars, counters, TypeOK, MutexInv, HeldInv, IdleInv, CapInv,
      IdleCap, IdleFull, DisabledInv, NoOrphanAttachment
  <1>1a. CASE Next
   <2>c. UNCHANGED config
     BY <1>1a DEF Next
   <2>2. CASE Tick
    BY <2>2, <2>c, TickInv
   <2>3. ASSUME NEW t \in Threads, InCall(t) PROVE PoolInv'
    BY <2>3, <2>c, DrainExpiredInv, TakeBackInv, PopBackInv, MissIdleInv, AttachOkInv,
       AttachFailsInv, StartTxOkInv, StartTxFailsInv, RecordConnectionErrorInv,
       ReleaseLockInv, DiscardSurplusInv, HasRoomInv, ParkInv DEF InCall
   <2>4. ASSUME NEW t \in Threads, Call(t) PROVE PoolInv'
    BY <2>4, <2>c, AcquireDisabledInv, AcquireLockInv, ReleaseToPoolInv, ReleaseDisabledInv,
       LoadThrowsInv DEF Call
   <2> QED BY <1>1a, <2>2, <2>3, <2>4 DEF Next
  <1> QED BY <1>1, <1>1a

\* The inductive invariant holds in every reachable state of the pool: mutex
\* discipline, ownership, the shape of idle_, the cap and the disabled mode.
THEOREM PoolInvariant == Spec => []PoolInv
  BY InitPoolInv, NextPoolInv, PTL DEF Spec

\* Every variable keeps its type, for any number of threads and connections.
THEOREM TypeCorrect == Spec => []TypeOK
  <1>1. PoolInv => TypeOK
    BY DEF PoolInv
  <1> QED BY <1>1, PoolInvariant, PTL

\* No connection is ever leased to two threads, or leased while it is parked,
\* or leased after it was destroyed.
THEOREM LeasesAreExclusive == Spec => []ExclusiveLease
  <1>1. PoolInv => ExclusiveLease
    BY IdleFacts, HeldFacts DEF PoolInv, ExclusiveLease, Owners, HeldInv, IdleInv, TypeOK
  <1> QED BY <1>1, PoolInvariant, PTL

\* Every attachment the server holds for the pool has an owner that will
\* detach it, whatever step of a construction or a return fails.
THEOREM NoAttachmentLeaks == Spec => []NoOrphanAttachment
  <1>1. PoolInv => NoOrphanAttachment
    BY DEF PoolInv
  <1> QED BY <1>1, PoolInvariant, PTL

\* max_size is never exceeded, however many threads return at once.
THEOREM IdleIsCapped == Spec => []IdleCap
  <1>1. PoolInv => IdleCap
    BY DEF PoolInv, CapInv
  <1> QED BY <1>1, PoolInvariant, PTL

\* A disabled pool parks nothing.
THEOREM DisabledParksNothing == Spec => []DisabledNeverParks
  <1>1. PoolInv => DisabledNeverParks
    BY DEF PoolInv, DisabledInv, DisabledNeverParks
  <1> QED BY <1>1, PoolInvariant, PTL

-----------------------------------------------------------------------------
(* Draining only the front of the queue is enough because it is sorted.    *)

LEMMA DrainExpiredKeepsFresh ==
  ASSUME PoolInv, NEW t \in Threads, DrainExpired(t), UNCHANGED config
  PROVE  \A i \in 1..Len(idle') : ~Expired(idle'[i])
  <1> USE IdleFacts DEF PoolInv
  <1> PICK n \in 0..Len(idle) : ExpiredPrefix(n) /\ idle' = SubSeq(idle, n + 1, Len(idle))
    BY DEF DrainExpired
  <1>1. /\ Len(idle') = Len(idle) - n
        /\ \A i \in 1..Len(idle') : idle'[i] = idle[n + i]
    <2>1. idle \in Seq(IdleEntry) /\ n + 1 \in 1..(Len(idle) + 1)
          /\ Len(idle) \in ((n + 1) - 1)..Len(idle)
      BY DEF TypeOK
    <2> QED BY <2>1, SubSeqProperties
  <1> TAKE i \in 1..Len(idle')
  <1>2. n + 1 \in 1..Len(idle) /\ n + i \in 1..Len(idle) /\ n < Len(idle)
        /\ n + 1 <= n + i
    BY <1>1
  <1>3. ~Expired(idle[n + 1])
    BY <1>2 DEF ExpiredPrefix
  <1>4. idle[n + 1].released_at <= idle[n + i].released_at
    <2>1. CASE i = 1
      BY <2>1, <1>2
    <2>2. CASE i # 1
      <3>1. n + 1 < n + i
        BY <2>2, <1>2
      <3> QED BY <3>1, <1>2 DEF IdleInv
    <2> QED BY <2>1, <2>2
  <1>5. clock \in Nat /\ IdleTimeout \in Nat
    BY ConfigFacts DEF TypeOK
  <1>6. clock' = clock /\ IdleTimeout' = IdleTimeout
    BY ConfigFacts DEF DrainExpired
  <1> DEFINE a == idle[n + 1].released_at
             b == idle[n + i].released_at
  <1>7. a \in Nat /\ b \in Nat
    BY <1>2
  <1>8. ~(IdleTimeout > 0 /\ clock - b > IdleTimeout)
    <2>1. ~(IdleTimeout > 0 /\ clock - a > IdleTimeout)
      BY <1>3 DEF Expired
    <2>2. a <= b
      BY <1>4
    <2> HIDE DEF a, b
    <2> QED BY ONLY <1>5, <1>7, <2>1, <2>2
  <1>9. idle'[i] = idle[n + i]
    BY ONLY <1>1
  <1> QED BY ONLY <1>6, <1>8, <1>9 DEF Expired

\* AcquireWithInfo never hands out a connection that had expired when the
\* drain ran: none is left in the queue after it.
THEOREM DrainsAreComplete == Spec => DrainIsComplete
  <1>1. ASSUME PoolInv, Next, NEW t \in Threads, pc[t] = "drain", pc'[t] # "drain"
        PROVE  DrainExpired(t)
    <2>1. CASE Tick
      BY <1>1, <2>1 DEF Tick
    <2>2. ASSUME NEW u \in Threads, InCall(u) \/ Call(u) PROVE DrainExpired(t)
      <3>1. u = t
        BY <1>1, <2>2 DEF InCall, Call, PoolInv, TypeOK, Goto, DrainExpired, TakeBack,
          PopBack, MissIdle, AttachOk, AttachFails, StartTxOk, StartTxFails,
          RecordConnectionError, ReleaseLock, DiscardSurplus, HasRoom, Park,
          AcquireDisabled, AcquireLock, ReleaseToPool, ReleaseDisabled, LoadThrows
      <3> QED
        BY <1>1, <2>2, <3>1 DEF InCall, Call, Goto, TakeBack,
          PopBack, MissIdle, AttachOk, AttachFails, StartTxOk, StartTxFails,
          RecordConnectionError, ReleaseLock, DiscardSurplus, HasRoom, Park,
          AcquireDisabled, AcquireLock, ReleaseToPool, ReleaseDisabled, LoadThrows
    <2> QED BY <1>1, <2>1, <2>2 DEF Next
  <1>2. PoolInv /\ [Next]_vars => [DrainKeepsFresh]_vars
    BY <1>1, DrainExpiredKeepsFresh DEF DrainKeepsFresh, Next
  <1> QED BY <1>2, PoolInvariant, PTL DEF Spec, DrainIsComplete

-----------------------------------------------------------------------------
(* The pool implements ConnectionLeases.                                   *)

LEMMA LeaseFacts ==
  ASSUME PoolInv
  PROVE  /\ \A c \in ConnId : Leases!Leased(c) <=>
              \E t \in Threads : pc[t] = "leased" /\ held[t] = c
         /\ \A t \in Threads : pc[t] = "leased" =>
              held[t] \in ConnId /\ conn[held[t]] = "open"
         /\ \A t, u \in Threads : held[t] # NoConn /\ held[t] = held[u] => t = u
  <1> USE PoolAssumption DEF PoolInv, PoolAssumption
  <1>1. \A t \in Threads : pc[t] = "leased" => held[t] \in ConnId /\ conn[held[t]] = "open"
    BY HeldFacts DEF HeldInv, Owning
  <1>2. \A c \in ConnId : Leases!Leased(c) <=>
          \E t \in Threads : pc[t] = "leased" /\ held[t] = c
    BY DEF Leases!Leased, LeaseOf
  <1> QED BY <1>1, <1>2 DEF HeldInv

\* Connections no thread has leased are closed: an expiry, a surplus return,
\* a failed construction.
LEMMA CloseStep ==
  ASSUME PoolInv, NEW C \in SUBSET ConnId, LeaseOf' = LeaseOf,
         \A c \in C : ~Leases!Leased(c),
         conn' = [c \in ConnId |-> IF c \in C THEN "closed" ELSE conn[c]]
  PROVE  Leases!Next
  <1>1. LifeOf' = [c \in ConnId |-> IF c \in C THEN "closed" ELSE LifeOf[c]]
    BY DEF LifeOf
  <1> QED BY <1>1 DEF Leases!Next, Leases!Close

\* A lease ends, its connection stays open or is closed.
LEMMA ReturnStep ==
  ASSUME PoolInv, NEW t \in Threads, pc[t] = "leased",
         LeaseOf' = [LeaseOf EXCEPT ![t] = NoConn],
         conn' \in {conn, [conn EXCEPT ![held[t]] = "closed"]}
  PROVE  Leases!Next
  <1>1. LeaseOf[t] = held[t] /\ held[t] \in ConnId
    BY LeaseFacts DEF LeaseOf
  <1>2. held[t] # NoConn
    BY <1>1, PoolAssumption DEF PoolAssumption
  <1>3. LifeOf' \in {LifeOf, [LifeOf EXCEPT ![held[t]] = "closed"]}
    BY <1>1 DEF LifeOf, PoolInv, TypeOK
  <1> QED BY <1>1, <1>2, <1>3 DEF Leases!Next, Leases!Return

\* The steps that change neither a lease nor the life of a connection.
LEMMA StutterStep ==
  ASSUME UNCHANGED conn, LeaseOf' = LeaseOf
  PROVE  UNCHANGED Leases!vars
  BY DEF Leases!vars, LifeOf

LEMMA InCallImplements ==
  ASSUME PoolInv, NEW t \in Threads, InCall(t)
  PROVE  [Leases!Next]_(Leases!vars)
  <1> USE PoolAssumption DEF Goto
  <1>0. pc \in [Threads -> PC] /\ held \in [Threads -> ConnId \cup {NoConn}]
        /\ conn \in [ConnId -> {"unborn", "attached", "open", "closed"}]
    BY DEF PoolInv, TypeOK
  <1>1. CASE DrainExpired(t)
    <2> PICK n \in 0..Len(idle) :
          conn' = [c \in ConnId |-> IF \E i \in 1..n : idle[i].conn = c
                                    THEN "closed" ELSE conn[c]]
      BY <1>1 DEF DrainExpired
    <2> DEFINE C == {c \in ConnId : \E i \in 1..n : idle[i].conn = c}
    <2>1. LeaseOf' = LeaseOf
      BY <1>0, <1>1 DEF LeaseOf, DrainExpired
    <2>2. conn' = [c \in ConnId |-> IF c \in C THEN "closed" ELSE conn[c]]
      OBVIOUS
    <2>3. n <= Len(idle) /\ \A i \in 1..n : i \in 1..Len(idle)
      BY IdleFacts DEF PoolInv
    <2>4. \A c \in C : \A u \in Threads : held[u] # c
      BY <2>3, IdleFacts DEF PoolInv, IdleInv, PoolAssumption
    <2>5. \A c \in C : ~Leases!Leased(c)
      BY <2>4, LeaseFacts
    <2> HIDE DEF C
    <2>6. C \in SUBSET ConnId
      BY DEF C
    <2> QED BY <2>1, <2>2, <2>5, <2>6, CloseStep
  <1>2. CASE TakeBack(t) \/ MissIdle(t) \/ ReleaseLock(t) \/ HasRoom(t) \/ Park(t)
             \/ RecordConnectionError(t)
    <2>1. LeaseOf' = LeaseOf /\ UNCHANGED conn
      BY <1>0, <1>2 DEF LeaseOf, TakeBack, MissIdle, ReleaseLock, HasRoom, Park,
        RecordConnectionError, counters
    <2> QED BY <2>1, StutterStep
  <1>3. CASE PopBack(t)
    <2>1. held[t] \in ConnId /\ conn[held[t]] = "open" /\ pc[t] = "pop"
      BY <1>3, HeldFacts DEF PopBack, Owning, PoolInv, HeldInv
    <2>2. LeaseOf[t] = NoConn /\ LeaseOf' = [LeaseOf EXCEPT ![t] = held[t]]
      BY <1>0, <1>3 DEF LeaseOf, PopBack
    <2>3. ~Leases!Leased(held[t])
      BY <2>1, LeaseFacts, PoolAssumption DEF PoolAssumption
    <2>4. LifeOf[held[t]] = "open" /\ LifeOf' = LifeOf
      BY <1>3, <2>1 DEF LifeOf, PopBack
    <2> QED BY <2>1, <2>2, <2>3, <2>4 DEF Leases!Next, Leases!Reuse
  <1>4. CASE \E c \in ConnId : AttachOk(t, c)
    <2> PICK c \in ConnId : AttachOk(t, c)
      BY <1>4
    <2>1. LeaseOf' = LeaseOf
      BY <1>0 DEF LeaseOf, AttachOk
    <2>2. LifeOf' = LifeOf
      BY <1>0 DEF LifeOf, AttachOk, IsNextId
    <2> QED BY <2>1, <2>2 DEF Leases!vars
  <1>5. CASE AttachFails(t)
    <2>1. LeaseOf' = LeaseOf
      BY <1>0, <1>5 DEF LeaseOf, AttachFails
    <2>2. CASE UNCHANGED conn
      BY <2>1, <2>2, StutterStep
    <2>3. CASE \E c \in ConnId : IsNextId(c) /\ Destroy(c)
      <3> PICK c \in ConnId : IsNextId(c) /\ Destroy(c)
        BY <2>3
      <3> DEFINE C == {c}
      <3>1. conn' = [d \in ConnId |-> IF d \in C THEN "closed" ELSE conn[d]]
        BY <1>0 DEF Destroy
      <3>2. C \in SUBSET ConnId /\ \A d \in C : ~Leases!Leased(d)
        BY LeaseFacts DEF IsNextId
      <3> HIDE DEF C
      <3> QED BY <2>1, <3>1, <3>2, CloseStep
    <2> QED BY <1>5, <2>2, <2>3 DEF AttachFails
  <1>6. CASE StartTxOk(t)
    <2>1. held[t] \in ConnId /\ conn[held[t]] = "attached"
      BY <1>6, HeldFacts DEF StartTxOk, PoolInv, HeldInv
    <2>2. LeaseOf[t] = NoConn /\ LeaseOf' = [LeaseOf EXCEPT ![t] = held[t]]
      BY <1>0, <1>6 DEF LeaseOf, StartTxOk
    <2>3. LifeOf[held[t]] = "unborn" /\ LifeOf' = [LifeOf EXCEPT ![held[t]] = "open"]
      BY <1>0, <1>6, <2>1 DEF LifeOf, StartTxOk
    <2> QED BY <2>1, <2>2, <2>3 DEF Leases!Next, Leases!Open
  <1>7. CASE StartTxFails(t) \/ DiscardSurplus(t)
    <2>1. held[t] \in ConnId /\ pc[t] # "leased" /\ pc' [t] # "leased"
      BY <1>0, <1>7, HeldFacts DEF StartTxFails, DiscardSurplus, PoolInv, Owning
    <2>2. LeaseOf' = LeaseOf
      BY <1>0, <1>7 DEF LeaseOf, StartTxFails, DiscardSurplus
    <2> DEFINE C == {held[t]}
    <2>3. conn' = [c \in ConnId |-> IF c \in C THEN "closed" ELSE conn[c]]
      BY <1>0, <1>7 DEF StartTxFails, DiscardSurplus, Destroy
    <2>4. C \in SUBSET ConnId /\ \A c \in C : ~Leases!Leased(c)
      BY <2>1, LeaseFacts, PoolAssumption DEF PoolAssumption
    <2> HIDE DEF C
    <2> QED BY <2>1, <2>2, <2>3, <2>4, CloseStep
  <1> QED BY <1>1, <1>2, <1>3, <1>4, <1>5, <1>6, <1>7 DEF InCall

LEMMA CallImplements ==
  ASSUME PoolInv, NEW t \in Threads, Call(t)
  PROVE  [Leases!Next]_(Leases!vars)
  <1> USE PoolAssumption DEF Goto
  <1>0. pc \in [Threads -> PC] /\ held \in [Threads -> ConnId \cup {NoConn}]
        /\ conn \in [ConnId -> {"unborn", "attached", "open", "closed"}]
    BY DEF PoolInv, TypeOK
  <1>1. CASE AcquireDisabled(t) \/ AcquireLock(t)
    <2>1. LeaseOf' = LeaseOf /\ UNCHANGED conn
      BY <1>0, <1>1 DEF LeaseOf, AcquireDisabled, AcquireLock
    <2> QED BY <2>1, StutterStep
  <1>2. CASE ReleaseToPool(t) \/ ReleaseDisabled(t) \/ LoadThrows(t)
    <2>1. pc[t] = "leased"
      BY <1>2 DEF ReleaseToPool, ReleaseDisabled, LoadThrows
    <2>2. LeaseOf' = [LeaseOf EXCEPT ![t] = NoConn]
      BY <1>0, <1>2 DEF LeaseOf, ReleaseToPool, ReleaseDisabled, LoadThrows
    <2>3. conn' \in {conn, [conn EXCEPT ![held[t]] = "closed"]}
      BY <1>2 DEF ReleaseToPool, ReleaseDisabled, LoadThrows, Destroy
    <2> QED BY <2>1, <2>2, <2>3, ReturnStep
  <1> QED BY <1>1, <1>2 DEF Call

\* The pool, with its mutex, its caps, its expiry and its failures, implements
\* the lease service its callers rely on.
THEOREM PoolImplementsLeases == Spec => ImplementsLeases
  <1>1. Init => Leases!Init
    BY DEF Init, Leases!Init, LeaseOf, LifeOf
  <1>2. PoolInv /\ [Next]_vars => [Leases!Next]_(Leases!vars)
    <2> SUFFICES ASSUME PoolInv, [Next]_vars PROVE [Leases!Next]_(Leases!vars)
      OBVIOUS
    <2>1. CASE UNCHANGED vars \/ Tick
      <3>1. LeaseOf' = LeaseOf /\ UNCHANGED conn
        BY <2>1 DEF LeaseOf, Tick, vars, counters
      <3> QED BY <3>1, StutterStep
    <2> QED BY <2>1, InCallImplements, CallImplements DEF Next
  <1> QED BY <1>1, <1>2, PoolInvariant, PTL DEF Spec, ImplementsLeases, Leases!Spec

-----------------------------------------------------------------------------
(* The counters of a pool add up.  They are relaxed atomics, each updated   *)
(* at its own place and most of them outside lock_, so no critical section  *)
(* keeps the sum.                                                           *)

\* How many threads are at one of the places S when p is where they are.
Count(p, S) == Cardinality({t \in Threads : p[t] \in S})

\* The places where a thread owns a connection that idle_ has no entry for.
Holding == {"leased", "returning", "check_cap", "park"}

\* CountersAddUp without the sets of idle_: between TakeBack and PopBack the
\* connection is counted by the entry it has left.
Accounts ==
  /\ created = Len(idle) + Count(pc, Holding) + discarded + lost
  /\ active = Count(pc, {"leased"}) + lost

LEMMA CountType == \A p, S : Count(p, S) \in Nat
<1> TAKE p, S
<1>1. IsFiniteSet({t \in Threads : p[t] \in S})
  BY FiniteThreads, FS_Subset
<1> QED BY <1>1, FS_CardinalityType DEF Count

\* One thread goes from its place to another.
LEMMA CountMoves ==
  ASSUME TypeOK, NEW t \in Threads, NEW from, NEW to \in PC, Goto(t, from, to), NEW S
  PROVE  Count(pc', S) = Count(pc, S) - (IF from \in S THEN 1 ELSE 0) + (IF to \in S THEN 1 ELSE 0)
<1> DEFINE rest == {u \in Threads \ {t} : pc[u] \in S}
<1>0. pc \in [Threads -> PC] /\ pc[t] = from /\ pc' = [pc EXCEPT ![t] = to]
  BY DEF TypeOK, Goto
<1>1. IsFiniteSet(rest) /\ t \notin rest
  BY FiniteThreads, FS_Subset
<1>2. Cardinality(rest) \in Nat /\ Cardinality(rest \cup {t}) = Cardinality(rest) + 1
  BY <1>1, FS_CardinalityType, FS_AddElement
<1>3. {u \in Threads : pc[u] \in S} = IF from \in S THEN rest \cup {t} ELSE rest
  BY <1>0
<1>4. {u \in Threads : pc'[u] \in S} = IF to \in S THEN rest \cup {t} ELSE rest
  BY <1>0
<1>5. /\ Count(pc, S) = Cardinality({u \in Threads : pc[u] \in S})
      /\ Count(pc', S) = Cardinality({u \in Threads : pc'[u] \in S})
  BY DEF Count
<1> HIDE DEF rest
<1>6. Count(pc, S) = Cardinality(rest) + (IF from \in S THEN 1 ELSE 0)
  <2>1. CASE from \in S
    BY <1>2, <1>3, <1>5, <2>1
  <2>2. CASE from \notin S
    <3>1. Count(pc, S) = Cardinality(rest)
      BY <1>3, <1>5, <2>2
    <3> QED BY <1>2, <2>2, <3>1
  <2> QED BY <2>1, <2>2
<1>7. Count(pc', S) = Cardinality(rest) + (IF to \in S THEN 1 ELSE 0)
  <2>1. CASE to \in S
    BY <1>2, <1>4, <1>5, <2>1
  <2>2. CASE to \notin S
    <3>1. Count(pc', S) = Cardinality(rest)
      BY <1>4, <1>5, <2>2
    <3> QED BY <1>2, <2>2, <3>1
  <2> QED BY <2>1, <2>2
<1> QED BY <1>2, <1>6, <1>7

LEMMA InitAccounts == Init => Accounts
<1> SUFFICES ASSUME Init PROVE Accounts
  OBVIOUS
<1>1. {t \in Threads : pc[t] \in Holding} = {} /\ {t \in Threads : pc[t] \in {"leased"}} = {}
  BY DEF Init, Holding
<1>2. Count(pc, Holding) = 0 /\ Count(pc, {"leased"}) = 0
  BY <1>1, FS_EmptySet DEF Count
<1>3. created = 0 /\ active = 0 /\ discarded = 0 /\ lost = 0 /\ Len(idle) = 0
  BY DEF Init
<1> QED BY <1>2, <1>3 DEF Accounts

\* A thread moves; idle_ and the counters balance what it takes along.
LEMMA AccountsMove ==
  ASSUME TypeOK, Accounts, NEW t \in Threads, NEW from, NEW to \in PC, Goto(t, from, to),
         created' \in Int, discarded' \in Int, lost' \in Int, active' \in Int, Len(idle') \in Int,
         created' - created =
           Len(idle') - Len(idle) + (discarded' - discarded) + (lost' - lost)
           - (IF from \in Holding THEN 1 ELSE 0) + (IF to \in Holding THEN 1 ELSE 0),
         active' - active =
           lost' - lost - (IF from = "leased" THEN 1 ELSE 0) + (IF to = "leased" THEN 1 ELSE 0)
  PROVE  Accounts'
<1> DEFINE fh == IF from \in Holding THEN 1 ELSE 0   th == IF to \in Holding THEN 1 ELSE 0
           fl == IF from = "leased" THEN 1 ELSE 0    tl == IF to = "leased" THEN 1 ELSE 0
<1>2. \A S : Count(pc', S) = Count(pc, S) - (IF from \in S THEN 1 ELSE 0) + (IF to \in S THEN 1 ELSE 0)
  BY CountMoves
<1>3. Count(pc', Holding) = Count(pc, Holding) - fh + th
  BY <1>2
<1>4. Count(pc', {"leased"}) = Count(pc, {"leased"}) - fl + tl
  <2>1. (from \in {"leased"} <=> from = "leased") /\ (to \in {"leased"} <=> to = "leased")
    OBVIOUS
  <2> QED BY <1>2, <2>1
<1>5. Count(pc, Holding) \in Int /\ Count(pc, {"leased"}) \in Int
  <2>1. Count(pc, Holding) \in Nat /\ Count(pc, {"leased"}) \in Nat
    BY CountType
  <2> QED BY ONLY <2>1
<1>6. created \in Int /\ discarded \in Int /\ lost \in Int /\ active \in Int /\ Len(idle) \in Int
  BY IdleFacts DEF TypeOK
<1>7. fh \in Int /\ th \in Int /\ fl \in Int /\ tl \in Int
  OBVIOUS
<1>8. created' - created = Len(idle') - Len(idle) + (discarded' - discarded) + (lost' - lost) - fh + th
  OBVIOUS
<1>9. active' - active = lost' - lost - fl + tl
  OBVIOUS
<1>10. created = Len(idle) + Count(pc, Holding) + discarded + lost
  BY DEF Accounts
<1>11. active = Count(pc, {"leased"}) + lost
  BY DEF Accounts
<1>12. created' \in Int /\ discarded' \in Int /\ lost' \in Int /\ active' \in Int /\ Len(idle') \in Int
  OBVIOUS
<1> HIDE DEF fh, th, fl, tl
<1>13. created' = Len(idle') + Count(pc', Holding) + discarded' + lost'
  <2>1. PICK r \in Int, r1 \in Int, d \in Int, d1 \in Int, x \in Int, x1 \in Int :
          r = created /\ r1 = created' /\ d = discarded /\ d1 = discarded' /\ x = lost /\ x1 = lost'
    BY ONLY <1>6, <1>12
  <2>2. PICK l \in Int, l1 \in Int, n \in Int, f \in Int, g \in Int :
          l = Len(idle) /\ l1 = Len(idle') /\ n = Count(pc, Holding) /\ f = fh /\ g = th
    BY ONLY <1>5, <1>6, <1>7, <1>12
  <2>3. r1 - r = l1 - l + (d1 - d) + (x1 - x) - f + g
    BY ONLY <1>8, <2>1, <2>2
  <2>4. r = l + n + d + x /\ Count(pc', Holding) = n - f + g
    BY ONLY <1>3, <1>10, <2>1, <2>2
  <2>5. r1 = l1 + Count(pc', Holding) + d1 + x1
    BY ONLY <2>3, <2>4
  <2> QED BY ONLY <2>1, <2>2, <2>5
<1>14. active' = Count(pc', {"leased"}) + lost'
  BY ONLY <1>4, <1>5, <1>6, <1>7, <1>9, <1>11, <1>12
<1> QED BY <1>13, <1>14 DEF Accounts

\* The places where a thread holds a connection, as the steps name them.
LEMMA HoldingPlaces ==
  /\ "leased" \in Holding /\ "returning" \in Holding /\ "check_cap" \in Holding /\ "park" \in Holding
  /\ \A p \in {"out", "drain", "take", "pop", "attach", "start_tx", "record_error"} :
       p \notin Holding /\ p # "leased"
  /\ Holding \subseteq PC
  /\ {"out", "drain", "take", "pop", "attach", "start_tx", "record_error"} \subseteq PC
BY DEF Holding, PC

\* DrainExpired discards what it takes out of idle_.
LEMMA DrainExpiredAccounts ==
  ASSUME TypeOK, Accounts, NEW t \in Threads, DrainExpired(t)
  PROVE  Accounts'
<1>1. PICK n \in 0..Len(idle) : /\ idle' = SubSeq(idle, n + 1, Len(idle))
                                /\ discarded' = discarded + n
  BY DEF DrainExpired
<1>2. Len(idle) \in Nat /\ n \in Nat /\ n <= Len(idle) /\ discarded \in Nat
  BY <1>1, IdleFacts DEF TypeOK
<1>3. Len(idle') = Len(idle) - n
  <2>1. \A i \in (n + 1)..Len(idle) : idle[i] \in IdleEntry
    BY <1>2, IdleFacts
  <2>2. Len(idle') = IF n + 1 <= Len(idle) THEN Len(idle) - (n + 1) + 1 ELSE 0
    BY <1>1, <1>2, <2>1, SubSeqProperties
  <2> QED BY <1>2, <2>2
<1>4. Goto(t, "drain", "take") /\ UNCHANGED <<created, active, lost>>
  BY DEF DrainExpired
<1>5. created \in Nat /\ active \in Int /\ lost \in Nat
  BY DEF TypeOK
<1>6. "drain" \notin Holding /\ "take" \notin Holding /\ "take" \in PC
  BY HoldingPlaces
<1>7. /\ created' - created =
           Len(idle') - Len(idle) + (discarded' - discarded) + (lost' - lost)
           - (IF "drain" \in Holding THEN 1 ELSE 0) + (IF "take" \in Holding THEN 1 ELSE 0)
      /\ active' - active =
           lost' - lost - (IF "drain" = "leased" THEN 1 ELSE 0) + (IF "take" = "leased" THEN 1 ELSE 0)
  BY <1>1, <1>2, <1>3, <1>4, <1>5, <1>6
<1>8. created' \in Int /\ discarded' \in Int /\ lost' \in Int /\ active' \in Int /\ Len(idle') \in Int
  BY <1>1, <1>2, <1>3, <1>4, <1>5
<1> QED BY <1>4, <1>6, <1>7, <1>8, AccountsMove

\* The connection PopBack hands out takes the place of its entry.
LEMMA PopBackAccounts ==
  ASSUME TypeOK, IdleInv, Accounts, NEW t \in Threads, PopBack(t)
  PROVE  Accounts'
<1>1. Len(idle) \in Nat /\ Len(idle) > 0 /\ pc[t] = "pop"
  BY IdleFacts DEF IdleInv, PopBack, Goto
<1>2. Len(idle') = Len(idle) - 1
  <2> DEFINE last == Len(idle) - 1
  <2>1. last \in Nat /\ \A i \in 1..last : idle[i] \in IdleEntry
    BY <1>1, IdleFacts
  <2>2. idle' = SubSeq(idle, 1, last)
    BY DEF PopBack
  <2> HIDE DEF last
  <2>3. Len(idle') = IF 1 <= last THEN last - 1 + 1 ELSE 0
    BY <2>1, <2>2, SubSeqProperties
  <2>4. Len(idle') = last
    BY ONLY <2>1, <2>3
  <2> QED BY <2>4 DEF last
<1>3. /\ Goto(t, "pop", "leased") /\ UNCHANGED <<created, discarded, lost>>
      /\ active' = active + 1
  BY DEF PopBack
<1>4. created \in Nat /\ active \in Int /\ lost \in Nat /\ discarded \in Nat
  BY DEF TypeOK
<1>5. "pop" \notin Holding /\ "leased" \in Holding /\ "leased" \in PC
  BY HoldingPlaces
<1>6. /\ created' - created =
           Len(idle') - Len(idle) + (discarded' - discarded) + (lost' - lost)
           - (IF "pop" \in Holding THEN 1 ELSE 0) + (IF "leased" \in Holding THEN 1 ELSE 0)
      /\ active' - active =
           lost' - lost - (IF "pop" = "leased" THEN 1 ELSE 0) + (IF "leased" = "leased" THEN 1 ELSE 0)
  BY <1>1, <1>2, <1>3, <1>4, <1>5
<1>7. created' \in Int /\ discarded' \in Int /\ lost' \in Int /\ active' \in Int /\ Len(idle') \in Int
  BY <1>1, <1>2, <1>3, <1>4
<1> QED BY <1>3, <1>5, <1>6, <1>7, AccountsMove

\* The entry Park appends takes the place of the thread that returns.
LEMMA ParkAccounts ==
  ASSUME TypeOK, HeldInv, Accounts, NEW t \in Threads, Park(t)
  PROVE  Accounts'
<1> DEFINE e == [conn |-> held[t], released_at |-> clock]
<1>1. Len(idle') = Len(idle) + 1
  <2>1. e \in IdleEntry
    BY HeldFacts DEF IdleEntry, TypeOK, Park, Goto, Owning
  <2>2. idle \in Seq(IdleEntry) /\ idle' = Append(idle, e)
    BY DEF TypeOK, Park
  <2> QED BY ONLY <2>1, <2>2, AppendProperties
<1>2. Goto(t, "park", "out") /\ UNCHANGED counters
  BY DEF Park
<1>3. created \in Nat /\ active \in Int /\ lost \in Nat /\ discarded \in Nat /\ Len(idle) \in Nat
  BY IdleFacts DEF TypeOK
<1>4. "park" \in Holding /\ "out" \notin Holding /\ "out" \in PC
  BY HoldingPlaces
<1> QED BY <1>1, <1>2, <1>3, <1>4, AccountsMove DEF counters

\* TakeBack empties the last entry and leaves it in the queue.
LEMMA TakeBackAccounts ==
  ASSUME TypeOK, Accounts, NEW t \in Threads, TakeBack(t)
  PROVE  Accounts'
<1>1. Len(idle') = Len(idle) /\ Len(idle) \in Nat
  BY IdleFacts DEF TypeOK, TakeBack
<1>2. Goto(t, "take", "pop") /\ UNCHANGED counters
  BY DEF TakeBack
<1>3. created \in Nat /\ active \in Int /\ lost \in Nat /\ discarded \in Nat
  BY DEF TypeOK
<1>4. "take" \notin Holding /\ "pop" \notin Holding /\ "pop" \in PC
  BY HoldingPlaces
<1> QED BY <1>1, <1>2, <1>3, <1>4, AccountsMove DEF counters

\* The steps of a thread that leave idle_ alone.
LEMMA OtherAccounts ==
  ASSUME TypeOK, Accounts, NEW t \in Threads, UNCHANGED idle,
         \/ AcquireDisabled(t) \/ AcquireLock(t) \/ MissIdle(t)
         \/ \E c \in ConnId : AttachOk(t, c)
         \/ AttachFails(t) \/ StartTxOk(t) \/ StartTxFails(t) \/ RecordConnectionError(t)
         \/ ReleaseToPool(t) \/ ReleaseDisabled(t) \/ ReleaseLock(t)
         \/ DiscardSurplus(t) \/ HasRoom(t) \/ LoadThrows(t)
  PROVE  Accounts'
<1>1. created \in Nat /\ active \in Int /\ lost \in Nat /\ discarded \in Nat /\ Len(idle) \in Nat
  BY IdleFacts DEF TypeOK
<1> USE HoldingPlaces
<1>2. CASE \/ AcquireDisabled(t) \/ AcquireLock(t) \/ MissIdle(t)
           \/ \E c \in ConnId : AttachOk(t, c)
           \/ AttachFails(t) \/ StartTxFails(t) \/ RecordConnectionError(t)
  <2>1. PICK from \in PC, to \in PC : /\ Goto(t, from, to) /\ from \notin Holding /\ to \notin Holding
                                      /\ from # "leased" /\ to # "leased"
    BY <1>2 DEF AcquireDisabled, AcquireLock, MissIdle, AttachOk, AttachFails, StartTxFails,
       RecordConnectionError
  <2>2. UNCHANGED <<created, discarded, lost, active>>
    BY <1>2 DEF AcquireDisabled, AcquireLock, MissIdle, AttachOk, AttachFails, StartTxFails,
       RecordConnectionError, counters
  <2> QED BY <1>1, <2>1, <2>2, AccountsMove
<1>3. CASE StartTxOk(t)
  <2>1. /\ Goto(t, "start_tx", "leased") /\ created' = created + 1 /\ active' = active + 1
        /\ UNCHANGED <<discarded, lost>>
    BY <1>3 DEF StartTxOk
  <2> QED BY <1>1, <2>1, AccountsMove
<1>4. CASE ReleaseToPool(t)
  <2>1. /\ Goto(t, "leased", "returning") /\ active' = active - 1
        /\ UNCHANGED <<created, discarded, lost>>
    BY <1>4 DEF ReleaseToPool
  <2> QED BY <1>1, <2>1, AccountsMove
<1>5. CASE ReleaseDisabled(t)
  <2>1. /\ Goto(t, "leased", "out") /\ active' = active - 1 /\ discarded' = discarded + 1
        /\ UNCHANGED <<created, lost>>
    BY <1>5 DEF ReleaseDisabled
  <2> QED BY <1>1, <2>1, AccountsMove
<1>6. CASE ReleaseLock(t) \/ HasRoom(t)
  <2>1. PICK from \in Holding, to \in Holding : /\ Goto(t, from, to)
                                                /\ from # "leased" /\ to # "leased"
    BY <1>6 DEF ReleaseLock, HasRoom
  <2>2. UNCHANGED <<created, discarded, lost, active>> /\ to \in PC
    BY <1>6 DEF ReleaseLock, HasRoom, counters
  <2> QED BY <1>1, <2>1, <2>2, AccountsMove
<1>7. CASE DiscardSurplus(t)
  <2>1. /\ Goto(t, "check_cap", "out") /\ discarded' = discarded + 1
        /\ UNCHANGED <<created, active, lost>>
    BY <1>7 DEF DiscardSurplus
  <2> QED BY <1>1, <2>1, AccountsMove
<1>8. CASE LoadThrows(t)
  <2>1. /\ Goto(t, "leased", "out") /\ lost' = lost + 1
        /\ UNCHANGED <<created, discarded, active>>
    BY <1>8 DEF LoadThrows
  <2> QED BY <1>1, <2>1, AccountsMove
<1> QED BY <1>2, <1>3, <1>4, <1>5, <1>6, <1>7, <1>8

LEMMA NextAccounts == PoolInv /\ Accounts /\ [Next]_vars => Accounts'
<1> SUFFICES ASSUME PoolInv, Accounts, [Next]_vars PROVE Accounts'
  OBVIOUS
<1>0. TypeOK /\ HeldInv /\ IdleInv
  BY DEF PoolInv
<1>1. CASE UNCHANGED vars \/ Tick
  <2>1. UNCHANGED <<idle, pc, created, discarded, lost, active>>
    BY <1>1 DEF vars, counters, Tick
  <2> QED BY <2>1 DEF Accounts
<1>2. ASSUME NEW t \in Threads, InCall(t) \/ Call(t) PROVE Accounts'
  <2>1. CASE DrainExpired(t)
    BY <1>0, <2>1, DrainExpiredAccounts
  <2>2. CASE TakeBack(t)
    BY <1>0, <2>2, TakeBackAccounts
  <2>3. CASE PopBack(t)
    BY <1>0, <2>3, PopBackAccounts
  <2>4. CASE Park(t)
    BY <1>0, <2>4, ParkAccounts
  <2>5. CASE \/ AcquireDisabled(t) \/ AcquireLock(t) \/ MissIdle(t)
             \/ \E c \in ConnId : AttachOk(t, c)
             \/ AttachFails(t) \/ StartTxOk(t) \/ StartTxFails(t) \/ RecordConnectionError(t)
             \/ ReleaseToPool(t) \/ ReleaseDisabled(t) \/ ReleaseLock(t)
             \/ DiscardSurplus(t) \/ HasRoom(t) \/ LoadThrows(t)
    <3>1. UNCHANGED idle
      BY <2>5 DEF AcquireDisabled, AcquireLock, MissIdle, AttachOk, AttachFails, StartTxOk,
         StartTxFails, RecordConnectionError, ReleaseToPool, ReleaseDisabled, ReleaseLock,
         DiscardSurplus, HasRoom, LoadThrows
    <3> QED BY <1>0, <2>5, <3>1, OtherAccounts
  <2> QED BY <1>2, <2>1, <2>2, <2>3, <2>4, <2>5 DEF InCall, Call
<1> QED BY <1>1, <1>2 DEF Next

-----------------------------------------------------------------------------
(* From the accounts to the sets of CountersAddUp.                         *)

\* At most one thread is between TakeBack and PopBack, and only then is the
\* last entry empty.
LEMMA ParkedCount ==
  ASSUME PoolInv
  PROVE  Cardinality({i \in 1..Len(idle) : idle[i].conn # NoConn}) =
           Len(idle) - Count(pc, {"pop"})
<1>0. Len(idle) \in Nat
  BY IdleFacts DEF PoolInv
<1>1. CASE \E t \in Threads : pc[t] = "pop"
  <2>1. PICK t \in Threads : pc[t] = "pop"
    BY <1>1
  <2>2. {u \in Threads : pc[u] \in {"pop"}} = {t}
    BY <2>1, PoolAssumption DEF PoolInv, MutexInv, Critical
  <2>3. Count(pc, {"pop"}) = 1
    BY <2>2, FS_Singleton DEF Count
  <2>4. Len(idle) > 0 /\ idle[Len(idle)].conn = NoConn
    BY <2>1 DEF PoolInv, IdleInv
  <2>5. \A i \in 1..Len(idle) : idle[i].conn # NoConn <=> i # Len(idle)
    BY <2>4 DEF PoolInv, IdleInv
  <2>6. {i \in 1..Len(idle) : idle[i].conn # NoConn} = 1..(Len(idle) - 1)
    BY <1>0, <2>4, <2>5
  <2>7. Cardinality(1..(Len(idle) - 1)) = Len(idle) - 1
    BY <1>0, <2>4, FS_Interval
  <2> QED BY <2>3, <2>6, <2>7
<1>2. CASE ~(\E t \in Threads : pc[t] = "pop")
  <2>1. {u \in Threads : pc[u] \in {"pop"}} = {}
    BY <1>2
  <2>2. Count(pc, {"pop"}) = 0
    BY <2>1, FS_EmptySet DEF Count
  <2>3. {i \in 1..Len(idle) : idle[i].conn # NoConn} = 1..Len(idle)
    BY <1>2 DEF PoolInv, IdleInv
  <2>4. Cardinality(1..Len(idle)) = Len(idle)
    BY SMTT(30), <1>0, FS_Interval
  <2>5. Len(idle) - 0 = Len(idle)
    BY <1>0
  <2> QED BY <2>2, <2>3, <2>4, <2>5
<1> QED BY <1>1, <1>2

\* An owner is about to pop or holds a lease that idle_ does not show.
LEMMA OwnersCount ==
  Cardinality(Owners) = Count(pc, Holding) + Count(pc, {"pop"})
<1> DEFINE A == {t \in Threads : pc[t] \in Holding}
           B == {t \in Threads : pc[t] \in {"pop"}}
<1>1. Owners = A \cup B /\ A \cap B = {}
  BY DEF Owners, Owning, Holding
<1>2. IsFiniteSet(A) /\ IsFiniteSet(B)
  BY FiniteThreads, FS_Subset
<1>3. Cardinality(A) \in Nat /\ Cardinality(B) \in Nat
  BY <1>2, FS_CardinalityType
<1> HIDE DEF A, B
<1>4. Cardinality(A \cup B) = Cardinality(A) + Cardinality(B) - Cardinality(A \cap B)
  BY <1>2, FS_Union
<1>5. Cardinality(A \cap B) = 0
  BY <1>1, FS_EmptySet
<1>6. Cardinality(Owners) = Cardinality(A) + Cardinality(B)
  BY <1>1, <1>3, <1>4, <1>5
<1> QED BY <1>6 DEF A, B, Count

\* Every connection ever created is parked, owned, discarded or lost, and the
\* active counter is the number of leases out plus those an unwound load lost,
\* though each counter changes by itself and most of them outside lock_.
THEOREM CountersAreInBalance == Spec => []CountersAddUp
<1>1. PoolInv /\ Accounts => CountersAddUp
  <2> SUFFICES ASSUME PoolInv, Accounts PROVE CountersAddUp
    OBVIOUS
  <2>1. /\ Count(pc, Holding) \in Nat /\ Count(pc, {"pop"}) \in Nat /\ Len(idle) \in Nat
        /\ discarded \in Nat /\ lost \in Nat
    BY CountType, IdleFacts DEF PoolInv, TypeOK
  <2>2. created = Cardinality({i \in 1..Len(idle) : idle[i].conn # NoConn})
                  + Cardinality(Owners) + discarded + lost
    BY <2>1, ParkedCount, OwnersCount DEF Accounts
  <2>3. {t \in Threads : pc[t] \in {"leased"}} = {t \in Threads : pc[t] = "leased"}
    OBVIOUS
  <2>4. active = Cardinality({t \in Threads : pc[t] = "leased"}) + lost
    BY <2>3 DEF Accounts, Count
  <2> QED BY <2>2, <2>4 DEF CountersAddUp
<1> QED BY <1>1, InitAccounts, NextAccounts, PoolInvariant, PTL DEF Spec
=============================================================================
