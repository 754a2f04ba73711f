\* Two scan workers and a catalog load over one pool, in each configuration.
SPECIFICATION FairSpec
CONSTANTS
  t1 = t1  t2 = t2  t3 = t3
  Threads = {t1, t2, t3}
  Loaders = {t3}
  NoThread = NoThread
  NoConn = NoConn
  MaxConns = 3
  MaxReused = 1
  MaxTime = 2
  Configs <- AllConfigs
INVARIANTS ExclusiveLease NoOrphanAttachment IdleCap CountersAddUp
PROPERTIES ImplementsLeases DrainIsComplete MutexReleased
CHECK_DEADLOCK FALSE
