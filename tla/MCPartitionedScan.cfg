\* Two workers run each kind of statement, with errors, inserts and aborts.
SPECIFICATION FairSpec
CONSTANTS
  Workers = {w1, w2}
  Binds <- AllBinds
  Env <- AllEnv
  HwConcurrency = 3
  VectorSize = 2
  NoWork = NoWork
  NoError = NoError
  IntMax = 15
  MinRows = 1
  CastOverflow <- Int64Min
INVARIANTS PartitionsExclusive CursorOnOwnConnection BytesConserved LogAddsUp OneReport ErrorModeFails
PROPERTIES ImplementsTableScan QueryEnds ConnectionsReturn
CHECK_DEADLOCK FALSE
