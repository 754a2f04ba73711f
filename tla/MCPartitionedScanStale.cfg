\* Two queries on an attached table, and a row inserted in between.
SPECIFICATION Spec
CONSTANTS
  Workers = {w1, w2}
  Binds <- PlainBinds
  Env <- GrowingEnv
  HwConcurrency = 3
  VectorSize = 1
  NoWork = NoWork
  NoError = NoError
  IntMax = 15
  MinRows = 1
  CastOverflow <- Int64Min
INVARIANTS SeesLiveData
CHECK_DEADLOCK FALSE
