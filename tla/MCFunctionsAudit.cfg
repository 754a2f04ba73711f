\* The numeric columns alone matter here; the other inputs are few or none.
SPECIFICATION Spec
CONSTANTS
  IntMax = 15
  MinRows = 2
  CastOverflow = 15
  Overrides = {0}
  Cores = {2}
  ReadBytes = {65}
  MaxLength = 1
  Bits <- ScaledBits
  Digits <- ScaledDigits
  SqlScales <- SomeScales
  DayNumbers <- SomeDays
  Micros <- SomeMicros
  CodePoints <- SomeCodePoints
  ByteStrings <- ShortStrings
  Symbols <- TwoSymbols
  Candidates <- TwoCandidates
  Loads = {}
  Upper <- ThreeNames
  STANDARD_VECTOR_SIZE = 2
  GAP_THRESHOLD = 2
  ShortBits = 5
  HwConcurrency = 4
  Reports = {}
  Databases = {}
  Servers = {}
  Generators = {}
  Views = {}
  Settings = {}
INVARIANT NarrowNumericsFit
CHECK_DEADLOCK FALSE
