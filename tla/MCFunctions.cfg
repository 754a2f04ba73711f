\* A 5-bit int: ranges below, at and above IntMax, cut by hand and
\* automatically, where an overflowing cast saturates (AArch64); the scan is
\* checked where it yields INT64_MIN.  Byte strings over NUL, ASCII, "\",
\* continuation bytes at the edges of what each lead byte allows (90, 9F, A0,
\* BF) and the lead bytes C1, C2, E0, ED, F0, F4.
SPECIFICATION Spec
CONSTANTS
  IntMax = 15
  MinRows = 2
  CastOverflow = 15
  Overrides = {0, 1, 2, 3, 4, 7, 15}
  Cores = {0, 2, 8}
  ReadBytes = {0, 65, 92, 128, 143, 144, 159, 160, 193, 194, 224, 237, 240, 244}
  MaxLength = 4
  Bits <- ScaledBits
  Digits <- ScaledDigits
  SqlScales <- SomeScales
  DayNumbers <- SomeDays
  Micros <- SomeMicros
  CodePoints <- SomeCodePoints
  ByteStrings <- ShortStrings
  Symbols <- TwoSymbols
  Candidates <- TwoCandidates
  Loads <- TwoCalls
  Upper <- ThreeNames
  STANDARD_VECTOR_SIZE = 2
  GAP_THRESHOLD = 2
  ShortBits = 5
  HwConcurrency = 4
  Reports <- SomeReports
  Databases <- SomeDatabases
  Servers <- SomeServers
  Generators <- SomeGenerators
  Views <- SomeViews
  Settings <- SomeSettings
INVARIANTS KeyRangesTile EqualityIsLossless TextIsValid ViewFlagsExact ValuesWhole SettingsArrive ReportsTellTheTruth DiscoveryAgrees LibraryIsWhole
CHECK_DEADLOCK FALSE
