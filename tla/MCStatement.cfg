\* Two statements on one lease and any two failures of library calls.
SPECIFICATION FairSpec
CONSTANTS
  Results <- MCResults
  Buffer = 2
  Width = 3
  MaxStatements = 2
  MaxFaults = 2
INVARIANTS BlobWhole BytesCounted HandlesAccounted
PROPERTY ReadBlobEnds
CHECK_DEADLOCK FALSE
