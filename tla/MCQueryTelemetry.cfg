\* Every sequence of calls on the last-query slot and the ring buffer while
\* the log setting changes under it (off, one, two entries) and a
\* reader takes up to two rows, one per chunk.
SPECIFICATION ReadersSpec
CONSTANTS
  Captures = {q1, q2}
  NoCapture = NoCapture
  Errors = {e1}
  NoError = NoError
  LogSizes <- MCLogSizes
  MaxCount = 1
  MaxClock = 1
  STANDARD_VECTOR_SIZE = 1
INVARIANTS NewestIsLast ReadsOneMoment
PROPERTIES OlderEntriesFrozen
SYMMETRY CaptureSymmetry
CHECK_DEADLOCK FALSE
