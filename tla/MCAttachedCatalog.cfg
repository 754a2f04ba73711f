\* Every initial set of relations; two calls of either thread, one failed
\* metadata query and one change by another client, anywhere.
SPECIFICATION FairSpec
CONSTANTS
  t1 = t1
  t2 = t2
  emp = emp
  quoted_emp = quoted_emp
  view = view
  clash = clash
  NoThread = NoThread
  AllTables = AllTables
  Threads <- MCThreads
  Names <- MCNames
  Upper <- MCUpper
  Views = {view}
  NoneText = {view}
  Clashing = {clash}
  Keyed = {emp}
  BlobEncoding = TRUE
  MaxFaults = 1
  MaxChanges = 1
  MaxCalls = 2
INVARIANTS CompleteOrSkipped RetriesStartClean ScansAgree
PROPERTIES PublishedFrozen CallsReturn
CHECK_DEADLOCK FALSE
