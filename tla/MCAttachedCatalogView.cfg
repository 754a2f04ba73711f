\* One relation, a view over a NONE column, under none_encoding 'blob'.
SPECIFICATION Spec
CONSTANTS
  t1 = t1
  t2 = t2
  emp = emp
  quoted_emp = quoted_emp
  view = view
  clash = clash
  NoThread = NoThread
  AllTables = AllTables
  Threads = {t1}
  Names <- OneView
  Upper <- OneUpper
  Views = {view}
  NoneText = {view}
  Clashing = {}
  Keyed = {}
  BlobEncoding = TRUE
  MaxFaults = 1
  MaxChanges = 1
  MaxCalls = 1
INVARIANT NoneTextIsBlob
CHECK_DEADLOCK FALSE
