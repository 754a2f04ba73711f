\* Queries of one and two filters, every none_encoding, with and without
\* none_pushdown, for both planner APIs.
SPECIFICATION Spec
CONSTANTS
  Queries <- AllQueries
  Constants <- AllConstants
  Cells <- AllCells
  Number <- AllNumber
  Null = Null
INVARIANTS ParamsMatch NoneNeverUtf8 RowsExact
CHECK_DEADLOCK FALSE
