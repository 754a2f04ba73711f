\* A filter DuckDB relies on the scan for that no translator knows.
SPECIFICATION Spec
CONSTANTS
  Queries <- TimeTzQueries
  Constants <- AllConstants
  Cells <- AllCells
  Number <- AllNumber
  Null = Null
INVARIANT ResidualReapplied
CHECK_DEADLOCK FALSE
