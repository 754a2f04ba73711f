\* A pattern with a backslash before a wildcard.
SPECIFICATION Spec
CONSTANTS
  Queries <- BackslashQueries
  Constants <- AllConstants
  Cells <- AllCells
  Number <- AllNumber
  Null = Null
INVARIANT BackslashIsLiteral
CHECK_DEADLOCK FALSE
