SPECIFICATION Spec
CONSTANTS
  Names = {"foo", "join"}
  Ops = {1, 2}
  MaxCompiles = 3
  MaxTables = 2
  MaxIndexes = 2
INVARIANTS
  TypeOK
  CodeForQuery
  TablesFit
  TablesStand
  NothingForgotten
PROPERTIES
  FreedOnce
  ResultsKept
CHECK_DEADLOCK FALSE
