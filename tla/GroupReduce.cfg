SPECIFICATION GSpec
CONSTANTS
  MaxRuns = 3
  MaxRows = 4
  Queries <- GroupQueries
  SpaceOf <- GroupSpace
  AnswerOf <- GroupAnswer
INVARIANTS
  GroupsExact
  EachRowOnce
  NoStrayRow
PROPERTIES
  Ends
CHECK_DEADLOCK FALSE
