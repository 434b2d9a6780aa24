SPECIFICATION Spec
CONSTANTS
  Word = 256
  MaxLen = 6
  MaxThreads = 6
  Launches <- MCLaunches
INVARIANTS
  OneWriter
  WithinArrays
  AllWritten
CHECK_DEADLOCK FALSE
