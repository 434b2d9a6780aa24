SPECIFICATION Spec
CONSTANTS
  Capacity = 40
  NCols = 2
  Lengths = {1, 7, 16, 17, 40}
  Bytemaps <- MCBytemaps
  Junk <- MCJunk
INVARIANTS
  Faithful
  WithinBitmap
CHECK_DEADLOCK FALSE
