SPECIFICATION Spec
CONSTANTS
  LastKey = 2
  Levels = 4
  Ranges = {}
  MaxSeq = 4
  MaxSnapshots = 1
INVARIANT EntriesNeverHop
CHECK_DEADLOCK FALSE
