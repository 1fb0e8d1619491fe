SPECIFICATION Spec
CONSTANTS
  LastKey = 3
  Levels = 3
  Ranges <- AllKeys
  MaxSeq = 4
  MaxSnapshots = 0
INVARIANT NoOverlapInLevels
CHECK_DEADLOCK FALSE
