CONSTANTS
  mine = mine
  other = other
  PostIds = {mine, other}
  Mine = {mine}
  Deltas = {0, 1, 2}
  MaxWrites = 3
  MaxStops = 1
  MaxDrops = 1
SPECIFICATION Spec
INVARIANTS TypeOK NoResurrection NothingBelowWatermarkMissed CaughtUpStoreIsFresh
PROPERTIES IsReplica
CHECK_DEADLOCK FALSE
