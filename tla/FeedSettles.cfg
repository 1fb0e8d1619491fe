CONSTANTS
  mine = mine
  other = other
  PostIds = {mine, other}
  Mine = {mine}
  Deltas = {0, 2}
  MaxWrites = 3
  MaxStops = 1
  MaxDrops = 1
SPECIFICATION FairSpec
PROPERTIES Converges ListsCatchUp
CHECK_DEADLOCK FALSE
