CONSTANTS
  p1 = p1
  p2 = p2
  PostIds = {p1, p2}
  Deltas = {1}
  Skews <- AnySkew
  MaxWrites = 2
  MaxTaps = 2
  MaxStops = 1
  MaxDrops = 1
SPECIFICATION MCSpec
INVARIANTS MissedOnlyByEstimate OwnLikeIsTrue
PROPERTIES SteadyButtonSettles
CHECK_DEADLOCK FALSE
