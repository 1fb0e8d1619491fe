CONSTANTS
  p = p
  q = q
  d1 = d1
  d2 = d2
  NoPost = NoPost
  Posts = {p, q}
  Devices = {d1, d2}
  MaxImages = 3
  MaxEdits = 3
  MaxStops = 1
  MaxDrops = 1
SPECIFICATION Spec
INVARIANTS PostsAreSound LockedWhileUploading
SYMMETRY Symmetry
CHECK_DEADLOCK FALSE
