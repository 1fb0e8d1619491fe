CONSTANTS
  a = a
  b = b
  NoPost = NoPost
  PostIds = {a, b}
  MaxComments = 3
  MaxOpens = 3
SPECIFICATION Spec
INVARIANT ShownBelongsToPost
CHECK_DEADLOCK FALSE
