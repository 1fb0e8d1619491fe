CONSTANTS
  ann = ann
  bob = bob
  nobody = nobody
  c1 = c1
  Users = {ann, bob}
  Cells = {c1}
  TableRows = {1, 2}
  Deltas = {0, 2}
  MaxPictures = 1
  MaxBinds = 3
  MaxAsks = 2
  MaxStops = 1
  MaxPicks = 2
  MaxUploadAsks = 2
  MaxDepth = 8
  p = p
  Posts = {p}
  MaxImages = 2
  MaxEdits = 3
  other = other
  PostIds = {p, other}
  MaxComments = 2
  MaxOpens = 3
  CommentIds = {c1}
  Batches <- MCBatches
SPECIFICATION Spec
INVARIANTS TypeOK CellIsOwn PictureExists LockedForAReason ScreensAreOwn
  LikesHavePost NoDuplicateLike
PROPERTIES FirstPictureNeverLands AnswersAreKept Settles
  NeverBackwards OwnCommentsArrive
  WatermarkAfterRows RowsLeaveOnlyByTombstone
CHECK_DEADLOCK FALSE
