SPECIFICATION Spec
CONSTANTS
  LastKey = 3
  Levels = 3
  Ranges <- MCRanges
  MaxSeq = 3
  MaxSnapshots = 1
  BlockSize = 4
  HeaderSize = 2
  Lengths = {0, 1, 5}
  MaxRecords = 3
  MaxFaults = 2
  LastListKey = 3
  MaxHeight = 2
  Clients = {c1, c2, c3}
  CachedTables = {1, 2}
  Capacities = {0, 1, 2}
  MaxCached = 5
  LastIterKey = 2
  Entries = 3
  Inserts = 1
  IterTables = 1
  TableUserKeys <- MCUserKeys
  MaxByte = 3
  RestartInterval = 2
  FilterBase = 2
  MaxKeys = 4
INVARIANTS TypeOK ReadsFindTheNewest LevelsStaySorted LogIsReplayed CacheIsSound IteratorShowsSnapshot TableIsItsKeys
PROPERTY ListFindsInserted
CHECK_DEADLOCK FALSE
