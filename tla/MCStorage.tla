------------------------------ MODULE MCStorage ------------------------------
(* Parts of LevelDB that run by themselves here, explored in one run: a    *)
(* behaviour is one of the levels (LevelCompaction), of a log or MANIFEST  *)
(* (LogFormat), of a memtable's list (SkipList), of the cache of tables    *)
(* (TableCache), of an iterator of the database (DBIterator) or of a table *)
(* file (Table), with the variables of the other five at rest.             *)
EXTENDS Integers, Sequences

CONSTANTS
  LastKey, Levels, Ranges, MaxSeq, MaxSnapshots,
  BlockSize, HeaderSize, Lengths, MaxRecords, MaxFaults,
  LastListKey, MaxHeight,
  Clients, CachedTables, Capacities, MaxCached,
  LastIterKey, Entries, Inserts, IterTables,
  TableUserKeys, MaxByte, RestartInterval, FilterBase, MaxKeys

VARIABLES
  part,
  mem, levels, next, lastSeq, snapshots, job, manual, history, divided, squeezed,
  log, blockOffset, written, faults, torn, damaged, reader, read,
  links, heights, maxHeight, insert, cursor,
  capacity, cache, client,
  children, deletions, sequence, merged, dbIter, shown,
  keys, table, tableIter, place

inLevels == <<mem, levels, next, lastSeq, snapshots, job, manual, history, divided, squeezed>>
inLog    == <<log, blockOffset, written, faults, torn, damaged, reader, read>>
inList   == <<links, heights, maxHeight, insert, cursor>>
inCache  == <<capacity, cache, client>>
inIter   == <<children, deletions, sequence, merged, dbIter, shown>>
inTable  == <<keys, table, tableIter, place>>
vars     == <<part, inLevels, inLog, inList, inCache, inIter, inTable>>

(* TableUserKeys of the run: keys with a common prefix, one that separates *)
(* its neighbours, and one of nothing but the last byte.                   *)
MCUserKeys == {<<0>>, <<0, MaxByte>>, <<1>>, <<MaxByte>>}

(* Ranges of the run: all keys, and one that its files may reach beyond.   *)
MCRanges == {<<1, LastKey>>, <<1, 1>>}

InLevels == INSTANCE LevelCompaction
InLog    == INSTANCE LogFormat
InList   == INSTANCE SkipList WITH LastKey <- LastListKey
InCache  == INSTANCE TableCache WITH Tables <- CachedTables, MaxEntries <- MaxCached
InIter   == INSTANCE DBIterator
            WITH LastKey <- LastIterKey, Tables <- IterTables,
                 iter <- dbIter, goal <- shown
InTable  == INSTANCE Table
            WITH UserKeys <- TableUserKeys, MaxEntries <- MaxKeys,
                 iter <- tableIter, goal <- place

ASSUME StorageAssumption ==
  /\ InLevels!LevelsAssumption
  /\ InLog!LogFormatAssumption
  /\ InList!SkipListAssumption
  /\ InCache!TableCacheAssumption
  /\ InIter!DBIteratorAssumption
  /\ InTable!TableAssumption

(* Each part is only looked at in its own behaviours: at rest it stays as  *)
(* it began.                                                               *)
TypeOK ==
  /\ part = "levels"   => InLevels!TypeOK
  /\ part = "log"      => InLog!TypeOK
  /\ part = "list"     => InList!TypeOK
  /\ part = "cache"    => InCache!TypeOK
  /\ part = "iterator" => InIter!TypeOK
  /\ part = "table"    => InTable!TypeOK
ReadsFindTheNewest == part = "levels" => InLevels!ReadsFindTheNewest
LevelsStaySorted   == part = "levels" => InLevels!LevelsStaySorted
LogIsReplayed      == part = "log" => InLog!LogIsReplayed
ListFindsInserted  == InList!ListFindsInserted
CacheIsSound       == part = "cache" => InCache!CacheIsSound
IteratorShowsSnapshot == part = "iterator" => InIter!IteratorShowsSnapshot
TableIsItsKeys     == part = "table" => InTable!TableIsItsKeys

Init ==
  /\ part \in {"levels", "log", "list", "cache", "iterator", "table"}
  /\ InLevels!Init /\ InLog!Init /\ InList!Init /\ InTable!Init
  /\ InCache!Init /\ (part # "cache" => capacity = 0)
  /\ InIter!Init
  /\ part # "iterator" => /\ children[0] = {InIter!InternalKey(1, s) : s \in 1 .. Entries}
                          /\ deletions = {} /\ sequence = Entries

Next ==
  /\ UNCHANGED part
  /\ \/ /\ part = "levels" /\ InLevels!Next
        /\ UNCHANGED <<inLog, inList, inCache, inIter, inTable>>
     \/ /\ part = "log" /\ InLog!Next
        /\ UNCHANGED <<inLevels, inList, inCache, inIter, inTable>>
     \/ /\ part = "list" /\ InList!Next
        /\ UNCHANGED <<inLevels, inLog, inCache, inIter, inTable>>
     \/ /\ part = "cache" /\ InCache!Next
        /\ UNCHANGED <<inLevels, inLog, inList, inIter, inTable>>
     \/ /\ part = "iterator" /\ InIter!Next
        /\ UNCHANGED <<inLevels, inLog, inList, inCache, inTable>>
     \/ /\ part = "table" /\ InTable!Next
        /\ UNCHANGED <<inLevels, inLog, inList, inCache, inIter>>

Spec == Init /\ [][Next]_vars
==============================================================================
