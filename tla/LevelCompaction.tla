--------------------------- MODULE LevelCompaction ----------------------------
(***************************************************************************)
(* The levels of LevelDB (version_set.cc, with DoCompactionWork, Get and   *)
(* the snapshots of db_impl.cc): where a memtable's table goes, which      *)
(* files a compaction takes, which entries it drops, where its output is   *)
(* cut, and what a Get finds in all this.                                  *)
(*                                                                         *)
(* A compaction picks its files under the mutex, merges them without it,   *)
(* and installs its output under it again; writes, flushes, snapshots and  *)
(* reads come between.  Byte counts are left out: what they decide (which  *)
(* file is due, whether inputs are expanded, whether grandparents are too  *)
(* large, how much of a range a manual compaction takes at once, where     *)
(* outputs are cut) may go either way.  That a file is due by its size or  *)
(* by its seeks makes any file due.  One thread at a time calls            *)
(* CompactRange.                                                           *)
(***************************************************************************)
EXTENDS Integers, FiniteSets, FiniteSetsExt

CONSTANTS
  LastKey,       \* user keys are 1 .. LastKey
  Levels,        \* kNumLevels
  Ranges,        \* the ranges, <<first, last>>, CompactRange is called with
  MaxSeq, MaxSnapshots    \* bounds of the model

LevelsAssumption ==
  /\ LastKey \in Nat /\ Levels \in Nat /\ Levels >= 3
  /\ Ranges \subseteq (1 .. LastKey) \X (1 .. LastKey)
  /\ MaxSeq \in Nat /\ MaxSnapshots \in Nat

VARIABLES
  mem,           \* entries of the memtable
  levels,        \* the files of each level of the current version
  next,          \* number of the next table of a memtable
  lastSeq,       \* last_sequence_
  snapshots,     \* sequence numbers of snapshots_
  job,           \* the compaction that runs
  manual,        \* the call of CompactRange: the level it is at, the number
                 \* of levels it goes through, its range, where the rest of
                 \* the range begins, whether it waits for a memtable's flush
  history,       \* every entry ever written
  divided,       \* user keys ever held by two files of a level below 0
  squeezed       \* a table was put between the inputs of a running
                 \* compaction, at the level of its output

vars == <<mem, levels, next, lastSeq, snapshots, job, manual, history, divided, squeezed>>

Keys  == 1 .. LastKey
Level == 0 .. Levels - 1
Entry == [key : Keys, seq : 1 .. MaxSeq, del : BOOLEAN]
(* Numbers order the files of level 0; outputs of compactions have none.   *)
File  == [number : 0 .. MaxSeq, entries : SUBSET Entry]
NoJob == [on |-> FALSE, level |-> 0, inputs |-> {}, parents |-> {},
          base |-> {}, smallestSnapshot |-> 0]
NoCall == [on |-> FALSE, waiting |-> FALSE, level |-> 0, max |-> 1,
           begin |-> 1, end |-> 1, rest |-> 1]

TypeOK ==
  /\ mem \subseteq history /\ history \subseteq Entry
  /\ \A l \in Level : \A f \in levels[l] :
       f.number \in 0 .. next - 1 /\ f.entries \subseteq history /\ f.entries # {}
  /\ lastSeq = Cardinality(history) /\ snapshots \subseteq 0 .. lastSeq
  /\ job.on => /\ job.inputs \subseteq levels[job.level]
               /\ job.parents \subseteq levels[job.level + 1]
  /\ manual.on => /\ manual.level < manual.max /\ manual.max < Levels
                  /\ {manual.begin, manual.end, manual.rest} \subseteq Keys
  /\ divided \subseteq Keys /\ squeezed \in BOOLEAN

Init ==
  /\ mem = {} /\ levels = [l \in Level |-> {}] /\ next = 1 /\ lastSeq = 0
  /\ snapshots = {} /\ job = NoJob /\ manual = NoCall /\ history = {}
  /\ divided = {} /\ squeezed = FALSE

-----------------------------------------------------------------------------
(* Files and their ranges.                                                 *)

(* Internal keys: by user key, the newest entry first.                     *)
Before(k, s, e) == k < e.key \/ (k = e.key /\ s >= e.seq)

Smallest(f) == Min({e.key : e \in f.entries})
Largest(f)  == Max({e.key : e \in f.entries})
AfterFile(k, f)  == k > Largest(f)
BeforeFile(k, f) == k < Smallest(f)
GetRange(files) == {k \in Keys : /\ \E f \in files : Smallest(f) <= k
                              /\ \E f \in files : k <= Largest(f)}
Overlaps(f, range) == range # {} /\ ~AfterFile(Min(range), f) /\ ~BeforeFile(Max(range), f)
OverlapInLevel(l, range) == \E f \in levels[l] : Overlaps(f, range)

Touching(l, range) == {f \in levels[l] : Overlaps(f, range)}

(* The files of level l over a range; in level 0 each file taken widens    *)
(* the range.                                                              *)
GetOverlappingInputs(l, range) ==
  IF l > 0 THEN Touching(l, range)
  ELSE CHOOSE files \in SUBSET levels[0] :
         /\ files = Touching(0, GetRange(files) \cup range)
         /\ \A other \in SUBSET levels[0] :
              other = Touching(0, GetRange(other) \cup range) => files \subseteq other

MaxMemCompactLevel == 2

(* Where a memtable's table may go: below level 0 when nothing overlaps it *)
(* on the way, as deep as level 2 or until the next level overlaps it, or  *)
(* the one after that by too many bytes.                                   *)
PickLevelForMemTableOutput(range) ==
  {l \in 0 .. MaxMemCompactLevel :
     /\ l > 0 => \A m \in 0 .. l : ~OverlapInLevel(m, range)
     /\ \/ l = MaxMemCompactLevel
        \/ OverlapInLevel(0, range)
        \/ OverlapInLevel(l + 1, range)
        \/ l + 2 < Levels /\ OverlapInLevel(l + 2, range)}

-----------------------------------------------------------------------------
(* Get.                                                                    *)

(* The newest entry of a key not newer than the snapshot, or none.         *)
Seek(entries, k, s) ==
  LET seen == {e \in entries : e.key = k /\ e.seq <= s} IN
  {e \in seen : \A f \in seen : f.seq <= e.seq}

SearchLevel0(k, s) ==
  LET hits == {f \in levels[0] : Seek(f.entries, k, s) # {}} IN
  UNION {Seek(f.entries, k, s) : f \in {g \in hits : \A h \in hits : h.number <= g.number}}

(* The first file of a level that does not end before the key.             *)
SmallerFile(f, g) ==
  \E e \in f.entries : \A d \in g.entries :
    e.key < d.key \/ (e.key = d.key /\ e.seq > d.seq)
FindFile(l, k, s) ==
  LET after == {f \in levels[l] : \E e \in f.entries : Before(k, s, e)} IN
  {f \in after : \A g \in after \ {f} : ~SmallerFile(g, f)}
SearchLevel(l, k, s) == UNION {Seek(f.entries, k, s) : f \in FindFile(l, k, s)}

(* The memtable, level 0, then level by level; what is found first is      *)
(* taken for the newest.                                                   *)
Get(k, s) ==
  LET hits == {l \in 1 .. Levels - 1 : SearchLevel(l, k, s) # {}} IN
  IF Seek(mem, k, s) # {} THEN Seek(mem, k, s)
  ELSE IF SearchLevel0(k, s) # {} THEN SearchLevel0(k, s)
  ELSE IF hits # {} THEN SearchLevel(Min(hits), k, s)
  ELSE {}

(* What an iterator of the whole database shows: it merges all files.      *)
Everything == mem \cup UNION {f.entries : f \in UNION {levels[l] : l \in Level}}

(* A deletion, like no entry at all, is no value.                          *)
Value(entries) == {e.seq : e \in {d \in entries : ~d.del}}

-----------------------------------------------------------------------------
(* Writes, flushes, snapshots.                                             *)

Write(k, del) ==
  /\ lastSeq < MaxSeq /\ lastSeq' = lastSeq + 1
  /\ LET e == [key |-> k, seq |-> lastSeq + 1, del |-> del] IN
     mem' = mem \cup {e} /\ history' = history \cup {e}
  /\ UNCHANGED <<levels, next, snapshots, job, manual, divided, squeezed>>

Table(entries, number) == [number |-> number, entries |-> entries]
MemTableRange == {e.key : e \in mem}

(* CompactMemTable, which also runs within a compaction.                   *)
CompactMemTable ==
  /\ mem # {} /\ mem' = {} /\ next' = next + 1
  /\ manual' = [manual EXCEPT !.waiting = FALSE]
  /\ \E l \in PickLevelForMemTableOutput(MemTableRange) :
       /\ levels' = [levels EXCEPT ![l] = @ \cup {Table(mem, next)}]
       /\ squeezed' = (squeezed \/ /\ job.on /\ l = job.level + 1
                                   /\ Overlaps(Table(mem, next),
                                               GetRange(job.inputs \cup job.parents)))
  /\ UNCHANGED <<lastSeq, snapshots, job, history, divided>>

GetSnapshot ==
  /\ Cardinality(snapshots) < MaxSnapshots
  /\ snapshots' = snapshots \cup {lastSeq}
  /\ UNCHANGED <<mem, levels, next, lastSeq, job, manual, history, divided, squeezed>>

ReleaseSnapshot(s) ==
  /\ snapshots' = snapshots \ {s}
  /\ UNCHANGED <<mem, levels, next, lastSeq, job, manual, history, divided, squeezed>>

(* The process dies or closes the database, and opens it again: the log    *)
(* becomes a table of level 0.                                             *)
Reopen ==
  /\ levels' = [levels EXCEPT ![0] = @ \cup (IF mem = {} THEN {} ELSE {Table(mem, next)})]
  /\ next' = IF mem = {} THEN next ELSE next + 1
  /\ mem' = {} /\ snapshots' = {} /\ job' = NoJob /\ manual' = NoCall
  /\ UNCHANGED <<lastSeq, history, divided, squeezed>>

-----------------------------------------------------------------------------
(* Compactions.                                                            *)

(* Files of level l to compact, with those of level l + 1 they overlap,    *)
(* and with more of level l where that takes none more of level l + 1.     *)
SetupOtherInputs(l, inputs) ==
  LET parents  == GetOverlappingInputs(l + 1, GetRange(inputs))
      expanded == GetOverlappingInputs(l, GetRange(inputs \cup parents)) IN
  {[inputs |-> inputs, parents |-> parents]} \cup
  IF /\ parents # {}
     /\ Cardinality(GetOverlappingInputs(l + 1, GetRange(expanded))) = Cardinality(parents)
  THEN {[inputs |-> expanded, parents |-> parents]} ELSE {}

(* Slip: level 0 is taken for a level whose files do not overlap.          *)
OneFile(l) == {{f} : f \in levels[l]}

(* The file that is due; in level 0 with all that overlap it.              *)
PickCompaction(l) ==
  {IF l = 0 THEN GetOverlappingInputs(0, GetRange({f})) ELSE {f} : f \in levels[l]}

(* The files over what is left of a range, whose begin may have passed its *)
(* end; below level 0 as many as are done at once.                         *)
Reached(l, begin, end) == {f \in levels[l] : begin <= Largest(f) /\ Smallest(f) <= end}
ManualInputs(l, begin, end) ==
  LET reached == Reached(l, begin, end) IN
  IF l = 0 THEN {GetOverlappingInputs(0, GetRange(reached))} \ {{}}
  ELSE {{f \in reached : ~SmallerFile(g, f)} : g \in reached}

Grandparents(l, range) == IF l + 2 < Levels THEN GetOverlappingInputs(l + 2, range) ELSE {}

IsTrivialMove(c) == Cardinality(c.inputs) = 1 /\ c.parents = {}

(* A file with nothing below it moves as it is.                            *)
Move(l) ==
  /\ ~job.on
  /\ \E inputs \in PickCompaction(l) : \E c \in SetupOtherInputs(l, inputs) :
       /\ IsTrivialMove(c)
       /\ levels' = [levels EXCEPT ![l] = @ \ c.inputs, ![l + 1] = @ \cup c.inputs]
  /\ UNCHANGED <<mem, next, lastSeq, snapshots, job, manual, history, divided, squeezed>>

(* Up to the release of the mutex.                                         *)
DoCompactionWork(l, c) ==
  job' = [on |-> TRUE, level |-> l, inputs |-> c.inputs, parents |-> c.parents,
          base |-> UNION {levels[m] : m \in l + 2 .. Levels - 1},
          smallestSnapshot |-> IF snapshots = {} THEN lastSeq ELSE Min(snapshots)]

BackgroundCompaction(l) ==
  /\ ~job.on
  /\ \E inputs \in PickCompaction(l) : \E c \in SetupOtherInputs(l, inputs) :
       /\ IsTrivialMove(c) => Grandparents(l, GetRange(c.inputs)) # {}
       /\ DoCompactionWork(l, c)
  /\ UNCHANGED <<mem, levels, next, lastSeq, snapshots, manual, history, divided, squeezed>>

(* The deepest level with files over the range.                            *)
MaxLevelWithFiles(first, last) ==
  Max({1} \cup {l \in 1 .. Levels - 1 : Reached(l, first, last) # {}})

(* A call to compact a range: down to that level, once the memtable is     *)
(* flushed.                                                                *)
CompactRange(first, last) ==
  /\ ~manual.on
  /\ manual' = [on |-> TRUE, waiting |-> mem # {}, level |-> 0,
                max |-> MaxLevelWithFiles(first, last),
                begin |-> first, end |-> last, rest |-> first]
  /\ UNCHANGED <<mem, levels, next, lastSeq, snapshots, job, history, divided, squeezed>>

(* The files of a level, of level 0 too, are kept by their smallest keys.  *)
IsLast(f, files) == \A g \in files \ {f} : SmallerFile(g, f)

ManualReady == manual.on /\ ~manual.waiting /\ ~job.on

(* The level's next files; the last one's largest key is where the rest of *)
(* the range begins.                                                       *)
ManualCompaction(l) ==
  /\ ManualReady /\ l = manual.level
  /\ \E inputs \in ManualInputs(l, manual.rest, manual.end) :
       \E c \in SetupOtherInputs(l, inputs) :
         /\ DoCompactionWork(l, c)
         /\ \E f \in c.inputs : /\ IsLast(f, c.inputs)
                                /\ manual' = [manual EXCEPT !.rest = Largest(f)]
  /\ UNCHANGED <<mem, levels, next, lastSeq, snapshots, history, divided, squeezed>>

(* Nothing of the level is left in the range.                              *)
NextLevel ==
  /\ ManualReady /\ Reached(manual.level, manual.rest, manual.end) = {}
  /\ manual' = IF manual.level + 1 = manual.max THEN NoCall
               ELSE [manual EXCEPT !.level = @ + 1, !.rest = manual.begin]
  /\ UNCHANGED <<mem, levels, next, lastSeq, snapshots, job, history, divided, squeezed>>

IsBaseLevelForKey(k) == ~ \E f \in job.base : Smallest(f) <= k /\ k <= Largest(f)

Hidden(e, entries) ==
  \E f \in entries : f.key = e.key /\ e.seq < f.seq /\ f.seq <= job.smallestSnapshot

(* Slip: a deletion is dropped though older entries lie below.            *)
DropDeletions(entries) ==
  {e \in entries : ~Hidden(e, entries) /\ ~(e.del /\ e.seq <= job.smallestSnapshot)}

(* What the loop does not drop: entries not hidden by a newer one every    *)
(* reader sees, and deletions unless they hide nothing below.              *)
Kept(entries) ==
  {e \in entries :
     /\ ~Hidden(e, entries)
     /\ ~(e.del /\ e.seq <= job.smallestSnapshot /\ IsBaseLevelForKey(e.key))}

(* Entries with no first entry of an output between them are in one.       *)
SameOutput(firsts, d, e) ==
  \A c \in firsts : Before(c.key, c.seq, d) <=> Before(c.key, c.seq, e)

(* Slip: an output is opened even when nothing is kept.                    *)
OutputsAlways(entries) ==
  {{Table({e \in entries : SameOutput(firsts, d, e)}, 0) : d \in entries}
     \cup {Table(entries \ entries, 0)} : firsts \in SUBSET entries}

(* Outputs are cut between any two entries, of one user key or of two, and *)
(* any number of times.                                                    *)
Outputs(entries) ==
  {{Table({e \in entries : SameOutput(firsts, d, e)}, 0) : d \in entries} :
     firsts \in SUBSET entries}

InDivided(files) ==
  {k \in Keys : Cardinality({f \in files : \E e \in f.entries : e.key = k}) > 1}

InstallCompactionResults ==
  /\ job.on /\ job' = NoJob
  /\ LET l == job.level
         kept == Kept(UNION {f.entries : f \in job.inputs \cup job.parents}) IN
     \E outs \in Outputs(kept) :
       /\ levels' = [levels EXCEPT ![l] = @ \ job.inputs,
                                   ![l + 1] = (@ \ job.parents) \cup outs]
       /\ divided' = divided \cup InDivided(levels'[l + 1])
  /\ UNCHANGED <<mem, next, lastSeq, snapshots, manual, history, squeezed>>

-----------------------------------------------------------------------------
Next ==
  \/ \E k \in Keys, del \in BOOLEAN : Write(k, del)
  \/ CompactMemTable \/ GetSnapshot \/ Reopen
  \/ \E s \in snapshots : ReleaseSnapshot(s)
  \/ \E l \in 0 .. Levels - 2 : Move(l) \/ BackgroundCompaction(l) \/ ManualCompaction(l)
  \/ \E range \in Ranges : CompactRange(range[1], range[2])
  \/ NextLevel \/ InstallCompactionResults

Spec == Init /\ [][Next]_vars

-----------------------------------------------------------------------------
Sound(k) == k \notin divided /\ ~squeezed

(* A Get, now or at a snapshot, finds the newest entry of the key as of    *)
(* then, whatever has been flushed, merged, moved or dropped since.        *)
GetsFindTheNewest ==
  \A k \in Keys : Sound(k) => \A s \in snapshots \cup {lastSeq} :
    Value(Get(k, s)) = Value(Seek(history, k, s))

(* So does an iterator, which sees all files at once.                      *)
ScansFindTheNewest ==
  \A k \in Keys : Sound(k) => \A s \in snapshots \cup {lastSeq} :
    Value(Seek(Everything, k, s)) = Value(Seek(history, k, s))

EntriesOf(k, l) == {e \in UNION {f.entries : f \in levels[l]} : e.key = k}
InOrder(k) ==
  \A l, m \in Level : l < m =>
    \A e \in EntriesOf(k, l), f \in EntriesOf(k, m) : e.seq > f.seq

(* What Version::Get relies on: data in a smaller level is newer.          *)
EntriesStayInOrder == \A k \in Keys : Sound(k) => InOrder(k)
EntriesNeverHop    == \A k \in Keys : InOrder(k)

Disjoint == \A l \in 1 .. Levels - 1 : \A f, g \in levels[l] :
              f # g => \/ \A e \in f.entries, d \in g.entries : Before(e.key, e.seq, d)
                       \/ \A e \in f.entries, d \in g.entries : Before(d.key, d.seq, e)

(* Below level 0 no two files overlap, as SaveTo asserts.                  *)
FilesStayDisjoint == squeezed \/ Disjoint
NoOverlapInLevels == Disjoint

(* Every read, by Get or by an iterator, finds the newest entry.           *)
ReadsFindTheNewest == GetsFindTheNewest /\ ScansFindTheNewest

(* Newer entries stay above older ones, and files of a level apart.        *)
LevelsStaySorted == EntriesStayInOrder /\ FilesStayDisjoint
=============================================================================
