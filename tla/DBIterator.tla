------------------------------ MODULE DBIterator -------------------------------
(***************************************************************************)
(* LevelDB's iterator (db_iter.cc) over the merged memtable and tables     *)
(* (merger.cc): it shows, at a snapshot and in both directions, one entry  *)
(* for each user key that has a value.  The client may turn around at any  *)
(* point; both layers then reposition what is below them.                  *)
(*                                                                         *)
(* A move of the merged iterator is a step.  Between two of them a writer  *)
(* may insert into the memtable, whose child then walks over entries that  *)
(* were not there when the others were positioned.                         *)
(***************************************************************************)
EXTENDS Integers, FiniteSets, FiniteSetsExt

CONSTANTS
  LastKey,     \* user keys are 1 .. LastKey
  Entries,     \* entries there when the iterator is made
  Inserts,     \* entries inserted later
  Tables       \* tables besides the memtable

DBIteratorAssumption ==
  LastKey \in Nat \ {0} /\ Entries \in Nat \ {0} /\ Inserts \in Nat /\ Tables \in Nat

VARIABLES
  children,    \* the entries of the memtable, child 0, and of each table
  deletions,   \* those that are deletions
  sequence,    \* sequence_: the snapshot
  merged,      \* the MergingIterator
  iter,        \* the DBIter
  goal         \* the user key it is to show, or none

vars == <<children, deletions, sequence, merged, iter, goal>>

(* An entry is its internal key: by user key, then the newest first.       *)
Width == Entries + Inserts + 1
InternalKey(k, s) == k * Width + Width - 1 - s
UserKey(e) == e \div Width
Seq(e) == Width - 1 - (e % Width)
None == 0

Child == 0 .. Tables
UserKeys == 1 .. LastKey
All == UNION {children[c] : c \in Child}
Written == Cardinality(All)

TypeOK ==
  /\ deletions \subseteq All /\ sequence \in 1 .. Entries
  /\ merged.forward \in BOOLEAN /\ merged.current \in Child \cup {-1}
  /\ \A c \in Child : merged.at[c] \in children[c] \cup {None}
  /\ iter.pc \in {"rest", "next", "turn", "prev"}
  /\ iter.saved \in UserKeys \cup {None} /\ goal \in UserKeys \cup {None}

-----------------------------------------------------------------------------
(* A child: positions in a sorted set.                                     *)

First(S) == IF S = {} THEN None ELSE Min(S)
Last(S)  == IF S = {} THEN None ELSE Max(S)
SeekIn(c, e) == First({f \in children[c] : f >= e})
NextIn(c, e) == First({f \in children[c] : f > e})
PrevIn(c, e) == Last({f \in children[c] : f < e})

-----------------------------------------------------------------------------
(* MergingIterator.                                                        *)

Valid(m) == m.current # -1
Key(m) == m.at[m.current]

FindSmallest(m) ==
  LET valid == {c \in Child : m.at[c] # None} IN
  [m EXCEPT !.current = IF valid = {} THEN -1
                        ELSE CHOOSE c \in valid : \A d \in valid : m.at[c] <= m.at[d]]
FindLargest(m) ==
  LET valid == {c \in Child : m.at[c] # None} IN
  [m EXCEPT !.current = IF valid = {} THEN -1
                        ELSE CHOOSE c \in valid : \A d \in valid : m.at[c] >= m.at[d]]

MergedFirst == FindSmallest([merged EXCEPT !.at = [c \in Child |-> First(children[c])],
                                           !.forward = TRUE])
MergedLast  == FindLargest([merged EXCEPT !.at = [c \in Child |-> Last(children[c])],
                                          !.forward = FALSE])
MergedSeek(e) == FindSmallest([merged EXCEPT !.at = [c \in Child |-> SeekIn(c, e)],
                                             !.forward = TRUE])

(* The others are put after key() if the last move was backwards.          *)
MergedNext ==
  LET key == Key(merged) IN
  FindSmallest([merged EXCEPT !.forward = TRUE,
    !.at = [c \in Child |-> IF c = merged.current \/ ~merged.forward
                            THEN NextIn(c, key) ELSE merged.at[c]]])

(* Slip: the others are not put before key() when the direction changes.   *)
PrevAsTheyAre ==
  FindLargest([merged EXCEPT !.forward = FALSE,
    !.at[merged.current] = PrevIn(merged.current, Key(merged))])

(* The others are put before key() if the last move was forwards.          *)
MergedPrev ==
  LET key == Key(merged) IN
  FindLargest([merged EXCEPT !.forward = FALSE,
    !.at = [c \in Child |-> IF c = merged.current \/ merged.forward
                            THEN PrevIn(c, key) ELSE merged.at[c]]])

-----------------------------------------------------------------------------
(* What is to be shown: the newest entry of a key at the snapshot, unless  *)
(* it is a deletion.                                                       *)

Newest(k) == First({e \in All : UserKey(e) = k /\ Seq(e) <= sequence})
Shown == {k \in UserKeys : Newest(k) # None /\ Newest(k) \notin deletions}

Init ==
  \E place \in [1 .. Entries -> UserKeys \X Child], dels \in SUBSET (1 .. Entries) :
    /\ children = [c \in Child |->
         {InternalKey(place[s][1], s) : s \in {r \in 1 .. Entries : place[r][2] = c}}]
    /\ deletions = {InternalKey(place[s][1], s) : s \in dels}
    /\ sequence \in {Entries - 1, Entries} \ {0}
    /\ merged = [at |-> [c \in Child |-> None], current |-> -1, forward |-> TRUE]
    /\ iter = [pc |-> "rest", valid |-> FALSE, forward |-> TRUE, saved |-> None,
               value |-> None, skipping |-> FALSE, deleted |-> FALSE]
    /\ goal = None

(* A write goes into the memtable meanwhile.                               *)
Insert(k) ==
  /\ Written < Entries + Inserts
  /\ children' = [children EXCEPT ![0] = @ \cup {InternalKey(k, Written + 1)}]
  /\ UNCHANGED <<deletions, sequence, merged, iter, goal>>

-----------------------------------------------------------------------------
(* DBIter.                                                                 *)

Resting == iter.pc = "rest"
Data == <<children, deletions, sequence>>

(* FindNextUserEntry is entered, or the entries are at their end.          *)
ToNext(m, saved, skipping) ==
  /\ merged' = m
  /\ iter' = IF Valid(m)
             THEN [iter EXCEPT !.pc = "next", !.forward = TRUE, !.saved = saved,
                               !.skipping = skipping]
             ELSE [iter EXCEPT !.pc = "rest", !.forward = TRUE, !.saved = None,
                               !.valid = FALSE]

SeekToFirst ==
  /\ Resting /\ ToNext(MergedFirst, None, FALSE)
  /\ goal' = First(Shown) /\ UNCHANGED Data
Seek(k) ==
  /\ Resting /\ ToNext(MergedSeek(InternalKey(k, sequence)), None, FALSE)
  /\ goal' = First({j \in Shown : j >= k}) /\ UNCHANGED Data

(* Turning forwards, from before the entries of the key to the first.      *)
IterNext ==
  /\ Resting /\ iter.valid
  /\ IF iter.forward THEN ToNext(merged, UserKey(Key(merged)), TRUE)
     ELSE ToNext(IF Valid(merged) THEN MergedNext ELSE MergedFirst, iter.saved, TRUE)
  /\ goal' = First({j \in Shown : j > goal}) /\ UNCHANGED Data

FindNextUserEntry ==
  /\ iter.pc = "next"
  /\ LET e == Key(merged)
         seen == Seq(e) <= sequence IN
     IF seen /\ e \notin deletions /\ ~(iter.skipping /\ UserKey(e) <= iter.saved)
     THEN /\ iter' = [iter EXCEPT !.pc = "rest", !.valid = TRUE, !.saved = None]
          /\ UNCHANGED merged
     ELSE IF seen /\ e \in deletions THEN ToNext(MergedNext, UserKey(e), TRUE)
     ELSE ToNext(MergedNext, iter.saved, iter.skipping)
  /\ UNCHANGED <<Data, goal>>

SeekToLast ==
  /\ Resting /\ merged' = MergedLast
  /\ iter' = [iter EXCEPT !.pc = "prev", !.forward = FALSE, !.deleted = TRUE]
  /\ goal' = Last(Shown) /\ UNCHANGED Data

IterPrev ==
  /\ Resting /\ iter.valid
  /\ iter' = IF iter.forward THEN [iter EXCEPT !.pc = "turn", !.saved = UserKey(Key(merged))]
             ELSE [iter EXCEPT !.pc = "prev", !.deleted = TRUE]
  /\ goal' = Last({j \in Shown : j < goal}) /\ UNCHANGED <<Data, merged>>

(* Turning backwards, until the user key changes.                          *)
ScanBackwards ==
  /\ iter.pc = "turn" /\ merged' = MergedPrev
  /\ iter' = IF ~Valid(MergedPrev)
             THEN [iter EXCEPT !.pc = "rest", !.valid = FALSE, !.saved = None]
             ELSE IF UserKey(Key(MergedPrev)) < iter.saved
             THEN [iter EXCEPT !.pc = "prev", !.forward = FALSE, !.deleted = TRUE]
             ELSE iter
  /\ UNCHANGED <<Data, goal>>

(* The entries of a key come oldest first: the last one seen counts, and   *)
(* it is known when another key's entry comes.                             *)
FindPrevUserEntry ==
  /\ iter.pc = "prev"
  /\ LET e == Key(merged)
         seen == Valid(merged) /\ Seq(e) <= sequence
     IN IF ~Valid(merged) \/ (seen /\ ~iter.deleted /\ UserKey(e) < iter.saved)
        THEN /\ iter' = [iter EXCEPT !.pc = "rest", !.valid = ~iter.deleted,
                           !.forward = iter.deleted,
                           !.saved = IF iter.deleted THEN None ELSE @]
             /\ UNCHANGED merged
        ELSE /\ iter' = IF ~seen THEN iter
                        ELSE [iter EXCEPT !.deleted = e \in deletions,
                                !.saved = IF e \in deletions THEN None ELSE UserKey(e),
                                !.value = IF e \in deletions THEN None ELSE e]
             /\ merged' = MergedPrev
  /\ UNCHANGED <<Data, goal>>

Next ==
  \/ \E k \in UserKeys : Insert(k) \/ Seek(k)
  \/ SeekToFirst \/ SeekToLast \/ IterNext \/ IterPrev
  \/ FindNextUserEntry \/ ScanBackwards \/ FindPrevUserEntry

Spec == Init /\ [][Next]_vars

-----------------------------------------------------------------------------
(* Whatever moves brought it there, and whatever was written meanwhile,    *)
(* the iterator shows the key a sorted list of the snapshot's values would *)
(* show, with its newest value then, or is at an end when that is.         *)
IteratorShowsSnapshot ==
  Resting =>
    /\ iter.valid <=> goal # None
    /\ iter.valid =>
         IF iter.forward THEN Key(merged) = Newest(goal)
         ELSE iter.saved = goal /\ iter.value = Newest(goal)
================================================================================
