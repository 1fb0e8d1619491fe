------------------------------- MODULE SkipList --------------------------------
(***************************************************************************)
(* The list behind LevelDB's memtables (skiplist.h): one writer at a time  *)
(* links nodes in, level by level from below, while readers walk the list  *)
(* without a lock.                                                         *)
(*                                                                         *)
(* A load or store of a link is a step.  Links are published by release    *)
(* stores of one writer and read by acquire loads, so a reader sees some   *)
(* prefix of the writer's stores that grows while it walks: interleaving   *)
(* its loads with the stores covers this.  max_height_ is stored and read  *)
(* without a barrier: a reader may see any value it has had since the      *)
(* reader's operation began.                                               *)
(***************************************************************************)
EXTENDS Integers, FiniteSets, FiniteSetsExt

CONSTANTS LastKey,   \* keys are 1 .. LastKey
          MaxHeight  \* kMaxHeight

SkipListAssumption == LastKey \in Nat \ {0} /\ MaxHeight \in Nat \ {0}

VARIABLES
  links,       \* next_[level] of each node
  heights,     \* height of each node, 0 for none
  maxHeight,   \* max_height_
  insert,      \* the Insert that runs
  cursor       \* an Iterator, and what it is about to find

vars == <<links, heights, maxHeight, insert, cursor>>

HeadNode == 0
Null     == LastKey + 1    \* NULL, which counts as infinite
Unset    == LastKey + 2    \* memory of a node not yet written
ListKeys == 1 .. LastKey
ListLevels == 0 .. MaxHeight - 1

NoInsert == [key |-> 0, level |-> 0, linked |-> FALSE, prev |-> <<>>]
NoCursor == [op |-> "", node |-> Null, target |-> 0, level |-> 0, x |-> HeadNode,
             had |-> {}, least |-> 1]

Published == {k \in ListKeys : heights[k] > 0 /\ insert.key # k}

TypeOK ==
  /\ links \in [0 .. LastKey -> [ListLevels -> 1 .. Unset]]
  /\ maxHeight \in 1 .. MaxHeight /\ heights \in [ListKeys -> 0 .. MaxHeight]
  /\ cursor.op \in {"", "seek", "prev", "last"}
  /\ cursor.node \in 1 .. Unset /\ cursor.x \in 0 .. LastKey

Init ==
  /\ links = [n \in 0 .. LastKey |-> [l \in ListLevels |-> IF n = HeadNode THEN Null ELSE Unset]]
  /\ heights = [k \in ListKeys |-> 0] /\ maxHeight = 1
  /\ insert = NoInsert /\ cursor = NoCursor

-----------------------------------------------------------------------------
(* Insert.  Only the writer changes links, so its own search is one step.  *)

NodeBefore(k, l) == Max({HeadNode} \cup {n \in ListKeys : n < k /\ heights[n] > l})
NodeAfter(k, l)  == Min({Null} \cup {n \in ListKeys : n > k /\ heights[n] > l})

StartInsert(k, h) ==
  /\ insert = NoInsert /\ heights[k] = 0
  /\ insert' = [key |-> k, level |-> 0, linked |-> FALSE,
                prev |-> [l \in 0 .. h - 1 |-> NodeBefore(k, l)]]
  /\ heights' = [heights EXCEPT ![k] = h]
  /\ maxHeight' = Max({maxHeight, h})
  /\ UNCHANGED <<links, cursor>>

(* Slip: the node is published before it has a successor.                  *)
PublishFirst ==
  LET k == insert.key  l == insert.level IN
  links' = IF insert.linked THEN [links EXCEPT ![k][l] = NodeAfter(k, l)]
           ELSE [links EXCEPT ![insert.prev[l]][l] = k]

(* NoBarrier_SetNext of the new node, then SetNext of the one before it.   *)
Relink ==
  LET k == insert.key  l == insert.level IN
  links' = IF insert.linked THEN [links EXCEPT ![insert.prev[l]][l] = k]
           ELSE [links EXCEPT ![k][l] = links[insert.prev[l]][l]]

LinkNode ==
  /\ insert # NoInsert /\ Relink
  /\ insert' = IF ~insert.linked THEN [insert EXCEPT !.linked = TRUE]
               ELSE IF insert.level + 1 < heights[insert.key]
               THEN [insert EXCEPT !.linked = FALSE, !.level = @ + 1]
               ELSE NoInsert
  /\ UNCHANGED <<heights, maxHeight, cursor>>

-----------------------------------------------------------------------------
(* Iterator.  had: the keys whose Insert had ended when the operation      *)
(* began; least: max_height_ then.                                         *)

Start(op, target) ==
  /\ cursor.op = ""
  /\ cursor' = [op |-> op, node |-> cursor.node, target |-> target, level |-> -1,
                x |-> HeadNode, had |-> Published, least |-> maxHeight]
  /\ UNCHANGED <<links, heights, maxHeight, insert>>

Seek(k) == Start("seek", k)
IterPrev == cursor.node # Null /\ Start("prev", cursor.node)
SeekToLast == Start("last", Null)

GetMaxHeight ==
  /\ cursor.op # "" /\ cursor.level = -1
  /\ \E h \in cursor.least .. maxHeight : cursor' = [cursor EXCEPT !.level = h - 1]
  /\ UNCHANGED <<links, heights, maxHeight, insert>>

(* What FindGreaterOrEqual, FindLessThan and FindLast return: the node     *)
(* after the place, or the one before it, where head_ is none.             *)
Found(x, next) ==
  IF cursor.op = "seek" THEN next ELSE IF x = HeadNode THEN Null ELSE x

(* One round of their loop.                                                *)
Walk ==
  /\ cursor.op # "" /\ cursor.level >= 0
  /\ LET next == links[cursor.x][cursor.level] IN
     cursor' = IF next < cursor.target THEN [cursor EXCEPT !.x = next]
               ELSE IF cursor.level > 0 THEN [cursor EXCEPT !.level = @ - 1]
               ELSE [cursor EXCEPT !.op = "", !.level = 0, !.node = Found(cursor.x, next)]
  /\ UNCHANGED <<links, heights, maxHeight, insert>>

(* Next and SeekToFirst are one load.                                      *)
Load(x) ==
  /\ cursor.op = ""
  /\ cursor' = [NoCursor EXCEPT !.node = links[x][0], !.x = x, !.had = Published,
                                !.target = x + 1]
  /\ UNCHANGED <<links, heights, maxHeight, insert>>
IterNext == cursor.node # Null /\ Load(cursor.node)
SeekToFirst == Load(HeadNode)

Next ==
  \/ \E k \in ListKeys, h \in 1 .. MaxHeight : StartInsert(k, h)
  \/ LinkNode
  \/ \E k \in ListKeys : Seek(k)
  \/ IterPrev \/ SeekToLast \/ GetMaxHeight \/ Walk \/ IterNext \/ SeekToFirst

Spec == Init /\ [][Next]_vars

-----------------------------------------------------------------------------
(* The key an operation ends at is in the list, and no key whose Insert    *)
(* had ended before the operation began was passed over: not by Seek and   *)
(* Next from the target up, nor by Prev and SeekToLast below it.  A reader *)
(* never follows a link that was not yet written.                          *)
PassedUp(c)   == {k \in c.had : c.target <= k /\ k < c.node}
PassedDown(c) == {k \in c.had : k < c.target /\ (c.node = Null \/ k > c.node)}
Upward(c) == c.target <= c.node /\ c.node <= Null /\ PassedUp(c) = {}
Downward(c) == (c.node = Null \/ c.node < c.target) /\ PassedDown(c) = {}

ListStep ==
  /\ cursor'.op = "" /\ cursor' # cursor =>
       IF cursor.op \in {"prev", "last"} THEN Downward(cursor') ELSE Upward(cursor')
  /\ cursor'.node \in {Null} \cup {k \in ListKeys : heights'[k] > 0}
ListFindsInserted == [][ListStep]_vars
================================================================================
