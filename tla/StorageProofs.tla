---------------------------- MODULE StorageProofs ----------------------------
(***************************************************************************)
(* Theorems of the parts of LevelDB that MCStorage runs side by side, for  *)
(* all keys, heights and interleavings.                                    *)
(*                                                                         *)
(* The list of a memtable (SkipList): ListInv says that the links of a     *)
(* level lead through exactly the nodes linked at it, in order, so that a  *)
(* reader who stands at a node between two of the writer's stores stands   *)
(* at one that is linked.                                                  *)
(*                                                                         *)
(* The cache of open tables (TableCache): CacheInv says of every entry     *)
(* who counts it, of the two lists whom they are for, and of the table     *)
(* that it leads to the entries in the cache and to no other; Fits says it *)
(* of any cache and any holders, with one entry, perhaps, on its way out.  *)
(*                                                                         *)
(* The levels (LevelCompaction): LevelsInv says that what is newer lies    *)
(* higher, that the files of a running compaction lie apart from those it  *)
(* leaves, and that what a read at a snapshot should find is in some file. *)
(*                                                                         *)
(* The iterator (DBIterator): IterInv says that every child stands next to *)
(* the merged key on the side it moves to, and, of each loop of DBIter,    *)
(* that what is to be shown has not been passed and what was passed is not *)
(* to be shown.                                                            *)
(***************************************************************************)
EXTENDS MCStorage, FiniteSetTheorems, SequenceTheorems, WellFoundedInduction, TLAPS

-----------------------------------------------------------------------------
(* The list: its inductive invariant.                                      *)

(* The nodes that can be reached at a level: all that are so high, but the *)
(* one being inserted only where its predecessor has been set.             *)
Linked(l) == {k \in InList!ListKeys :
                heights[k] > l /\ (insert.key = k => insert.level > l)}
Nodes(l) == Linked(l) \cup {InList!HeadNode}

(* A link leads to the next node linked at its level.                      *)
Leads(n, l) ==
  /\ links[n][l] \in Linked(l) \cup {InList!Null} /\ n < links[n][l]
  /\ \A m \in Linked(l) : ~(n < m /\ m < links[n][l])
LinksLead == \A l \in InList!ListLevels : \A n \in Nodes(l) : Leads(n, l)

(* What the search of Insert found is still so when the link is set.       *)
Before(p, l) ==
  /\ p \in Nodes(l) /\ p < insert.key
  /\ \A m \in Linked(l) : ~(p < m /\ m < insert.key)
InsertFound ==
  insert # InList!NoInsert =>
    /\ insert = [key |-> insert.key, level |-> insert.level,
                 linked |-> insert.linked, prev |-> insert.prev]
    /\ insert.key \in InList!ListKeys /\ insert.linked \in BOOLEAN
    /\ insert.level \in 0 .. heights[insert.key] - 1
    /\ \A l \in insert.level .. heights[insert.key] - 1 : Before(insert.prev[l], l)
    /\ insert.linked => links[insert.key][insert.level]
                          = links[insert.prev[insert.level]][insert.level]

(* A reader stands at a node of its level below its target.                *)
Cursor == [op : {"", "seek", "prev", "last"}, node : 1 .. LastListKey + 2,
           target : Int, level : Int, x : 0 .. LastListKey,
           had : SUBSET InList!ListKeys, least : Int]
Walking ==
  /\ cursor.target \in 1 .. InList!Null /\ cursor.level \in -1 .. MaxHeight - 1
  /\ cursor.least \in 1 .. maxHeight
  /\ cursor.level = -1 => cursor.x = InList!HeadNode
  /\ cursor.level >= 0 => cursor.x \in Nodes(cursor.level)
  /\ cursor.x < cursor.target /\ cursor.had \subseteq Linked(0)
CursorStands ==
  /\ cursor \in Cursor /\ cursor.node \in Linked(0) \cup {InList!Null}
  /\ cursor.op # "" => Walking

ListInv == InList!TypeOK /\ LinksLead /\ InsertFound /\ CursorStands

LEMMA ListConstants ==
  /\ LastListKey \in Nat \ {0} /\ MaxHeight \in Nat \ {0}
  /\ InList!HeadNode = 0 /\ InList!Null = LastListKey + 1
  /\ InList!Unset = LastListKey + 2
  /\ InList!ListKeys = 1 .. LastListKey /\ InList!ListLevels = 0 .. MaxHeight - 1
BY StorageAssumption DEF InList!SkipListAssumption, InList!HeadNode, InList!Null,
   InList!Unset, InList!ListKeys, InList!ListLevels

(* A bounded set of numbers has a greatest element.                        *)
LEMMA MaxExists ==
  ASSUME NEW n \in Nat, NEW S \in SUBSET (0 .. n), S # {}
  PROVE  InList!Max(S) \in S /\ \A m \in S : m <= InList!Max(S)
<1> DEFINE Above(m) == {k \in S : k > m}
           T == {Above(m) : m \in S}
<1>0. IsFiniteSet(0 .. n)
  BY FS_Interval
<1>1. IsFiniteSet(S)
  BY <1>0, FS_Subset
<1>2. \A U \in SUBSET S : IsFiniteSet(U)
  BY <1>1, FS_Subset
<1>3. T \subseteq FiniteSubsetsOf(S) /\ T # {}
  BY <1>2 DEF FiniteSubsetsOf
<1>4. PICK U \in T : \A V \in T : ~(<<V, U>> \in StrictSubsetOrdering(S))
  BY <1>3, <1>1, FS_StrictSubsetOrderingWellFounded, WFMin
<1>5. PICK m \in S : U = Above(m)
  OBVIOUS
<1>6. ASSUME NEW k \in S, ~(k <= m) PROVE FALSE
  <2>1. k \in Int /\ m \in Int /\ k > m /\ \A x \in S : x \in Int
    BY <1>6
  <2>2. \A x \in S : x > k => x > m
    BY <2>1
  <2>a. k \in Above(m) /\ k \notin Above(k)
    BY <2>1
  <2>3. k \in U /\ k \notin Above(k) /\ Above(k) \subseteq U
    BY <1>5, <2>2, <2>a
  <2>4. <<Above(k), U>> \in StrictSubsetOrdering(S)
    BY <1>5, <2>3 DEF StrictSubsetOrdering
  <2> QED BY <1>4, <2>4
<1>7. \A k \in S : k <= m /\ m >= k
  BY <1>6
<1>8. InList!Max(S) \in S /\ \A k \in S : InList!Max(S) >= k
  BY <1>7 DEF InList!Max
<1>9. \A k \in S : InList!Max(S) >= k => k <= InList!Max(S)
  BY <1>8
<1> QED BY <1>8, <1>9

LEMMA NodeBeforeIs ==
  ASSUME heights \in [InList!ListKeys -> 0 .. MaxHeight],
         NEW k \in InList!ListKeys, NEW l \in InList!ListLevels
  PROVE  LET p == InList!NodeBefore(k, l) IN
         /\ p \in {n \in InList!ListKeys : heights[n] > l} \cup {InList!HeadNode}
         /\ p < k
         /\ \A m \in InList!ListKeys : heights[m] > l => ~(p < m /\ m < k)
<1> DEFINE S == {n \in InList!ListKeys : n < k /\ heights[n] > l}
           T == {InList!HeadNode} \cup S
           p == InList!NodeBefore(k, l)
<1>1. T \in SUBSET (0 .. LastListKey) /\ T # {} /\ LastListKey \in Nat
  BY ListConstants
<1>2. p \in T /\ \A m \in T : m <= p
  BY <1>1, MaxExists DEF InList!NodeBefore
<1>3. p \in 0 .. LastListKey /\ k \in 1 .. LastListKey
  BY <1>1, <1>2, ListConstants
<1>4. p < k
  BY <1>2, <1>3, ListConstants
<1>5. ASSUME NEW m \in InList!ListKeys, heights[m] > l, p < m, m < k
      PROVE  FALSE
  <2>1. m \in T /\ m \in 1 .. LastListKey
    BY <1>5, ListConstants
  <2>2. m <= p
    BY <1>2, <2>1
  <2> QED BY <1>3, <1>5, <2>1, <2>2
<1> HIDE DEF p
<1>6. p \in {n \in InList!ListKeys : heights[n] > l} \cup {InList!HeadNode}
  BY <1>2
<1> QED BY <1>4, <1>5, <1>6 DEF p

LEMMA MaxOfTwo ==
  ASSUME NEW a \in Int, NEW b \in Int
  PROVE  InList!Max({a, b}) = IF a >= b THEN a ELSE b
<1>1. \E x \in {a, b} : \A y \in {a, b} : x >= y
  OBVIOUS
<1>2. InList!Max({a, b}) \in {a, b} /\ \A y \in {a, b} : InList!Max({a, b}) >= y
  BY <1>1 DEF InList!Max
<1> QED BY <1>2

LEMMA ListInit ==
  ASSUME InList!Init
  PROVE  ListInv
<1>e. cursor = [op |-> "", node |-> LastListKey + 1, target |-> 0, level |-> 0,
                x |-> 0, had |-> {}, least |-> 1]
  BY ListConstants DEF InList!Init, InList!NoCursor
<1>f. LastListKey + 1 \in 1 .. LastListKey + 2 /\ 0 \in 0 .. LastListKey
      /\ 0 \in Int /\ 1 \in Int
  BY ListConstants
<1>g. cursor \in Cursor
  BY <1>e, <1>f DEF Cursor
<1>a. /\ cursor.op = "" /\ cursor.node = LastListKey + 1 /\ cursor.x = 0
  BY <1>e
<1>b. /\ heights = [k \in InList!ListKeys |-> 0] /\ maxHeight = 1
      /\ links = [n \in 0 .. LastListKey |->
                    [l \in InList!ListLevels |->
                       IF n = 0 THEN LastListKey + 1 ELSE LastListKey + 2]]
  BY ListConstants DEF InList!Init
<1>c. links \in [0 .. LastListKey -> [InList!ListLevels -> 1 .. InList!Unset]]
  BY <1>b, ListConstants
<1>d. heights \in [InList!ListKeys -> 0 .. MaxHeight] /\ maxHeight \in 1 .. MaxHeight
  BY <1>b, ListConstants
<1>1. InList!TypeOK
  <2>1. InList!Unset = LastListKey + 2
    BY ListConstants
  <2> QED BY <1>a, <1>f, <1>c, <1>d, <2>1 DEF InList!TypeOK
<1>2. \A l \in InList!ListLevels : Linked(l) = {}
  BY ListConstants DEF InList!Init, Linked
<1>3. LinksLead
  BY <1>2, ListConstants DEF InList!Init, LinksLead, Leads, Nodes
<1>4. InsertFound
  BY DEF InList!Init, InsertFound
<1>5. CursorStands
  BY <1>a, <1>g, ListConstants DEF CursorStands
<1> QED BY <1>1, <1>3, <1>4, <1>5 DEF ListInv

(* While the links and the nodes linked stay, so does what is said of      *)
(* them.                                                                   *)
LEMMA LinksStay ==
  ASSUME LinksLead, links' = links,
         \A l \in InList!ListLevels : Linked(l)' = Linked(l)
  PROVE  LinksLead'
<1>1. InList!ListLevels' = InList!ListLevels /\ InList!Null' = InList!Null
      /\ InList!HeadNode' = InList!HeadNode
  BY DEF InList!ListLevels, InList!Null, InList!HeadNode
<1> SUFFICES ASSUME NEW l \in InList!ListLevels, NEW n \in Nodes(l)'
             PROVE  Leads(n, l)'
  BY <1>1 DEF LinksLead
<1>2. Linked(l)' = Linked(l) /\ n \in Nodes(l)
  BY <1>1 DEF Nodes
<1>3. Leads(n, l)
  BY <1>2 DEF LinksLead
<1> QED BY <1>1, <1>2, <1>3 DEF Leads

(* A reader keeps its place when nodes are only added.                     *)
LEMMA CursorStays ==
  ASSUME CursorStands, cursor' = cursor, maxHeight \in Int, maxHeight' \in Int,
         maxHeight <= maxHeight',
         \A l \in InList!ListLevels : Linked(l) \subseteq Linked(l)'
  PROVE  CursorStands'
<1>1. 0 \in InList!ListLevels
  BY ListConstants
<1>2. cursor.node \in (Linked(0) \cup {InList!Null})' /\ cursor \in Cursor'
  BY <1>1 DEF CursorStands, InList!Null, Cursor, InList!ListKeys
<1>3. ASSUME cursor.op # "" PROVE Walking'
  <2>1. Walking
    BY <1>3 DEF CursorStands
  <2>2. cursor.least \in 1 .. maxHeight'
    BY <2>1 DEF Walking
  <2>3. ASSUME cursor.level >= 0 PROVE cursor.x \in Nodes(cursor.level)'
    <3>1. cursor.level \in InList!ListLevels /\ cursor.x \in Nodes(cursor.level)
      BY <2>1, <2>3, ListConstants DEF Walking
    <3> QED BY <3>1 DEF Nodes, InList!HeadNode
  <2>4. cursor.had \subseteq Linked(0)'
    BY <1>1, <2>1 DEF Walking
  <2> QED BY <2>1, <2>2, <2>3, <2>4 DEF Walking, InList!Null, InList!HeadNode
<1> QED BY <1>2, <1>3 DEF CursorStands

LEMMA StartInsertKeeps ==
  ASSUME ListInv, NEW k \in InList!ListKeys, NEW h \in 1 .. MaxHeight,
         InList!StartInsert(k, h)
  PROVE  ListInv'
<1>a. /\ insert = InList!NoInsert /\ heights[k] = 0
      /\ insert' = [key |-> k, level |-> 0, linked |-> FALSE,
                    prev |-> [l \in 0 .. h - 1 |-> InList!NodeBefore(k, l)]]
      /\ heights' = [heights EXCEPT ![k] = h]
      /\ maxHeight' = InList!Max({maxHeight, h})
      /\ links' = links /\ cursor' = cursor
  BY DEF InList!StartInsert
<1>b. /\ InList!TypeOK /\ LinksLead /\ CursorStands
      /\ heights \in [InList!ListKeys -> 0 .. MaxHeight] /\ maxHeight \in 1 .. MaxHeight
      /\ MaxHeight \in Nat /\ k \in 1 .. LastListKey
  BY ListConstants DEF ListInv, InList!TypeOK
<1>1. maxHeight' = IF maxHeight >= h THEN maxHeight ELSE h
  BY <1>a, <1>b, MaxOfTwo
<1>2. maxHeight' \in 1 .. MaxHeight /\ maxHeight <= maxHeight'
  BY <1>1, <1>b
<1>3. heights' \in [InList!ListKeys -> 0 .. MaxHeight]
  BY <1>a, <1>b
<1>4. InList!TypeOK'
  BY <1>a, <1>b, <1>2, <1>3 DEF InList!TypeOK, InList!ListKeys, InList!ListLevels,
     InList!Unset
<1>5. ASSUME NEW l \in InList!ListLevels
      PROVE  /\ Linked(l)' = Linked(l)
             /\ Linked(l) = {n \in InList!ListKeys : heights[n] > l}
  <2>1. l \in Nat /\ insert.key = 0 /\ insert'.key = k /\ insert'.level = 0
    BY <1>a, ListConstants DEF InList!NoInsert
  <2>2. Linked(l) = {n \in InList!ListKeys : heights[n] > l}
    BY <2>1, ListConstants DEF Linked
  <2>3. ASSUME NEW n \in InList!ListKeys
        PROVE  n \in Linked(l)' <=> n \in Linked(l)
    <3>1. CASE n = k
      <4>1. n \notin Linked(l)
        BY <2>1, <2>2, <3>1, <1>a
      <4>2. n \notin Linked(l)'
        BY <2>1, <3>1 DEF Linked
      <4> QED BY <4>1, <4>2
    <3>2. CASE n # k
      <4>1. heights'[n] = heights[n] /\ insert'.key # n
        BY <1>a, <1>b, <2>1, <3>2
      <4> QED BY <2>2, <4>1 DEF Linked, InList!ListKeys
    <3> QED BY <3>1, <3>2
  <2>4. Linked(l)' \subseteq InList!ListKeys
    BY DEF Linked, InList!ListKeys
  <2> QED BY <2>2, <2>3, <2>4
<1>6. LinksLead'
  BY <1>a, <1>b, <1>5, LinksStay
<1>7. CursorStands'
  BY <1>a, <1>b, <1>2, <1>5, CursorStays
<1>8. InsertFound'
  <2>1. /\ insert'.key = k /\ insert'.level = 0 /\ insert'.linked = FALSE
        /\ insert'.prev = [l \in 0 .. h - 1 |-> InList!NodeBefore(k, l)]
        /\ heights'[k] = h
    BY <1>a, <1>b
  <2>2. ASSUME NEW l \in 0 .. h - 1
        PROVE  Before(insert.prev[l], l)'
    <3>1. l \in InList!ListLevels /\ insert'.prev[l] = InList!NodeBefore(k, l)
      BY <2>1, <1>b, ListConstants
    <3> DEFINE p == InList!NodeBefore(k, l)
    <3>2. /\ p \in {n \in InList!ListKeys : heights[n] > l} \cup {InList!HeadNode}
          /\ p < k
          /\ \A m \in InList!ListKeys : heights[m] > l => ~(p < m /\ m < k)
      BY <1>b, <3>1, NodeBeforeIs
    <3> HIDE DEF p
    <3>3. /\ Linked(l)' = {n \in InList!ListKeys : heights[n] > l}
          /\ p \in Nodes(l)'
      BY <1>5, <3>1, <3>2 DEF Nodes, InList!HeadNode
    <3>4. \A m \in Linked(l)' : ~(p < m /\ m < k)
      BY <3>2, <3>3
    <3>5. p < insert'.key /\ \A m \in Linked(l)' : ~(p < m /\ m < insert'.key)
      BY <2>1, <3>2, <3>4
    <3>6. insert'.prev[l] = p
      BY <3>1 DEF p
    <3> QED BY <3>3, <3>5, <3>6 DEF Before
  <2>3. 0 \in 0 .. h - 1 /\ k \in InList!ListKeys'
    BY <1>b DEF InList!ListKeys
  <2> QED BY <1>a, <2>1, <2>2, <2>3 DEF InsertFound
<1> QED BY <1>4, <1>6, <1>7, <1>8 DEF ListInv

LEMMA NextLevelIs ==
  ASSUME NEW k, NEW l, NEW b, NEW p, NEW m, NEW r, NEW s,
         r = [key |-> k, level |-> l, linked |-> b, prev |-> p],
         s = [r EXCEPT !.linked = FALSE, !.level = m]
  PROVE  s = [key |-> k, level |-> m, linked |-> FALSE, prev |-> p]
OBVIOUS

LEMMA LinkNodeKeeps ==
  ASSUME ListInv, InList!LinkNode
  PROVE  ListInv'
<1> DEFINE k == insert.key
           l == insert.level
           p == insert.prev[l]
<1>a. /\ insert # InList!NoInsert /\ InList!Relink
      /\ heights' = heights /\ maxHeight' = maxHeight /\ cursor' = cursor
      /\ insert' = IF ~insert.linked THEN [insert EXCEPT !.linked = TRUE]
                   ELSE IF insert.level + 1 < heights[insert.key]
                   THEN [insert EXCEPT !.linked = FALSE, !.level = @ + 1]
                   ELSE InList!NoInsert
  BY DEF InList!LinkNode
<1>b. /\ InList!TypeOK /\ LinksLead /\ CursorStands /\ InsertFound
      /\ heights \in [InList!ListKeys -> 0 .. MaxHeight] /\ maxHeight \in 1 .. MaxHeight
      /\ links \in [0 .. LastListKey -> [InList!ListLevels -> 1 .. InList!Unset]]
      /\ MaxHeight \in Nat /\ LastListKey \in Nat
  BY ListConstants DEF ListInv, InList!TypeOK
<1>c. /\ insert = [key |-> k, level |-> l, linked |-> insert.linked,
                   prev |-> insert.prev]
      /\ k \in 1 .. LastListKey /\ insert.linked \in BOOLEAN
      /\ l \in 0 .. heights[k] - 1
      /\ \A i \in l .. heights[k] - 1 : Before(insert.prev[i], i)
      /\ insert.linked => links[k][l] = links[p][l]
  BY <1>a, <1>b, ListConstants DEF InsertFound
<1>d. /\ heights[k] \in 0 .. MaxHeight /\ l \in InList!ListLevels
      /\ l \in l .. heights[k] - 1 /\ k \in InList!ListKeys
  BY <1>b, <1>c, ListConstants
<1>e. /\ Before(p, l) /\ p \in 0 .. LastListKey /\ p # k /\ p < k
      /\ p \in Nodes(l) /\ k \notin Nodes(l)
  <2>1. Before(p, l)
    BY <1>c, <1>d
  <2>2. p \in Nodes(l) /\ p < k
    BY <2>1 DEF Before
  <2>3. k \notin Linked(l)
    BY <1>c DEF Linked
  <2> QED BY <2>1, <2>2, <2>3, <1>c, <1>d, ListConstants DEF Nodes, Linked
<1>f. /\ Leads(p, l) /\ links[p][l] \in Linked(l) \cup {InList!Null}
      /\ links[p][l] \in 1 .. InList!Unset
      /\ p < links[p][l]
  BY <1>b, <1>d, <1>e DEF LinksLead, Leads
<1>g. links[p][l] > k
  <2>1. links[p][l] # k /\ links[p][l] \in Int /\ k \in Int /\ k < InList!Null
    BY <1>c, <1>e, <1>f, ListConstants DEF Nodes
  <2>2. links[p][l] = InList!Null \/ ~(p < links[p][l] /\ links[p][l] < k)
    BY <1>e, <1>f DEF Before
  <2> QED BY <2>1, <2>2, <1>f
<1> HIDE DEF p
<1>1. CASE ~insert.linked
  <2>1. /\ insert' = [key |-> k, level |-> l, linked |-> TRUE, prev |-> insert.prev]
        /\ links' = [links EXCEPT ![k][l] = links[p][l]]
    BY <1>a, <1>c, <1>1 DEF InList!Relink, p
  <2> HIDE DEF k, l
  <2>2. /\ \A n \in 0 .. LastListKey : \A i \in InList!ListLevels :
             links'[n][i] = IF n = k /\ i = l THEN links[p][l] ELSE links[n][i]
        /\ links' \in [0 .. LastListKey -> [InList!ListLevels -> 1 .. InList!Unset]]
    BY <2>1, <1>b, <1>c, <1>d, <1>f
  <2>3. \A i : Linked(i)' = Linked(i)
    <3>1. insert'.key = insert.key /\ insert'.level = insert.level
      BY <2>1 DEF k, l
    <3> QED BY <3>1, <1>a DEF Linked, InList!ListKeys
  <2>4. InList!TypeOK'
    BY <1>a, <1>b, <2>2 DEF InList!TypeOK, InList!ListKeys, InList!ListLevels, InList!Unset
  <2>5. ASSUME NEW i \in InList!ListLevels, NEW n \in Nodes(i)'
        PROVE  Leads(n, i)'
    <3>1. n \in Nodes(i) /\ n \in 0 .. LastListKey
      BY <2>3, ListConstants DEF Nodes, Linked, InList!HeadNode
    <3>2. ~(n = k /\ i = l)
      BY <3>1, <1>e
    <3>3. links'[n][i] = links[n][i] /\ Leads(n, i)
      BY <2>2, <3>1, <3>2, <1>b DEF LinksLead
    <3> QED BY <2>3, <3>3 DEF Leads, InList!Null
  <2>6. LinksLead'
    BY <2>5 DEF LinksLead, InList!ListLevels
  <2>7. CursorStands'
    BY <1>a, <1>b, <2>3, CursorStays
  <2>8. ASSUME NEW i \in l .. heights[k] - 1
        PROVE  Before(insert.prev[i], i)'
    <3>1. Before(insert.prev[i], i) /\ insert'.prev = insert.prev /\ insert'.key = insert.key
      BY <1>c, <2>1 DEF k
    <3> QED BY <2>3, <3>1 DEF Before, Nodes, InList!HeadNode
  <2>9. links'[k][l] = links'[p][l]
    BY <2>2, <1>c, <1>d, <1>e
  <2>10. /\ insert'.key = k /\ insert'.level = l /\ insert'.linked = TRUE
         /\ insert'.prev = insert.prev /\ heights' = heights
    BY <2>1, <1>a
  <2>11. InsertFound'
    BY <2>1, <2>8, <2>9, <2>10, <1>c, <1>d DEF InsertFound, p, InList!ListKeys
  <2> QED BY <2>4, <2>6, <2>7, <2>11 DEF ListInv
<1>2. CASE insert.linked
  <2>1. links' = [links EXCEPT ![p][l] = k] /\ links[k][l] = links[p][l]
    BY <1>a, <1>c, <1>2 DEF InList!Relink, p
  <2>2. insert' = IF l + 1 < heights[k]
                  THEN [key |-> k, level |-> l + 1, linked |-> FALSE,
                        prev |-> insert.prev]
                  ELSE InList!NoInsert
    <3>1. ASSUME l + 1 < heights[k]
          PROVE  insert' = [key |-> k, level |-> l + 1, linked |-> FALSE,
                            prev |-> insert.prev]
      <4>1. insert' = [insert EXCEPT !.linked = FALSE, !.level = l + 1]
        BY <1>a, <1>2, <3>1
      <4> QED BY <4>1, <1>c, NextLevelIs
    <3> QED BY <1>a, <1>2, <3>1
  <2> HIDE DEF k, l
  <2>3. /\ \A n \in 0 .. LastListKey : \A i \in InList!ListLevels :
             links'[n][i] = IF n = p /\ i = l THEN k ELSE links[n][i]
        /\ links' \in [0 .. LastListKey -> [InList!ListLevels -> 1 .. InList!Unset]]
    <3>1. k \in 1 .. InList!Unset
      BY <1>c, <1>b, ListConstants
    <3> QED BY <2>1, <1>b, <1>c, <1>d, <1>e, <3>1
  <2>4. InList!TypeOK'
    BY <1>a, <1>b, <2>3 DEF InList!TypeOK, InList!ListKeys, InList!ListLevels, InList!Unset
  <2>5. ASSUME NEW i \in InList!ListLevels
        PROVE  Linked(i)' = Linked(i) \cup (IF i = l THEN {k} ELSE {})
    <3> SUFFICES ASSUME NEW n \in InList!ListKeys
                 PROVE  n \in Linked(i)' <=> n \in Linked(i) \/ (i = l /\ n = k)
      BY <1>d DEF Linked, InList!ListKeys
    <3>1. i \in Int /\ l \in Int /\ heights[k] \in Int /\ l < heights[k] /\ i >= 0
      BY <1>c, <1>d, ListConstants
    <3>2. CASE n # k
      <4>1. insert'.key # n /\ insert.key # n
        BY <2>2, <3>2, ListConstants DEF InList!NoInsert, k
      <4> QED BY <1>a, <3>2, <4>1 DEF Linked, InList!ListKeys
    <3>3. CASE n = k
      <4>1. n \in Linked(i) <=> heights[k] > i /\ l > i
        BY <3>3 DEF Linked, k, l
      <4>2. CASE l + 1 < heights[k]
        <5>1. n \in Linked(i)' <=> heights[k] > i /\ l + 1 > i
          BY <3>3, <4>2, <2>2, <1>a DEF Linked, InList!ListKeys
        <5> QED BY <3>1, <3>3, <4>1, <5>1
      <4>3. CASE ~(l + 1 < heights[k])
        <5>1. n \in Linked(i)' <=> heights[k] > i
          BY <3>3, <4>3, <2>2, <1>a, ListConstants DEF Linked, InList!ListKeys, InList!NoInsert
        <5> QED BY <3>1, <3>3, <4>1, <4>3, <5>1
      <4> QED BY <4>2, <4>3
    <3> QED BY <3>2, <3>3
  <2>6. ASSUME NEW i \in InList!ListLevels, NEW n \in Nodes(i)'
        PROVE  Leads(n, i)'
    <3>1. n \in 0 .. LastListKey /\ (n \in Nodes(i) \/ (n = k /\ i = l))
      BY <2>5, ListConstants DEF Nodes, Linked, InList!HeadNode, InList!ListKeys
    <3>a. Linked(i) \subseteq 1 .. LastListKey
      BY ListConstants DEF Linked
    <3>2. CASE i # l
      <4>1. links'[n][i] = links[n][i] /\ Leads(n, i) /\ Linked(i)' = Linked(i)
        BY <2>3, <2>5, <3>1, <3>2, <1>b DEF LinksLead
      <4> QED BY <4>1 DEF Leads, InList!Null
    <3>3. CASE i = l /\ n = p
      <4>1. links'[n][i] = k /\ Linked(i)' = Linked(i) \cup {k} /\ n < k
        BY <2>3, <2>5, <3>1, <3>3, <1>e
      <4>2. \A m \in Linked(i)' : ~(n < m /\ m < k)
        BY <3>3, <4>1, <1>c, <1>e DEF Before, k
      <4> QED BY <4>1, <4>2 DEF Leads
    <3>4. CASE i = l /\ n = k
      <4>1. links'[n][i] = links[p][l] /\ Linked(i)' = Linked(i) \cup {k}
        BY <2>1, <2>3, <2>5, <3>1, <3>4, <1>e
      <4>2. \A m \in Linked(i) : ~(k < m /\ m < links[p][l])
        <5> SUFFICES ASSUME NEW m \in Linked(i), k < m, m < links[p][l]
                     PROVE  FALSE
          OBVIOUS
        <5>1. p < m
          BY <1>c, <1>e, <3>a
        <5> QED BY <3>4, <5>1, <1>f DEF Leads
      <4>3. ~(k < k)
        BY <1>c
      <4> QED BY <3>4, <4>1, <4>2, <4>3, <1>f, <1>g DEF Leads, InList!Null
    <3>5. CASE i = l /\ n # p /\ n # k
      <4>a. n \in Nodes(i) /\ links'[n][i] = links[n][i]
        BY <2>3, <3>1, <3>5
      <4>b. Leads(n, i)
        BY <4>a, <1>b, <1>d DEF LinksLead
      <4>c. Linked(i)' = Linked(i) \cup {k}
        BY <2>5, <3>5
      <4>1. /\ n \in Nodes(i) /\ Leads(n, i) /\ links'[n][i] = links[n][i]
            /\ Linked(i)' = Linked(i) \cup {k}
        BY <4>a, <4>b, <4>c
      <4>d. links[n] \in [InList!ListLevels -> 1 .. InList!Unset]
        BY <3>1, <1>b
      <4>e. InList!Unset \in Int
        BY <1>b, ListConstants
      <4>f. links[n][i] \in 1 .. InList!Unset
        BY <4>d
      <4>2. links[n][i] \in 1 .. InList!Unset /\ InList!Unset \in Int
        BY <4>e, <4>f
      <4>3. ~(n < k /\ k < links[n][i])
        <5> SUFFICES ASSUME n < k, k < links[n][i] PROVE FALSE
          OBVIOUS
        <5>1. CASE n < p
          <6>1. p \in Linked(i)
            BY <3>1, <3>5, <5>1, <1>e, ListConstants DEF Nodes
          <6>2. p < links[n][i]
            BY <4>2, <1>c, <1>e
          <6> QED BY <4>1, <5>1, <6>1, <6>2 DEF Leads
        <5>2. CASE ~(n < p)
          <6>1. p < n
            BY <3>1, <3>5, <5>2, <1>e
          <6>2. n \in Linked(i)
            BY <3>1, <4>1, <6>1, <1>e, ListConstants DEF Nodes
          <6> QED BY <3>5, <6>1, <6>2, <1>e DEF Before, k
        <5> QED BY <5>1, <5>2
      <4>4. /\ links'[n][i] \in Linked(i)' \cup {InList!Null}
            /\ n < links'[n][i]
            /\ \A m \in Linked(i)' : ~(n < m /\ m < links'[n][i])
        BY <4>1, <4>3 DEF Leads
      <4>5. Leads(n, i)'
        BY <4>4 DEF Leads, InList!Null
      <4> QED BY <4>5
    <3> QED BY <3>1, <3>2, <3>3, <3>4, <3>5
  <2>7. LinksLead'
    BY <2>6 DEF LinksLead, InList!ListLevels
  <2>8. CursorStands'
    <3>1. \A i \in InList!ListLevels : Linked(i) \subseteq Linked(i)'
      BY <2>5
    <3> QED BY <1>a, <1>b, <3>1, CursorStays
  <2>9. InsertFound'
    <3>1. CASE ~(l + 1 < heights[k])
      BY <2>2, <3>1 DEF InsertFound, InList!NoInsert
    <3>2. CASE l + 1 < heights[k]
      <4>1. /\ insert'.key = k /\ insert'.level = l + 1 /\ insert'.linked = FALSE
            /\ insert'.prev = insert.prev
            /\ insert' = [key |-> k, level |-> l + 1, linked |-> FALSE,
                          prev |-> insert.prev]
        BY <2>2, <3>2
      <4>2. ASSUME NEW i \in l + 1 .. heights[k] - 1
            PROVE  Before(insert.prev[i], i)'
        <5>1. i \in l .. heights[k] - 1 /\ i # l /\ i \in InList!ListLevels
          BY <1>c, <1>d, ListConstants
        <5>2. Before(insert.prev[i], i) /\ Linked(i)' = Linked(i)
          BY <1>c, <2>5, <5>1
        <5> QED BY <4>1, <5>2 DEF Before, Nodes, InList!HeadNode, k
      <4>3. l + 1 \in 0 .. heights[k] - 1
        BY <3>2, <1>c, <1>d
      <4> QED BY <1>a, <1>d, <4>1, <4>2, <4>3 DEF InsertFound, InList!ListKeys
    <3> QED BY <3>1, <3>2
  <2> QED BY <2>4, <2>7, <2>8, <2>9 DEF ListInv
<1> QED BY <1>1, <1>2, <1>c

(* A step of the reader changes the cursor only.                           *)
LEMMA ReaderKeeps ==
  ASSUME ListInv, links' = links, heights' = heights, maxHeight' = maxHeight,
         insert' = insert, cursor' \in Cursor,
         cursor'.node \in Linked(0) \cup {InList!Null},
         cursor'.op # "" => Walking'
  PROVE  ListInv'
<1>1. InList!TypeOK'
  <2>1. /\ cursor'.op \in {"", "seek", "prev", "last"}
        /\ cursor'.node \in 1 .. LastListKey + 2 /\ cursor'.x \in 0 .. LastListKey
    BY DEF Cursor
  <2> QED BY <2>1, ListConstants DEF ListInv, InList!TypeOK, InList!ListKeys,
             InList!ListLevels, InList!Unset
<1>2. \A l : Linked(l)' = Linked(l)
  BY DEF Linked, InList!ListKeys
<1>3. LinksLead'
  BY <1>2, LinksStay DEF ListInv
<1>4. InsertFound'
  BY <1>2 DEF ListInv, InsertFound, Before, Nodes, InList!HeadNode, InList!ListKeys,
     InList!NoInsert
<1>5. CursorStands'
  BY <1>2 DEF CursorStands, Cursor, InList!Null, InList!ListKeys
<1> QED BY <1>1, <1>3, <1>4, <1>5 DEF ListInv

(* Keys whose Insert has ended are linked at every level they reach.       *)
LEMMA PublishedAreLinked ==
  ASSUME ListInv
  PROVE  InList!Published \subseteq Linked(0)
BY DEF InList!Published, Linked

LEMMA StartKeeps ==
  ASSUME ListInv, NEW op \in {"seek", "prev", "last"},
         NEW target \in 1 .. InList!Null, InList!Start(op, target)
  PROVE  ListInv' /\ cursor'.op # "" /\ cursor'.node = cursor.node
<1>1. /\ cursor' = [op |-> op, node |-> cursor.node, target |-> target, level |-> -1,
                    x |-> 0, had |-> InList!Published, least |-> maxHeight]
      /\ links' = links /\ heights' = heights /\ maxHeight' = maxHeight
      /\ insert' = insert
  BY ListConstants DEF InList!Start
<1>2. /\ cursor \in Cursor /\ cursor.node \in Linked(0) \cup {InList!Null}
      /\ maxHeight \in 1 .. MaxHeight
  BY DEF ListInv, CursorStands, InList!TypeOK
<1>3. /\ target \in Int /\ target > 0 /\ maxHeight \in Int /\ maxHeight >= 1
      /\ 0 \in 0 .. LastListKey /\ -1 \in Int /\ -1 \in -1 .. MaxHeight - 1
      /\ maxHeight \in 1 .. maxHeight
  BY <1>2, ListConstants
<1>4. InList!Published \subseteq Linked(0) /\ InList!Published \subseteq InList!ListKeys
  BY PublishedAreLinked DEF InList!Published
<1>5. cursor' \in Cursor
  BY <1>1, <1>2, <1>3, <1>4 DEF Cursor
<1>6. Linked(0)' = Linked(0) /\ InList!Null' = InList!Null /\ InList!HeadNode' = 0
  BY <1>1, ListConstants DEF Linked, InList!ListKeys, InList!Null
<1>7. Walking'
  <2>1. /\ cursor'.target = target /\ cursor'.level = -1 /\ cursor'.x = 0
        /\ cursor'.least = maxHeight /\ cursor'.had = InList!Published
    BY <1>1
  <2>2. cursor'.x < cursor'.target /\ ~(cursor'.level >= 0)
    BY <2>1, <1>3
  <2> QED BY <1>1, <1>3, <1>4, <1>6, <2>1, <2>2 DEF Walking
<1>8. cursor'.op = op /\ cursor'.node = cursor.node
  BY <1>1
<1> QED BY <1>1, <1>2, <1>5, <1>7, <1>8, ReaderKeeps

LEMMA GetMaxHeightKeeps ==
  ASSUME ListInv, InList!GetMaxHeight
  PROVE  ListInv' /\ cursor'.op # "" /\ cursor'.node = cursor.node
<1>1. /\ cursor.op # "" /\ cursor.level = -1
      /\ links' = links /\ heights' = heights /\ maxHeight' = maxHeight
      /\ insert' = insert
  BY DEF InList!GetMaxHeight
<1>2. PICK h \in cursor.least .. maxHeight : cursor' = [cursor EXCEPT !.level = h - 1]
  BY DEF InList!GetMaxHeight
<1>3. /\ cursor \in Cursor /\ cursor.node \in Linked(0) \cup {InList!Null}
      /\ maxHeight \in 1 .. MaxHeight /\ Walking
  BY <1>1 DEF ListInv, CursorStands, InList!TypeOK
<1>4. h - 1 \in Int /\ h - 1 \in 0 .. MaxHeight - 1 /\ h - 1 >= 0
      /\ h - 1 \in -1 .. MaxHeight - 1 /\ h - 1 # -1
  BY <1>3, ListConstants DEF Walking
<1>5. /\ cursor'.op = cursor.op /\ cursor'.node = cursor.node
      /\ cursor'.target = cursor.target /\ cursor'.level = h - 1
      /\ cursor'.x = cursor.x /\ cursor'.had = cursor.had
      /\ cursor'.least = cursor.least /\ cursor' \in Cursor
  BY <1>2, <1>3, <1>4 DEF Cursor
<1>6. cursor.x = InList!HeadNode
  BY <1>1, <1>3 DEF Walking
<1>7. Linked(0)' = Linked(0) /\ InList!Null' = InList!Null
      /\ InList!HeadNode' = InList!HeadNode
  BY <1>1 DEF Linked, InList!ListKeys, InList!Null, InList!HeadNode
<1>8. Walking'
  BY <1>1, <1>3, <1>4, <1>5, <1>6, <1>7 DEF Walking, Nodes
<1> QED BY <1>1, <1>3, <1>5, <1>8, ReaderKeeps

(* A node linked at a level is linked below it.                            *)
LEMMA LinkedBelow ==
  ASSUME NEW l \in InList!ListLevels, l > 0, heights \in [InList!ListKeys -> 0 .. MaxHeight],
         insert # InList!NoInsert => insert.level \in Int, insert.key \in InList!ListKeys
            => insert # InList!NoInsert
  PROVE  l - 1 \in InList!ListLevels /\ Nodes(l) \subseteq Nodes(l - 1)
<1>1. l \in Int /\ l - 1 \in Int /\ l - 1 \in InList!ListLevels
  BY ListConstants
<1>2. ASSUME NEW n \in Linked(l) PROVE n \in Linked(l - 1)
  <2>1. n \in InList!ListKeys /\ heights[n] > l /\ heights[n] \in Int
    BY ListConstants DEF Linked
  <2>2. heights[n] > l - 1
    BY <1>1, <2>1
  <2>3. ASSUME insert.key = n PROVE insert.level > l - 1
    <3>1. insert.level \in Int /\ insert.level > l
      BY <2>1, <2>3 DEF Linked
    <3> QED BY <1>1, <3>1
  <2> QED BY <2>1, <2>2, <2>3 DEF Linked
<1> QED BY <1>1, <1>2 DEF Nodes

(* Where a walk is, and the link it reads.                                 *)
LEMMA LinkRead ==
  ASSUME ListInv, NEW l \in InList!ListLevels, NEW x \in Nodes(l)
  PROVE  /\ links[x][l] \in Linked(l) \cup {InList!Null} /\ x < links[x][l]
         /\ links[x][l] \in 1 .. InList!Null /\ x \in 0 .. LastListKey
         /\ \A m \in Linked(l) : ~(x < m /\ m < links[x][l])
<1>1. Leads(x, l)
  BY DEF ListInv, LinksLead
<1>2. Linked(l) \subseteq 1 .. LastListKey /\ x \in 0 .. LastListKey
  BY ListConstants DEF Linked, Nodes
<1>3. links[x][l] \in Linked(l) \cup {InList!Null}
  BY <1>1 DEF Leads
<1>4. links[x][l] \in 1 .. InList!Null
  BY <1>2, <1>3, ListConstants
<1> QED BY <1>1, <1>2, <1>3, <1>4 DEF Leads

(* What a finished operation owes: the next node at the bottom level is    *)
(* the first from the target up, and the last node below it is before it.  *)
LEMMA EndsRight ==
  ASSUME ListInv, NEW c, NEW x \in Nodes(0), NEW nx, nx = links[x][0],
         c.had \subseteq Linked(0), c.target \in 1 .. InList!Null,
         x < c.target, nx >= c.target
  PROVE  /\ c.node = nx => InList!Upward(c)
         /\ c.node = (IF x = InList!HeadNode THEN InList!Null ELSE x)
              => InList!Downward(c)
<1>1. 0 \in InList!ListLevels /\ InList!Null \in Int
  BY ListConstants
<1>2. /\ nx \in Linked(0) \cup {InList!Null} /\ x < nx
      /\ nx \in 1 .. InList!Null /\ x \in 0 .. LastListKey
      /\ \A m \in Linked(0) : ~(x < m /\ m < nx)
  BY <1>1, LinkRead
<1>3. Linked(0) \subseteq 1 .. LastListKey
  BY ListConstants DEF Linked
<1>4. ASSUME c.node = nx PROVE InList!Upward(c)
  <2>1. ASSUME NEW k \in InList!PassedUp(c) PROVE FALSE
    <3>1. k \in Linked(0) /\ c.target <= k /\ k < nx
      BY <1>4, <2>1 DEF InList!PassedUp
    <3>2. x < k
      BY <1>1, <1>2, <1>3, <3>1
    <3> QED BY <1>2, <3>1, <3>2
  <2>2. c.target <= c.node /\ c.node <= InList!Null
    BY <1>1, <1>2, <1>4
  <2> QED BY <2>1, <2>2 DEF InList!Upward
<1>5. ASSUME c.node = (IF x = InList!HeadNode THEN InList!Null ELSE x)
      PROVE  InList!Downward(c)
  <2>1. c.node = InList!Null \/ c.node < c.target
    BY <1>5
  <2>2. ASSUME NEW k \in InList!PassedDown(c) PROVE FALSE
    <3>1. /\ k \in Linked(0) /\ k < c.target
          /\ c.node = InList!Null \/ k > c.node
      BY <2>2 DEF InList!PassedDown
    <3>2. k > x
      BY <1>1, <1>2, <1>3, <1>5, <3>1, ListConstants
    <3>3. x < k /\ k < nx
      BY <1>1, <1>2, <1>3, <3>1, <3>2
    <3> QED BY <1>2, <3>1, <3>3
  <2> QED BY <2>1, <2>2 DEF InList!Downward
<1> QED BY <1>4, <1>5

LEMMA WalkKeeps ==
  ASSUME ListInv, InList!Walk
  PROVE  /\ ListInv'
         /\ cursor'.op = "" =>
              IF cursor.op \in {"prev", "last"} THEN InList!Downward(cursor')
              ELSE InList!Upward(cursor')
<1> DEFINE l == cursor.level
           x == cursor.x
           nx == links[x][l]
<1>0. l >= 0
  BY DEF InList!Walk
<1>1. /\ cursor.op # ""
      /\ links' = links /\ heights' = heights /\ maxHeight' = maxHeight
      /\ insert' = insert
      /\ cursor' = IF nx < cursor.target THEN [cursor EXCEPT !.x = nx]
                   ELSE IF l > 0 THEN [cursor EXCEPT !.level = l - 1]
                   ELSE [cursor EXCEPT !.op = "", !.level = 0,
                                       !.node = InList!Found(x, nx)]
  BY DEF InList!Walk
<1>2. /\ cursor \in Cursor /\ cursor.node \in Linked(0) \cup {InList!Null} /\ Walking
  BY <1>1 DEF ListInv, CursorStands
<1>3. /\ l \in InList!ListLevels /\ x \in Nodes(l) /\ l \in Int
      /\ cursor.target \in 1 .. InList!Null /\ x < cursor.target
      /\ cursor.had \subseteq Linked(0) /\ cursor.least \in 1 .. maxHeight
      /\ l \in -1 .. MaxHeight - 1
  <2>1. /\ cursor.target \in 1 .. InList!Null /\ x < cursor.target
        /\ cursor.had \subseteq Linked(0) /\ cursor.least \in 1 .. maxHeight
        /\ l \in -1 .. MaxHeight - 1 /\ x \in Nodes(l)
    BY <1>0, <1>2 DEF Walking
  <2> HIDE DEF l
  <2>2. l \in Int /\ l \in InList!ListLevels
    BY <1>0, <2>1, ListConstants
  <2> QED BY <2>1, <2>2
<1>4. /\ nx \in Linked(l) \cup {InList!Null} /\ x < nx
      /\ nx \in 1 .. InList!Null /\ x \in 0 .. LastListKey
  BY <1>3, LinkRead
<1>5. /\ \A i : Linked(i)' = Linked(i) /\ Nodes(i)' = Nodes(i)
      /\ InList!Null' = InList!Null /\ InList!HeadNode' = InList!HeadNode
  BY <1>1 DEF Linked, Nodes, InList!ListKeys, InList!Null, InList!HeadNode
<1> HIDE DEF nx, x, l
<1>6. CASE nx < cursor.target
  <2>1. nx \in Linked(l) /\ nx \in 0 .. LastListKey
    BY <1>3, <1>4, <1>6, ListConstants
  <2>2. /\ cursor' \in Cursor /\ cursor'.x = nx /\ cursor'.op = cursor.op
        /\ cursor'.node = cursor.node /\ cursor'.target = cursor.target
        /\ cursor'.level = l /\ cursor'.had = cursor.had
        /\ cursor'.least = cursor.least
    BY <1>1, <1>2, <1>6, <2>1 DEF Cursor, l
  <2>3. nx \in Nodes(l)
    BY <2>1 DEF Nodes
  <2>4. l # -1
    BY <1>0, <1>3
  <2>5. Walking'
    BY <1>1, <1>3, <1>5, <1>6, <2>2, <2>3, <2>4 DEF Walking
  <2> QED BY <1>1, <1>2, <2>2, <2>5, ReaderKeeps
<1>7. CASE ~(nx < cursor.target) /\ l > 0
  <2>1. l - 1 \in InList!ListLevels /\ x \in Nodes(l - 1)
    <3>1. heights \in [InList!ListKeys -> 0 .. MaxHeight]
      BY DEF ListInv, InList!TypeOK
    <3>2. insert # InList!NoInsert => insert.level \in Int
      BY DEF ListInv, InsertFound
    <3>3. insert.key \in InList!ListKeys => insert # InList!NoInsert
      BY ListConstants DEF InList!NoInsert
    <3> QED BY <1>3, <1>7, <3>1, <3>2, <3>3, LinkedBelow
  <2>2. l - 1 \in Int /\ l - 1 \in -1 .. MaxHeight - 1 /\ l - 1 # -1
    BY <2>1, <1>3, ListConstants
  <2>3. /\ cursor' \in Cursor /\ cursor'.x = x /\ cursor'.op = cursor.op
        /\ cursor'.node = cursor.node /\ cursor'.target = cursor.target
        /\ cursor'.level = l - 1 /\ cursor'.had = cursor.had
        /\ cursor'.least = cursor.least
    BY <1>1, <1>2, <1>7, <2>2 DEF Cursor, x
  <2>4. Walking'
    BY <1>1, <1>3, <1>5, <2>1, <2>2, <2>3 DEF Walking
  <2> QED BY <1>1, <1>2, <2>3, <2>4, ReaderKeeps
<1>8. CASE ~(nx < cursor.target) /\ ~(l > 0)
  <2>1. l = 0
    BY <1>0, <1>3, <1>8
  <2>2. InList!Found(x, nx) \in Linked(0) \cup {InList!Null}
    BY <1>3, <1>4, <2>1 DEF InList!Found, Nodes
  <2>3. InList!Found(x, nx) \in 1 .. LastListKey + 2
    BY <2>2, ListConstants DEF Linked
  <2>4. /\ cursor' \in Cursor /\ cursor'.op = ""
        /\ cursor'.node = InList!Found(x, nx) /\ cursor'.target = cursor.target
        /\ cursor'.had = cursor.had
    <3>1. cursor' = [cursor EXCEPT !.op = "", !.level = 0,
                                   !.node = InList!Found(x, nx)]
      BY <1>1, <1>8
    <3>2. 0 \in Int
      OBVIOUS
    <3> HIDE DEF Cursor
    <3> QED BY <1>2, <2>3, <3>1, <3>2 DEF Cursor
  <2>5. ListInv'
    BY <1>1, <2>2, <2>4, ReaderKeeps
  <2>a. nx = links[x][0] /\ x \in Nodes(0)
    BY <1>3, <2>1 DEF nx
  <2>b. nx >= cursor.target /\ x < cursor.target
    BY <1>3, <1>4, <1>8
  <2>6. nx = links[x][0] /\ x \in Nodes(0) /\ nx >= cursor'.target /\ x < cursor'.target
    BY <2>a, <2>b, <2>4
  <2>7. /\ cursor'.node = nx => InList!Upward(cursor')
        /\ cursor'.node = (IF x = InList!HeadNode THEN InList!Null ELSE x)
             => InList!Downward(cursor')
    <3>1. cursor'.had \subseteq Linked(0) /\ cursor'.target \in 1 .. InList!Null
      BY <1>3, <2>4
    <3> QED BY <2>6, <3>1, EndsRight
  <2>8. CASE cursor.op = "seek"
    BY <2>4, <2>5, <2>7, <2>8 DEF InList!Found
  <2>9. CASE cursor.op \in {"prev", "last"}
    BY <2>4, <2>5, <2>7, <2>9 DEF InList!Found
  <2>10. cursor.op \in {"seek", "prev", "last"}
    BY <1>1, <1>2 DEF Cursor
  <2> QED BY <2>8, <2>9, <2>10
<1>9. cursor.op # ""
  BY <1>1
<1> QED BY <1>6, <1>7, <1>8

LEMMA LoadKeeps ==
  ASSUME ListInv, NEW x \in Nodes(0), InList!Load(x)
  PROVE  ListInv' /\ cursor.op = "" /\ cursor'.op = "" /\ InList!Upward(cursor')
<1>1. /\ cursor.op = "" /\ links' = links /\ heights' = heights
      /\ maxHeight' = maxHeight /\ insert' = insert
      /\ cursor' = [InList!NoCursor EXCEPT !.node = links[x][0], !.x = x,
                                   !.had = InList!Published, !.target = x + 1]
  BY DEF InList!Load
<1>2. 0 \in InList!ListLevels /\ InList!Null \in Int
  BY ListConstants
<1>3. /\ links[x][0] \in Linked(0) \cup {InList!Null} /\ x < links[x][0]
      /\ links[x][0] \in 1 .. InList!Null /\ x \in 0 .. LastListKey
  BY <1>2, LinkRead
<1>4. links[x][0] \in 1 .. LastListKey + 2 /\ x + 1 \in 1 .. InList!Null
      /\ x + 1 \in Int /\ x < x + 1 /\ links[x][0] >= x + 1
  BY <1>3, ListConstants
<1>5. InList!Published \subseteq Linked(0) /\ InList!Published \subseteq InList!ListKeys
  BY PublishedAreLinked DEF InList!Published
<1>6. /\ cursor' \in Cursor /\ cursor'.op = "" /\ cursor'.node = links[x][0]
      /\ cursor'.target = x + 1 /\ cursor'.had = InList!Published
  <2>1. InList!NoCursor \in Cursor /\ InList!NoCursor.op = ""
    <3>1. /\ LastListKey + 1 \in 1 .. LastListKey + 2 /\ 0 \in 0 .. LastListKey
          /\ 0 \in Int /\ 1 \in Int /\ InList!Null = LastListKey + 1
          /\ InList!HeadNode = 0
      BY ListConstants
    <3> QED BY <3>1 DEF InList!NoCursor, Cursor
  <2>2. InList!Published \in SUBSET InList!ListKeys
    BY <1>5
  <2> QED BY <1>1, <1>3, <1>4, <2>1, <2>2 DEF Cursor
<1>7. ListInv'
  BY <1>1, <1>3, <1>6, ReaderKeeps
<1>8. InList!Upward(cursor')
  BY <1>4, <1>5, <1>6, EndsRight
<1> QED BY <1>1, <1>6, <1>7, <1>8

LEMMA ListNext ==
  ASSUME ListInv, InList!Next
  PROVE  ListInv' /\ InList!ListStep
<1>1. ASSUME ListInv'
      PROVE  cursor'.node \in ({InList!Null} \cup {k \in InList!ListKeys : heights[k] > 0})'
  BY <1>1 DEF ListInv, CursorStands, Linked
<1>2. ASSUME ListInv', cursor' = cursor
      PROVE  InList!ListStep
  BY <1>1, <1>2 DEF InList!ListStep, InList!Null, InList!ListKeys
<1>3. ASSUME ListInv', cursor'.op # ""
      PROVE  InList!ListStep
  BY <1>1, <1>3 DEF InList!ListStep, InList!Null, InList!ListKeys
<1>4. ASSUME NEW k \in InList!ListKeys, NEW h \in 1 .. MaxHeight, InList!StartInsert(k, h)
      PROVE  ListInv' /\ InList!ListStep
  BY <1>2, <1>4, StartInsertKeeps DEF InList!StartInsert
<1>5. CASE InList!LinkNode
  BY <1>2, <1>5, LinkNodeKeeps DEF InList!LinkNode
<1>6. ASSUME NEW k \in InList!ListKeys, InList!Seek(k)
      PROVE  ListInv' /\ InList!ListStep
  <2>1. k \in 1 .. InList!Null
    BY ListConstants
  <2> QED BY <1>3, <1>6, <2>1, StartKeeps DEF InList!Seek
<1>7. CASE InList!IterPrev
  <2>1. cursor.node \in 1 .. InList!Null
    <3>1. cursor.node \in Linked(0)
      BY <1>7 DEF ListInv, CursorStands, InList!IterPrev
    <3> QED BY <3>1, ListConstants DEF Linked
  <2> QED BY <1>3, <1>7, <2>1, StartKeeps DEF InList!IterPrev
<1>8. CASE InList!SeekToLast
  <2>1. InList!Null \in 1 .. InList!Null
    BY ListConstants
  <2> QED BY <1>3, <1>8, <2>1, StartKeeps DEF InList!SeekToLast
<1>9. CASE InList!GetMaxHeight
  BY <1>3, <1>9, GetMaxHeightKeeps
<1>10. CASE InList!Walk
  BY <1>1, <1>10, WalkKeeps DEF InList!ListStep, InList!Null, InList!ListKeys
<1>11. ASSUME NEW x \in Nodes(0), InList!Load(x)
       PROVE  ListInv' /\ InList!ListStep
  <2>1. ListInv' /\ cursor.op = "" /\ InList!Upward(cursor')
    BY <1>11, LoadKeeps
  <2> QED BY <1>1, <2>1 DEF InList!ListStep, InList!Null, InList!ListKeys
<1>12. CASE InList!IterNext
  <2>1. cursor.node \in Nodes(0)
    BY <1>12 DEF ListInv, CursorStands, InList!IterNext, Nodes
  <2> QED BY <1>11, <1>12, <2>1 DEF InList!IterNext
<1>13. CASE InList!SeekToFirst
  <2>1. InList!HeadNode \in Nodes(0)
    BY DEF Nodes
  <2> QED BY <1>11, <1>13, <2>1 DEF InList!SeekToFirst
<1> QED BY <1>4, <1>5, <1>6, <1>7, <1>8, <1>9, <1>10, <1>12, <1>13 DEF InList!Next

LEMMA ListStutters ==
  ASSUME ListInv, UNCHANGED inList
  PROVE  ListInv' /\ InList!ListStep
<1>1. ListInv'
  BY DEF inList, ListInv, InList!TypeOK, LinksLead, Leads, Nodes, Linked, InsertFound,
     Before, CursorStands, Cursor, Walking, InList!ListLevels, InList!ListKeys,
     InList!Null, InList!Unset, InList!HeadNode, InList!NoInsert
<1>2. cursor'.node \in ({InList!Null} \cup {k \in InList!ListKeys : heights[k] > 0})'
  BY <1>1 DEF ListInv, CursorStands, Linked
<1>3. cursor' = cursor
  BY DEF inList
<1> QED BY <1>1, <1>2, <1>3 DEF InList!ListStep, InList!Null, InList!ListKeys

(* A step of the storage is a step of the list or leaves it alone.         *)
LEMMA ListInStorage ==
  ASSUME [Next]_vars
  PROVE  InList!Next \/ UNCHANGED inList
BY DEF Next, vars

(* A reader of the list never follows a link that was not written: what    *)
(* holds of the list's state at every step of the writer.                  *)
THEOREM ListInvHolds == Spec => []ListInv
<1>1. Init => ListInv
  BY ListInit DEF Init
<1>2. ListInv /\ [Next]_vars => ListInv'
  BY ListInStorage, ListNext, ListStutters
<1> QED BY <1>1, <1>2, PTL DEF Spec

(* Seek, Next, Prev and SeekToLast of a memtable's iterator end at a node  *)
(* that is in the list, and pass over no key whose Insert had ended when   *)
(* they began, for any keys and heights and however the writer's stores    *)
(* fall between the reader's loads.                                        *)
THEOREM ListFindsAll == Spec => ListFindsInserted
<1>1. ListInv /\ [Next]_vars => [InList!ListStep]_(InList!vars)
  BY ListInStorage, ListNext, ListStutters
<1> QED BY <1>1, ListInvHolds, PTL DEF Spec, ListFindsInserted, InList!ListFindsInserted

-----------------------------------------------------------------------------
(* The cache: its inductive invariant.                                     *)

CacheEntry == [table : CachedTables \cup {0}, refs : Nat, inCache : BOOLEAN]
CacheRecord ==
  [entries : [InCache!Ids -> CacheEntry], lru : Seq(InCache!Ids),
   inUse : SUBSET InCache!Ids, hash : [CachedTables -> InCache!Ids \cup {0}],
   usage : Int]
Holding == [InCache!Ids -> SUBSET Clients]

(* The entry e of the cache c, when h tells who holds which entry.         *)
EntryRight(c, h, e) ==
  /\ c.entries[e].refs = Cardinality(h[e]) + (IF c.entries[e].inCache THEN 1 ELSE 0)
  /\ e \in c.inUse <=> c.entries[e].inCache /\ h[e] # {}
  /\ e \in InCache!ToSet(c.lru) <=> c.entries[e].inCache /\ h[e] = {}

(* The table leads to the entries in the cache, but to the one, x, that is *)
(* being erased.                                                           *)
HashRight(c, x) ==
  /\ \A e \in InCache!Ids : e # x /\ c.entries[e].inCache =>
       c.entries[e].table \in CachedTables /\ c.hash[c.entries[e].table] = e
  /\ \A t \in CachedTables : c.hash[t] # 0 =>
       c.hash[t] # x /\ c.entries[c.hash[t]].inCache /\ c.entries[c.hash[t]].table = t
  /\ x # 0 => c.entries[x].inCache

Cached(c) == {e \in InCache!Ids : c.entries[e].inCache}

Fits(c, h, x) ==
  /\ c \in CacheRecord /\ \A e \in InCache!Ids : EntryRight(c, h, e)
  /\ InCache!IsInjective(c.lru) /\ c.usage = Cardinality(Cached(c)) /\ HashRight(c, x)

LEMMA CacheConstants ==
  /\ IsFiniteSet(Clients) /\ Cardinality(Clients) \in Nat
  /\ MaxCached \in Nat /\ InCache!Ids = 1 .. MaxCached /\ IsFiniteSet(InCache!Ids)
  /\ InCache!None = 0 /\ InCache!Free = [table |-> 0, refs |-> 0, inCache |-> FALSE]
  /\ CachedTables \subseteq Nat /\ 0 \notin CachedTables /\ 0 \notin InCache!Ids
  /\ InCache!Cardinality(Clients) = Cardinality(Clients)
<1>1. InCache!Cardinality(Clients) = Cardinality(Clients)
  BY DEF InCache!Cardinality, Cardinality
<1>2. IsFiniteSet(Clients)
  BY StorageAssumption DEF InCache!TableCacheAssumption, InCache!IsFiniteSet, IsFiniteSet
<1>3. /\ MaxCached \in Nat /\ CachedTables \subseteq Nat /\ 0 \notin CachedTables
      /\ InCache!Ids = 1 .. MaxCached /\ InCache!None = 0
      /\ InCache!Free = [table |-> 0, refs |-> 0, inCache |-> FALSE]
  BY StorageAssumption DEF InCache!TableCacheAssumption, InCache!Ids, InCache!None,
     InCache!Free
<1>4. 0 \notin InCache!Ids
  BY <1>3
<1> QED BY <1>1, <1>2, <1>3, <1>4, FS_CardinalityType, FS_Interval

(* What is held of an entry is a number of clients.                        *)
LEMMA HeldIsFinite ==
  ASSUME NEW h \in Holding, NEW e \in InCache!Ids
  PROVE  /\ IsFiniteSet(h[e]) /\ Cardinality(h[e]) \in Nat
         /\ Cardinality(h[e]) = 0 <=> h[e] = {}
<1>1. h[e] \in SUBSET Clients
  BY DEF Holding
<1> QED BY <1>1, CacheConstants, FS_Subset, FS_CardinalityType, FS_EmptySet

LEMMA RemoveFirstIs ==
  ASSUME NEW S, NEW s \in Seq(S), NEW e, InCache!IsInjective(s)
  PROVE  LET r == InCache!RemoveFirst(s, e) IN
         /\ r \in Seq(S) /\ InCache!IsInjective(r)
         /\ InCache!ToSet(r) = InCache!ToSet(s) \ {e}
<1> DEFINE r == InCache!RemoveFirst(s, e)
<1>0. DOMAIN s = 1 .. Len(s) /\ Len(s) \in Nat
  OBVIOUS
<1>1. CASE ~\E i \in 1 .. Len(s) : s[i] = e
  <2>1. r = s
    BY <1>1 DEF InCache!RemoveFirst
  <2>2. e \notin InCache!ToSet(s)
    BY <1>0, <1>1 DEF InCache!ToSet
  <2> QED BY <2>1, <2>2
<1>2. ASSUME NEW i \in 1 .. Len(s), s[i] = e
      PROVE  /\ r \in Seq(S) /\ InCache!IsInjective(r)
             /\ InCache!ToSet(r) = InCache!ToSet(s) \ {e}
  <2>1. {j \in 1 .. Len(s) : s[j] = e} = {i}
    BY <1>0, <1>2 DEF InCache!IsInjective
  <2>2. InCache!Min({i}) = i
    BY DEF InCache!Min
  <2>3. InCache!SelectInSeq(s, LAMBDA v : v = e) = i
    BY <2>1, <2>2 DEF InCache!SelectInSeq
  <2>4. r = SubSeq(s, 1, i - 1) \o SubSeq(s, i + 1, Len(s))
    BY <1>2, <2>3 DEF InCache!RemoveFirst, InCache!RemoveAt
  <2> DEFINE a == SubSeq(s, 1, i - 1)
             b == SubSeq(s, i + 1, Len(s))
  <2>5. /\ a \in Seq(S) /\ Len(a) = i - 1 /\ \A j \in 1 .. i - 1 : a[j] = s[j]
        /\ b \in Seq(S) /\ Len(b) = Len(s) - i
        /\ \A j \in 1 .. Len(s) - i : b[j] = s[i + j]
    OBVIOUS
  <2> HIDE DEF a, b, r
  <2>6. /\ r \in Seq(S) /\ Len(r) = Len(s) - 1
        /\ \A j \in 1 .. Len(s) - 1 : r[j] = IF j < i THEN s[j] ELSE s[j + 1]
    <3>1. r = a \o b
      BY <2>4 DEF a, b
    <3>2. /\ r \in Seq(S) /\ Len(r) = Len(a) + Len(b)
          /\ \A j \in 1 .. Len(a) + Len(b) :
               r[j] = IF j <= Len(a) THEN a[j] ELSE b[j - Len(a)]
      BY <2>5, <3>1, ConcatProperties
    <3>3. Len(r) = Len(s) - 1 /\ i \in Int /\ Len(s) \in Int
      BY <1>0, <2>5, <3>2
    <3>4. ASSUME NEW j \in 1 .. Len(s) - 1
          PROVE  r[j] = IF j < i THEN s[j] ELSE s[j + 1]
      <4>1. r[j] = IF j <= i - 1 THEN a[j] ELSE b[j - (i - 1)]
        BY <2>5, <3>2, <3>3
      <4>2. CASE j < i
        BY <1>2, <2>5, <4>1, <4>2
      <4>3. CASE ~(j < i)
        <5>1. j - (i - 1) \in 1 .. Len(s) - i /\ ~(j <= i - 1)
              /\ i + (j - (i - 1)) = j + 1
          BY <1>0, <1>2, <4>3
        <5> QED BY <2>5, <4>1, <4>3, <5>1
      <4> QED BY <4>2, <4>3
    <3> QED BY <3>2, <3>3, <3>4
  <2>7. DOMAIN r = 1 .. Len(s) - 1
    BY <2>6
  <2>8. InCache!IsInjective(r)
    <3> SUFFICES ASSUME NEW j \in 1 .. Len(s) - 1, NEW k \in 1 .. Len(s) - 1, r[j] = r[k]
                 PROVE  j = k
      BY <2>7 DEF InCache!IsInjective
    <3> DEFINE J == IF j < i THEN j ELSE j + 1
               K == IF k < i THEN k ELSE k + 1
    <3>1. J \in 1 .. Len(s) /\ K \in 1 .. Len(s) /\ (J = K => j = k)
      BY <1>0, <1>2
    <3>2. r[j] = s[J] /\ r[k] = s[K]
      BY <2>6
    <3> QED BY <1>0, <3>1, <3>2 DEF InCache!IsInjective
  <2>9. ASSUME NEW y \in InCache!ToSet(r) PROVE y \in InCache!ToSet(s) \ {e}
    <3>1. PICK j \in 1 .. Len(s) - 1 : y = r[j]
      BY <2>7, <2>9 DEF InCache!ToSet
    <3> DEFINE J == IF j < i THEN j ELSE j + 1
    <3>2. J \in 1 .. Len(s) /\ J # i /\ y = s[J]
      BY <1>0, <1>2, <2>6, <3>1
    <3> QED BY <1>0, <1>2, <3>2 DEF InCache!IsInjective, InCache!ToSet
  <2>10. ASSUME NEW y \in InCache!ToSet(s) \ {e} PROVE y \in InCache!ToSet(r)
    <3>1. PICK j \in 1 .. Len(s) : y = s[j] /\ j # i
      BY <1>0, <1>2, <2>10 DEF InCache!ToSet
    <3> DEFINE J == IF j < i THEN j ELSE j - 1
    <3>2. J \in 1 .. Len(s) - 1 /\ y = r[J]
      BY <1>0, <1>2, <2>6, <3>1
    <3> QED BY <2>7, <3>2 DEF InCache!ToSet
  <2> QED BY <2>6, <2>8, <2>9, <2>10
<1> QED BY <1>1, <1>2

LEMMA AppendIs ==
  ASSUME NEW S, NEW s \in Seq(S), NEW e \in S, InCache!IsInjective(s),
         e \notin InCache!ToSet(s)
  PROVE  /\ Append(s, e) \in Seq(S) /\ InCache!IsInjective(Append(s, e))
         /\ InCache!ToSet(Append(s, e)) = InCache!ToSet(s) \cup {e}
<1> DEFINE r == Append(s, e)
<1>1. /\ r \in Seq(S) /\ Len(r) = Len(s) + 1 /\ Len(s) \in Nat
      /\ \A i \in 1 .. Len(s) : r[i] = s[i] /\ s[i] # e
      /\ r[Len(s) + 1] = e
  BY AppendProperties DEF InCache!ToSet
<1>2. DOMAIN r = 1 .. Len(s) + 1 /\ DOMAIN s = 1 .. Len(s)
  BY <1>1
<1> HIDE DEF r
<1>3. InCache!IsInjective(r)
  <2> SUFFICES ASSUME NEW i \in 1 .. Len(s) + 1, NEW j \in 1 .. Len(s) + 1, r[i] = r[j]
               PROVE  i = j
    BY <1>2 DEF InCache!IsInjective
  <2>1. CASE i \in 1 .. Len(s) /\ j \in 1 .. Len(s)
    BY <1>1, <1>2, <2>1 DEF InCache!IsInjective
  <2>2. CASE i = Len(s) + 1 \/ j = Len(s) + 1
    BY <1>1, <2>2
  <2> QED BY <1>1, <2>1, <2>2
<1>4. InCache!ToSet(r) = InCache!ToSet(s) \cup {e}
  <2>1. ASSUME NEW y \in InCache!ToSet(r) PROVE y \in InCache!ToSet(s) \cup {e}
    <3>1. PICK i \in 1 .. Len(s) + 1 : y = r[i]
      BY <1>2, <2>1 DEF InCache!ToSet
    <3>2. i \in 1 .. Len(s) \/ i = Len(s) + 1
      BY <1>1
    <3> QED BY <1>1, <1>2, <3>1, <3>2 DEF InCache!ToSet
  <2>2. ASSUME NEW y \in InCache!ToSet(s) \cup {e} PROVE y \in InCache!ToSet(r)
    <3>1. CASE y = e
      BY <1>1, <1>2, <3>1 DEF InCache!ToSet
    <3>2. CASE y # e
      <4>1. PICK i \in 1 .. Len(s) : y = s[i]
        BY <1>2, <2>2, <3>2 DEF InCache!ToSet
      <4> QED BY <1>1, <1>2, <4>1 DEF InCache!ToSet
    <3> QED BY <3>1, <3>2
  <2> QED BY <2>1, <2>2
<1> QED BY <1>1, <1>3, <1>4 DEF r

(* The entries of a cache are right after a step that changes one.         *)
LEMMA OneEntryChanged ==
  ASSUME NEW c, NEW d, NEW h, NEW g, NEW x, NEW e \in InCache!Ids,
         Fits(c, h, x), EntryRight(d, g, e),
         c.entries[e].inCache \in BOOLEAN, d.entries[e].inCache \in BOOLEAN,
         d.usage = c.usage + (IF d.entries[e].inCache THEN 1 ELSE 0)
                           - (IF c.entries[e].inCache THEN 1 ELSE 0),
         d.inUse \cup {e} = c.inUse \cup {e},
         InCache!ToSet(d.lru) \cup {e} = InCache!ToSet(c.lru) \cup {e},
         \A y \in InCache!Ids \ {e} : d.entries[y] = c.entries[y] /\ g[y] = h[y]
  PROVE  /\ \A y \in InCache!Ids : EntryRight(d, g, y)
         /\ d.usage = Cardinality(Cached(d))
<1>1. ASSUME NEW y \in InCache!Ids PROVE EntryRight(d, g, y)
  <2>1. CASE y # e
    <3>1. EntryRight(c, h, y)
      BY DEF Fits
    <3>2. d.entries[y] = c.entries[y] /\ g[y] = h[y]
      BY <2>1
    <3>3. (y \in d.inUse <=> y \in c.inUse)
          /\ (y \in InCache!ToSet(d.lru) <=> y \in InCache!ToSet(c.lru))
      BY <2>1
    <3> QED BY <3>1, <3>2, <3>3 DEF EntryRight
  <2> QED BY <2>1
<1>2. d.usage = Cardinality(Cached(d))
  <2>1. /\ IsFiniteSet(Cached(c)) /\ IsFiniteSet(Cached(d))
        /\ Cardinality(Cached(c)) \in Nat /\ c.usage = Cardinality(Cached(c))
    <3>1. Cached(c) \in SUBSET InCache!Ids /\ Cached(d) \in SUBSET InCache!Ids
      BY DEF Cached
    <3> QED BY <3>1, CacheConstants, FS_Subset, FS_CardinalityType DEF Fits
  <2>2. CASE d.entries[e].inCache /\ ~c.entries[e].inCache
    <3>1. Cached(d) = Cached(c) \cup {e} /\ e \notin Cached(c)
      BY <2>2 DEF Cached
    <3> QED BY <2>1, <2>2, <3>1, FS_AddElement
  <2>3. CASE ~d.entries[e].inCache /\ c.entries[e].inCache
    <3>1. Cached(d) = Cached(c) \ {e} /\ e \in Cached(c)
      BY <2>3 DEF Cached
    <3> QED BY <2>1, <2>3, <3>1, FS_RemoveElement
  <2>4. CASE d.entries[e].inCache = c.entries[e].inCache
    <3>1. Cached(d) = Cached(c)
      BY <2>4 DEF Cached
    <3> QED BY <2>1, <2>4, <3>1
  <2> QED BY <2>2, <2>3, <2>4
<1> QED BY <1>1, <1>2

(* A client p takes, or gives back, what another may hold too.             *)
Holds(h, e, p) == [h EXCEPT ![e] = @ \cup {p}]
Drops(h, e, p) == [h EXCEPT ![e] = @ \ {p}]

LEMMA HoldsIs ==
  ASSUME NEW h \in Holding, NEW e \in InCache!Ids, NEW p \in Clients
  PROVE  /\ Holds(h, e, p) \in Holding /\ Holds(h, e, p)[e] = h[e] \cup {p}
         /\ \A y \in InCache!Ids \ {e} : Holds(h, e, p)[y] = h[y]
BY DEF Holds, Holding

LEMMA DropsIs ==
  ASSUME NEW h \in Holding, NEW e \in InCache!Ids, NEW p \in Clients
  PROVE  /\ Drops(h, e, p) \in Holding /\ Drops(h, e, p)[e] = h[e] \ {p}
         /\ \A y \in InCache!Ids \ {e} : Drops(h, e, p)[y] = h[y]
BY DEF Drops, Holding

LEMMA HeldCounts ==
  ASSUME NEW h \in Holding, NEW e \in InCache!Ids, NEW p \in Clients
  PROVE  /\ p \notin h[e] => Cardinality(h[e] \cup {p}) = Cardinality(h[e]) + 1
         /\ p \in h[e] => Cardinality(h[e] \ {p}) = Cardinality(h[e]) - 1
<1>1. IsFiniteSet(h[e])
  BY HeldIsFinite
<1>2. Cardinality(h[e] \cup {p}) = IF p \in h[e] THEN Cardinality(h[e]) ELSE Cardinality(h[e]) + 1
  BY <1>1, FS_AddElement
<1>3. Cardinality(h[e] \ {p}) = IF p \in h[e] THEN Cardinality(h[e]) - 1 ELSE Cardinality(h[e])
  BY <1>1, FS_RemoveElement
<1> QED BY <1>2, <1>3

LEMMA RecordIs ==
  ASSUME NEW c \in CacheRecord
  PROVE  /\ c.entries \in [InCache!Ids -> CacheEntry] /\ c.lru \in Seq(InCache!Ids)
         /\ c.inUse \in SUBSET InCache!Ids /\ c.usage \in Int
         /\ c.hash \in [CachedTables -> InCache!Ids \cup {0}]
         /\ c = [entries |-> c.entries, lru |-> c.lru, inUse |-> c.inUse,
                  hash |-> c.hash, usage |-> c.usage]
         /\ \A e \in InCache!Ids :
              /\ c.entries[e].table \in CachedTables \cup {0}
              /\ c.entries[e].refs \in Nat /\ c.entries[e].inCache \in BOOLEAN
              /\ c.entries[e] = [table |-> c.entries[e].table, refs |-> c.entries[e].refs,
                                  inCache |-> c.entries[e].inCache]
<1>1. ASSUME NEW r \in CacheEntry
      PROVE  /\ r.table \in CachedTables \cup {0} /\ r.refs \in Nat /\ r.inCache \in BOOLEAN
             /\ r = [table |-> r.table, refs |-> r.refs, inCache |-> r.inCache]
  BY DEF CacheEntry
<1>2. c.entries \in [InCache!Ids -> CacheEntry]
  BY DEF CacheRecord
<1> QED BY <1>1, <1>2 DEF CacheRecord

LEMMA CountIs ==
  ASSUME NEW k \in CacheEntry, NEW n
  PROVE  [k EXCEPT !.refs = n] = [table |-> k.table, refs |-> n, inCache |-> k.inCache]
BY DEF CacheEntry

LEMMA HashStays ==
  ASSUME NEW c \in CacheRecord, NEW d, NEW x, HashRight(c, x), d.hash = c.hash,
         x \in InCache!Ids \cup {0},
         \A e \in InCache!Ids : /\ d.entries[e].table = c.entries[e].table
                               /\ d.entries[e].inCache = c.entries[e].inCache
  PROVE  HashRight(d, x)
<1>1. \A t \in CachedTables : c.hash[t] # 0 => c.hash[t] \in InCache!Ids
  BY DEF CacheRecord
<1>2. x # 0 /\ x \in InCache!Ids => d.entries[x].inCache
  BY DEF HashRight
<1>3. ASSUME NEW t \in CachedTables, d.hash[t] # 0
      PROVE  d.hash[t] # x /\ d.entries[d.hash[t]].inCache /\ d.entries[d.hash[t]].table = t
  BY <1>1, <1>3 DEF HashRight
<1>4. ASSUME NEW e \in InCache!Ids, e # x /\ d.entries[e].inCache
      PROVE  d.entries[e].table \in CachedTables /\ d.hash[d.entries[e].table] = e
  BY <1>4 DEF HashRight
<1> QED BY <1>2, <1>3, <1>4 DEF HashRight

(* The table of a record that is held does not change.                     *)
KeepsTables(c, d, h) ==
  \A y \in InCache!Ids : h[y] # {} => d.entries[y].table = c.entries[y].table

(* A lookup that finds e, held by p from now on.                           *)
LEMMA RefKeeps ==
  ASSUME NEW c, NEW h \in Holding, NEW e \in InCache!Ids, NEW p \in Clients,
         Fits(c, h, 0), c.entries[e].inCache, p \notin h[e]
  PROVE  /\ Fits(InCache!Ref(c, e), Holds(h, e, p), 0)
         /\ InCache!Ref(c, e).usage = c.usage
         /\ KeepsTables(c, InCache!Ref(c, e), Holds(h, e, p))
<1> DEFINE d == InCache!Ref(c, e)
           g == Holds(h, e, p)
           n == Cardinality(h[e])
           entry == [table |-> c.entries[e].table, refs |-> n + 2, inCache |-> TRUE]
           entries == [c.entries EXCEPT ![e] = entry]
           lru == IF n = 0 THEN InCache!RemoveFirst(c.lru, e) ELSE c.lru
<1>0. p \notin h[e] /\ h \in Holding
  OBVIOUS
<1>1. /\ c \in CacheRecord /\ EntryRight(c, h, e) /\ InCache!IsInjective(c.lru)
      /\ c.entries[e].inCache = TRUE /\ HashRight(c, 0)
  BY DEF Fits, CacheRecord, CacheEntry
<1>2. n \in Nat /\ (n = 0 <=> h[e] = {})
  BY HeldIsFinite
<1>3. c.entries[e] = [table |-> c.entries[e].table, refs |-> n + 1, inCache |-> TRUE]
  <2>1. c.entries[e].refs = n + 1
    BY <1>1, <1>2 DEF EntryRight
  <2> QED BY <1>1, <2>1, RecordIs
<1>4. entry \in CacheEntry
  BY <1>1, <1>2, RecordIs DEF CacheEntry
<1>5. entries \in [InCache!Ids -> CacheEntry] /\ entries[e] = entry
      /\ \A y \in InCache!Ids \ {e} : entries[y] = c.entries[y]
  BY <1>1, <1>4, RecordIs
<1>6. /\ lru \in Seq(InCache!Ids) /\ InCache!IsInjective(lru)
      /\ InCache!ToSet(lru) = InCache!ToSet(c.lru) \ {e}
  <2>1. CASE n = 0
    BY <1>1, <2>1, RecordIs, RemoveFirstIs
  <2>2. CASE n # 0
    BY <1>1, <1>2, <2>2, RecordIs DEF EntryRight
  <2> QED BY <2>1, <2>2
<1>7. [c.entries[e] EXCEPT !.refs = @ + 1] = entry
  <2>1. c.entries[e].refs = n + 1 /\ n + 1 \in Int /\ n + 2 \in Int /\ (n + 1) + 1 = n + 2
    <3>1. c.entries[e].refs = n + 1
      BY <1>3
    <3> HIDE DEF n
    <3> QED BY <1>2, <3>1
  <2>2. [c.entries[e] EXCEPT !.refs = n + 2] = entry
    <3>1. c.entries[e] \in CacheEntry
      BY <1>1, RecordIs
    <3> QED BY <1>1, <3>1, CountIs
  <2> QED BY <2>1, <2>2
<1> HIDE DEF entry
<1>8. d = [c EXCEPT !.entries = entries, !.lru = lru, !.inUse = @ \cup {e}]
  <2>1. c.entries[e].refs = n + 1 /\ (n + 1 = 1 <=> n = 0)
    BY <1>2, <1>3
  <2>2. CASE n = 0
    <3>1. d = [c EXCEPT !.entries = entries, !.lru = InCache!RemoveFirst(c.lru, e),
                        !.inUse = (@ \ {e}) \cup {e}]
      <4> HIDE DEF n, lru
      <4> QED BY <1>1, <1>7, <2>1, <2>2 DEF InCache!Ref, InCache!LRURemove, CacheRecord
    <3>2. (c.inUse \ {e}) \cup {e} = c.inUse \cup {e}
      OBVIOUS
    <3> QED BY <2>2, <3>1, <3>2
  <2>3. CASE n # 0
    <3>1. c.inUse = c.inUse \cup {e}
      BY <1>1, <1>2, <2>3 DEF EntryRight
    <3>2. d = [c EXCEPT !.entries = entries]
      <4> HIDE DEF n, lru
      <4> QED BY <1>1, <1>7, <2>1, <2>3 DEF InCache!Ref
    <3>3. c = [entries |-> c.entries, lru |-> c.lru, inUse |-> c.inUse,
               hash |-> c.hash, usage |-> c.usage]
      BY <1>1, RecordIs
    <3> HIDE DEF d, entries
    <3> QED BY <2>3, <3>1, <3>2, <3>3
  <2> QED BY <2>2, <2>3
<1> HIDE DEF entries, lru, d
<1>9. /\ d.entries = entries /\ d.lru = lru /\ d.inUse = c.inUse \cup {e}
      /\ d.hash = c.hash /\ d.usage = c.usage /\ d \in CacheRecord
  <2>1. c.inUse \cup {e} \in SUBSET InCache!Ids
    BY <1>1, RecordIs
  <2> QED BY <1>1, <1>5, <1>6, <1>8, <2>1 DEF CacheRecord
<1>11. g[e] # {} /\ Cardinality(g[e]) = n + 1
       /\ \A y \in InCache!Ids \ {e} : g[y] = h[y]
  <2>1. g[e] = h[e] \cup {p} /\ \A y \in InCache!Ids \ {e} : g[y] = h[y]
    BY HoldsIs
  <2>2. Cardinality(h[e] \cup {p}) = Cardinality(h[e]) + 1
    BY HeldCounts, <1>0
  <2> QED BY <2>1, <2>2
<1>12. entry.refs = n + 2 /\ entry.inCache = TRUE /\ entry.table = c.entries[e].table
  BY DEF entry
<1> HIDE DEF g, n
<1>13. EntryRight(d, g, e)
  BY <1>2, <1>5, <1>6, <1>9, <1>11, <1>12 DEF EntryRight
<1>14. /\ \A y \in InCache!Ids : EntryRight(d, g, y)
       /\ d.usage = Cardinality(Cached(d))
  <2>1. d.usage = c.usage + (IF d.entries[e].inCache THEN 1 ELSE 0)
                          - (IF c.entries[e].inCache THEN 1 ELSE 0)
    BY <1>1, <1>5, <1>9, <1>12, RecordIs
  <2>2. d.inUse \cup {e} = c.inUse \cup {e}
        /\ InCache!ToSet(d.lru) \cup {e} = InCache!ToSet(c.lru) \cup {e}
    BY <1>6, <1>9
  <2>3. \A y \in InCache!Ids \ {e} : d.entries[y] = c.entries[y] /\ g[y] = h[y]
    BY <1>5, <1>9, <1>11
  <2>4. c.entries[e].inCache \in BOOLEAN /\ d.entries[e].inCache \in BOOLEAN
    BY <1>1, <1>5, <1>9, <1>12
  <2> QED BY <1>13, <2>1, <2>2, <2>3, <2>4, OneEntryChanged
<1>15. \A y \in InCache!Ids : d.entries[y].table = c.entries[y].table
                             /\ d.entries[y].inCache = c.entries[y].inCache
  BY <1>1, <1>5, <1>9, <1>12
<1>16. HashRight(d, 0)
  BY <1>1, <1>9, <1>15, HashStays
<1>17. Fits(d, g, 0)
  BY <1>6, <1>9, <1>14, <1>16 DEF Fits
<1> QED BY <1>9, <1>15, <1>17 DEF d, g, KeepsTables

LEMMA FreeIsEntry == InCache!Free \in CacheEntry
BY CacheConstants DEF CacheEntry

(* A release: the last lets go of the entry, the last but the cache makes  *)
(* it the newest of lru.                                                   *)
LEMMA UnrefKeeps ==
  ASSUME NEW c, NEW h \in Holding, NEW e \in InCache!Ids, NEW p \in Clients,
         Fits(c, h, 0), p \in h[e]
  PROVE  /\ Fits(InCache!Unref(c, e), Drops(h, e, p), 0)
         /\ InCache!Unref(c, e).usage = c.usage
         /\ KeepsTables(c, InCache!Unref(c, e), Drops(h, e, p))
<1> DEFINE d == InCache!Unref(c, e)
           g == Drops(h, e, p)
           n == Cardinality(h[e])
           in == c.entries[e].inCache
           left == c.entries[e].refs - 1
           entry == IF left = 0 THEN InCache!Free
                    ELSE [table |-> c.entries[e].table, refs |-> left, inCache |-> in]
           entries == [c.entries EXCEPT ![e] = entry]
           last == in /\ left = 1
           lru == IF last THEN Append(InCache!RemoveFirst(c.lru, e), e) ELSE c.lru
           inUse == IF last THEN c.inUse \ {e} ELSE c.inUse
<1>0. p \in h[e] /\ h \in Holding
  OBVIOUS
<1>1. /\ c \in CacheRecord /\ EntryRight(c, h, e) /\ InCache!IsInjective(c.lru)
      /\ HashRight(c, 0) /\ c.entries[e] \in CacheEntry
  BY RecordIs DEF Fits
<1>2. n \in Nat /\ n # 0 /\ h[e] # {}
  BY <1>0, HeldIsFinite
<1>3. in \in BOOLEAN /\ c.entries[e].refs \in Nat /\ c.entries[e].table \in CachedTables \cup {0}
  BY <1>1 DEF CacheEntry
<1>4. left = n - 1 + (IF in THEN 1 ELSE 0) /\ c.entries[e].refs = n + (IF in THEN 1 ELSE 0)
      /\ left \in Nat
  <2>1. c.entries[e].refs = n + (IF in THEN 1 ELSE 0)
    BY <1>1 DEF EntryRight
  <2> HIDE DEF n
  <2> QED BY <1>2, <2>1
<1>5. entry \in CacheEntry /\ entries \in [InCache!Ids -> CacheEntry] /\ entries[e] = entry
      /\ \A y \in InCache!Ids \ {e} : entries[y] = c.entries[y]
  <2>1. entry \in CacheEntry
    BY <1>3, <1>4, FreeIsEntry DEF CacheEntry
  <2> QED BY <1>1, <2>1, RecordIs
<1>6. g \in Holding /\ g[e] = h[e] \ {p} /\ Cardinality(g[e]) = n - 1
      /\ (n - 1 = 0 <=> g[e] = {}) /\ \A y \in InCache!Ids \ {e} : g[y] = h[y]
  <2>1. g \in Holding /\ g[e] = h[e] \ {p} /\ \A y \in InCache!Ids \ {e} : g[y] = h[y]
    BY DropsIs
  <2>2. Cardinality(h[e] \ {p}) = Cardinality(h[e]) - 1
    BY HeldCounts, <1>0
  <2>3. Cardinality(g[e]) = 0 <=> g[e] = {}
    BY <2>1, HeldIsFinite
  <2> QED BY <2>1, <2>2, <2>3
<1>7. /\ lru \in Seq(InCache!Ids) /\ InCache!IsInjective(lru)
      /\ InCache!ToSet(lru) = IF last THEN InCache!ToSet(c.lru) \cup {e}
                             ELSE InCache!ToSet(c.lru)
  <2>1. CASE last
    <3> DEFINE r == InCache!RemoveFirst(c.lru, e)
    <3>1. /\ r \in Seq(InCache!Ids) /\ InCache!IsInjective(r)
          /\ InCache!ToSet(r) = InCache!ToSet(c.lru) \ {e}
      BY <1>1, RecordIs, RemoveFirstIs
    <3>2. e \notin InCache!ToSet(r)
      BY <3>1
    <3> HIDE DEF r
    <3>3. Append(r, e) \in Seq(InCache!Ids) /\ InCache!IsInjective(Append(r, e))
          /\ InCache!ToSet(Append(r, e)) = InCache!ToSet(r) \cup {e}
      BY <3>1, <3>2, AppendIs
    <3> QED BY <2>1, <3>1, <3>3 DEF r
  <2>2. CASE ~last
    BY <1>1, <2>2, RecordIs
  <2> QED BY <2>1, <2>2
<1>8. d = [c EXCEPT !.entries = entries, !.lru = lru, !.inUse = inUse]
  <2>0. c = [entries |-> c.entries, lru |-> c.lru, inUse |-> c.inUse,
             hash |-> c.hash, usage |-> c.usage]
    BY <1>1, RecordIs
  <2>1. CASE left = 0
    <3>1. d = [c EXCEPT !.entries = entries] /\ ~last
      BY <2>1 DEF InCache!Unref
    <3> HIDE DEF d, entries, last
    <3> QED BY <2>0, <3>1
  <2>2. CASE left # 0
    <3>1. [c.entries[e] EXCEPT !.refs = left] = entry
      BY <1>1, <2>2, CountIs
    <3>2. CASE last
      <4>1. d = [c EXCEPT !.entries = entries, !.inUse = @ \ {e},
                          !.lru = Append(InCache!RemoveFirst(c.lru, e), e)]
        <5> HIDE DEF entry, lru, inUse
        <5> QED BY <1>1, <2>2, <3>1, <3>2 DEF InCache!Unref, InCache!LRURemove, CacheRecord
      <4> QED BY <3>2, <4>1
    <3>3. CASE ~last
      <4>1. d = [c EXCEPT !.entries = entries]
        <5> HIDE DEF entry, lru, inUse
        <5> QED BY <2>2, <3>1, <3>3 DEF InCache!Unref
      <4>2. lru = c.lru /\ inUse = c.inUse
        BY <3>3
      <4> HIDE DEF d, entries, lru, inUse, left
      <4> QED BY <2>0, <4>1, <4>2
    <3> QED BY <3>2, <3>3
  <2> QED BY <2>1, <2>2
<1>9. inUse \in SUBSET InCache!Ids /\ inUse \cup {e} = c.inUse \cup {e}
      /\ (e \in inUse <=> e \in c.inUse /\ ~last)
  BY <1>1, RecordIs
<1> HIDE DEF entries, lru, inUse, d
<1>10. /\ d.entries = entries /\ d.lru = lru /\ d.inUse = inUse
       /\ d.hash = c.hash /\ d.usage = c.usage /\ d \in CacheRecord
  BY <1>1, <1>5, <1>7, <1>8, <1>9 DEF CacheRecord
<1>11. entry.refs = left /\ (entry.inCache <=> in) /\ entry.inCache \in BOOLEAN
       /\ (left # 0 => entry.table = c.entries[e].table)
  <2>1. CASE left = 0
    <3>1. ~in
      BY <1>2, <1>3, <1>4, <2>1
    <3> QED BY <2>1, <3>1, CacheConstants
  <2>2. CASE left # 0
    BY <1>3, <2>2
  <2> QED BY <2>1, <2>2
<1>12. (in /\ n - 1 = 0 <=> last)
  BY <1>2, <1>3, <1>4
<1>13. EntryRight(d, g, e)
  <2>1. d.entries[e].refs = Cardinality(g[e]) + (IF d.entries[e].inCache THEN 1 ELSE 0)
    BY <1>3, <1>4, <1>5, <1>6, <1>10, <1>11
  <2>2. e \in c.inUse <=> in
    BY <1>1, <1>2 DEF EntryRight
  <2>3. e \notin InCache!ToSet(c.lru)
    BY <1>1, <1>2 DEF EntryRight
  <2>4. e \in d.inUse <=> in /\ g[e] # {}
    BY <1>6, <1>9, <1>10, <1>12, <2>2
  <2>5. e \in InCache!ToSet(d.lru) <=> in /\ g[e] = {}
    BY <1>6, <1>7, <1>10, <1>12, <2>3
  <2>6. d.entries[e].inCache <=> in
    BY <1>5, <1>10, <1>11
  <2> QED BY <2>1, <2>4, <2>5, <2>6 DEF EntryRight
<1> HIDE DEF g, n
<1>14. /\ \A y \in InCache!Ids : EntryRight(d, g, y)
       /\ d.usage = Cardinality(Cached(d))
  <2>1. d.usage = c.usage + (IF d.entries[e].inCache THEN 1 ELSE 0)
                          - (IF c.entries[e].inCache THEN 1 ELSE 0)
    BY <1>1, <1>5, <1>10, <1>11, RecordIs
  <2>2. d.inUse \cup {e} = c.inUse \cup {e}
        /\ InCache!ToSet(d.lru) \cup {e} = InCache!ToSet(c.lru) \cup {e}
    BY <1>7, <1>9, <1>10
  <2>3. \A y \in InCache!Ids \ {e} : d.entries[y] = c.entries[y] /\ g[y] = h[y]
    BY <1>5, <1>6, <1>10
  <2>4. c.entries[e].inCache \in BOOLEAN /\ d.entries[e].inCache \in BOOLEAN
    BY <1>3, <1>5, <1>10, <1>11
  <2> QED BY <1>13, <2>1, <2>2, <2>3, <2>4, OneEntryChanged
<1>15. HashRight(d, 0)
  <2>1. CASE left # 0
    <3>1. \A y \in InCache!Ids : d.entries[y].table = c.entries[y].table
                               /\ d.entries[y].inCache = c.entries[y].inCache
      BY <1>3, <1>5, <1>10, <1>11, <2>1
    <3> QED BY <1>1, <1>10, <3>1, HashStays
  <2>2. CASE left = 0
    <3>1. ~in /\ ~d.entries[e].inCache
      BY <1>2, <1>3, <1>4, <1>5, <1>10, <1>11, <2>2
    <3>2. \A t \in CachedTables : c.hash[t] # 0 => c.hash[t] \in InCache!Ids \ {e}
      BY <1>1, <3>1 DEF HashRight, CacheRecord
    <3>3. \A y \in InCache!Ids \ {e} : d.entries[y] = c.entries[y]
      BY <1>5, <1>10
    <3> QED BY <1>1, <1>10, <3>1, <3>2, <3>3 DEF HashRight
  <2> QED BY <2>1, <2>2
<1>16. Fits(d, g, 0)
  BY <1>7, <1>10, <1>14, <1>15 DEF Fits
<1>17. KeepsTables(c, d, g)
  <2>1. g[e] # {} => left # 0
    <3>1. CASE in
      BY <1>2, <1>4, <3>1
    <3>2. CASE ~in
      BY <1>2, <1>4, <1>6, <3>2
    <3> QED BY <3>1, <3>2
  <2> QED BY <1>5, <1>10, <1>11, <2>1 DEF KeepsTables
<1> QED BY <1>10, <1>16, <1>17 DEF d, g

LEMMA OutIs ==
  ASSUME NEW k \in CacheEntry, NEW b
  PROVE  [k EXCEPT !.inCache = b] = [table |-> k.table, refs |-> k.refs, inCache |-> b]
BY DEF CacheEntry

(* The entry that an erasure, a replacement or an eviction took out of the *)
(* table is freed with its last holder.                                    *)
LEMMA FinishEraseKeeps ==
  ASSUME NEW c, NEW h \in Holding, NEW e \in InCache!Ids, Fits(c, h, e)
  PROVE  /\ Fits(InCache!FinishErase(c, e), h, 0)
         /\ KeepsTables(c, InCache!FinishErase(c, e), h)
         /\ InCache!FinishErase(c, e).usage <= c.usage
<1> DEFINE d == InCache!FinishErase(c, e)
           n == Cardinality(h[e])
           T == c.entries[e].table
           out == [table |-> T, refs |-> c.entries[e].refs, inCache |-> FALSE]
           entry == IF n = 0 THEN InCache!Free
                    ELSE [table |-> T, refs |-> n, inCache |-> FALSE]
           outs == [c.entries EXCEPT ![e] = out]
           entries == [c.entries EXCEPT ![e] = entry]
           lru == InCache!RemoveFirst(c.lru, e)
           inUse == c.inUse \ {e}
           m == [c EXCEPT !.entries = outs, !.lru = lru, !.inUse = inUse, !.usage = @ - 1]
<1>1. /\ c \in CacheRecord /\ EntryRight(c, h, e) /\ InCache!IsInjective(c.lru)
      /\ HashRight(c, e) /\ c.entries[e] \in CacheEntry
  BY RecordIs DEF Fits
<1>2. n \in Nat /\ (n = 0 <=> h[e] = {})
  BY HeldIsFinite
<1>3. e # 0 /\ c.entries[e].inCache /\ c.entries[e].refs = n + 1
      /\ T \in CachedTables \cup {0}
  <2>1. e # 0
    BY CacheConstants
  <2>2. c.entries[e].inCache
    BY <1>1, <2>1 DEF HashRight
  <2> QED BY <1>1, <2>1, <2>2 DEF EntryRight, CacheEntry
<1>4. c.entries[e].refs - 1 = n /\ n + 1 \in Nat
  <2> HIDE DEF n
  <2> QED BY <1>2, <1>3
<1>5. /\ entry \in CacheEntry /\ out \in CacheEntry
      /\ entries \in [InCache!Ids -> CacheEntry] /\ entries[e] = entry
      /\ outs \in [InCache!Ids -> CacheEntry] /\ outs[e] = out
      /\ \A y \in InCache!Ids \ {e} : entries[y] = c.entries[y]
  <2>1. out \in CacheEntry
    BY <1>1 DEF CacheEntry
  <2>2. entry \in CacheEntry
    BY <1>2, <1>3, FreeIsEntry DEF CacheEntry
  <2> HIDE DEF out, entry
  <2> QED BY <1>1, <2>1, <2>2, RecordIs
<1>6. /\ lru \in Seq(InCache!Ids) /\ InCache!IsInjective(lru)
      /\ InCache!ToSet(lru) = InCache!ToSet(c.lru) \ {e}
  BY <1>1, RecordIs, RemoveFirstIs
<1>7. [InCache!LRURemove(c, e) EXCEPT !.entries[e].inCache = FALSE, !.usage = @ - 1] = m
  <2>1. [c.entries[e] EXCEPT !.inCache = FALSE] = out
    BY <1>1, OutIs
  <2> HIDE DEF out, lru, inUse
  <2> QED BY <1>1, <2>1 DEF InCache!LRURemove, CacheRecord, lru, inUse
<1>8. inUse \in SUBSET InCache!Ids /\ c.usage - 1 \in Int
  BY <1>1, RecordIs
<1> HIDE DEF outs, lru, inUse
<1>9. /\ m \in CacheRecord /\ m.entries = outs /\ m.lru = lru /\ m.inUse = inUse
      /\ m.hash = c.hash /\ m.usage = c.usage - 1
  BY <1>1, <1>5, <1>6, <1>8 DEF CacheRecord
<1>10. m.entries[e].refs - 1 = n /\ m.entries[e].inCache = FALSE
  BY <1>4, <1>5, <1>9
<1>11. d = InCache!Unref(m, e)
  BY <1>3, <1>7, CacheConstants DEF InCache!FinishErase
<1>12. [outs EXCEPT ![e] = entry] = entries
  BY <1>1, RecordIs DEF outs
<1> HIDE DEF m
<1>13. d = [m EXCEPT !.entries = entries]
  <2>1. CASE n = 0
    <3>1. d = [m EXCEPT !.entries = [m.entries EXCEPT ![e] = InCache!Free]]
      BY <1>10, <1>11, <2>1 DEF InCache!Unref
    <3> QED BY <1>9, <1>12, <2>1, <3>1
  <2>2. CASE n # 0
    <3> DEFINE left == m.entries[e].refs - 1
               new == [m.entries[e] EXCEPT !.refs = left]
    <3>1. new = entry
      <4>1. m.entries[e] \in CacheEntry /\ m.entries[e].table = T
        BY <1>5, <1>9
      <4>2. new = [table |-> m.entries[e].table, refs |-> left, inCache |-> FALSE]
        BY <1>10, <4>1, CountIs
      <4> HIDE DEF left, new
      <4> QED BY <1>10, <2>2, <4>1, <4>2 DEF left
    <3>2. d = [m EXCEPT !.entries = [m.entries EXCEPT ![e] = new]]
      BY <1>10, <1>11, <2>2 DEF InCache!Unref
    <3> HIDE DEF new
    <3> QED BY <1>9, <1>12, <3>1, <3>2
  <2> QED BY <2>1, <2>2
<1> HIDE DEF entries, d
<1>14. /\ d.entries = entries /\ d.lru = lru /\ d.inUse = inUse
       /\ d.hash = c.hash /\ d.usage = c.usage - 1 /\ d \in CacheRecord
  BY <1>5, <1>9, <1>13 DEF CacheRecord
<1>15. entry.refs = n /\ entry.inCache = FALSE /\ (n # 0 => entry.table = T)
  BY CacheConstants
<1>16. EntryRight(d, h, e)
  <2>1. d.entries[e].refs = n /\ ~d.entries[e].inCache
    BY <1>5, <1>14, <1>15
  <2>2. e \notin d.inUse /\ e \notin InCache!ToSet(d.lru)
    BY <1>6, <1>14 DEF inUse
  <2> QED BY <1>2, <2>1, <2>2 DEF EntryRight
<1>17. /\ \A y \in InCache!Ids : EntryRight(d, h, y)
       /\ d.usage = Cardinality(Cached(d))
  <2>1. d.usage = c.usage + (IF d.entries[e].inCache THEN 1 ELSE 0)
                          - (IF c.entries[e].inCache THEN 1 ELSE 0)
    BY <1>1, <1>3, <1>5, <1>14, <1>15, RecordIs
  <2>2. d.inUse \cup {e} = c.inUse \cup {e}
        /\ InCache!ToSet(d.lru) \cup {e} = InCache!ToSet(c.lru) \cup {e}
    BY <1>6, <1>14 DEF inUse
  <2>3. \A y \in InCache!Ids \ {e} : d.entries[y] = c.entries[y] /\ h[y] = h[y]
    BY <1>5, <1>14
  <2>4. c.entries[e].inCache \in BOOLEAN /\ d.entries[e].inCache \in BOOLEAN
    BY <1>1, <1>5, <1>14, <1>15 DEF CacheEntry
  <2> QED BY <1>16, <2>1, <2>2, <2>3, <2>4, OneEntryChanged
<1>18. HashRight(d, 0)
  <2>1. \A t \in CachedTables : c.hash[t] # 0 => c.hash[t] \in InCache!Ids \ {e}
    BY <1>1 DEF HashRight, CacheRecord
  <2>2. \A y \in InCache!Ids \ {e} : d.entries[y] = c.entries[y]
    BY <1>5, <1>14
  <2>3. ~d.entries[e].inCache
    BY <1>5, <1>14, <1>15
  <2> QED BY <1>1, <1>14, <2>1, <2>2, <2>3 DEF HashRight
<1>19. Fits(d, h, 0)
  BY <1>6, <1>14, <1>17, <1>18 DEF Fits
<1>20. KeepsTables(c, d, h)
  BY <1>2, <1>5, <1>14, <1>15 DEF KeepsTables
<1>21. d.usage <= c.usage
  BY <1>1, <1>14, RecordIs
<1> QED BY <1>19, <1>20, <1>21 DEF d

(* What holds of FinishErase when there may be nothing to erase.           *)
LEMMA FinishKeeps ==
  ASSUME NEW c, NEW h \in Holding, NEW x \in InCache!Ids \cup {0}, Fits(c, h, x)
  PROVE  /\ Fits(InCache!FinishErase(c, x), h, 0)
         /\ KeepsTables(c, InCache!FinishErase(c, x), h)
         /\ InCache!FinishErase(c, x).usage <= c.usage
<1>1. CASE x \in InCache!Ids
  BY <1>1, FinishEraseKeeps
<1>2. CASE x = 0
  <2>1. c \in CacheRecord
    BY DEF Fits
  <2>2. c.usage <= c.usage
    BY <2>1, RecordIs
  <2> QED BY <1>2, <2>2, CacheConstants DEF InCache!FinishErase, KeepsTables
<1> QED BY <1>1, <1>2

LEMMA EraseKeeps ==
  ASSUME NEW c, NEW h \in Holding, NEW t \in CachedTables, Fits(c, h, 0)
  PROVE  /\ Fits(InCache!Erase(c, t), h, 0) /\ KeepsTables(c, InCache!Erase(c, t), h)
         /\ InCache!Erase(c, t).usage <= c.usage
<1> DEFINE d == [c EXCEPT !.hash = [@ EXCEPT ![t] = 0]]
           x == c.hash[t]
<1>1. /\ c \in CacheRecord /\ HashRight(c, 0) /\ x \in InCache!Ids \cup {0}
      /\ \A y \in CachedTables : c.hash[y] \in InCache!Ids \cup {0}
  BY RecordIs DEF Fits
<1>2. [c.hash EXCEPT ![t] = 0] \in [CachedTables -> InCache!Ids \cup {0}]
  BY <1>1, RecordIs
<1>3. /\ d.entries = c.entries /\ d.lru = c.lru /\ d.inUse = c.inUse /\ d.usage = c.usage
      /\ d.hash = [c.hash EXCEPT ![t] = 0] /\ d \in CacheRecord
  BY <1>1, <1>2 DEF CacheRecord
<1>4. d.hash[t] = 0 /\ \A y \in CachedTables \ {t} : d.hash[y] = c.hash[y]
  BY <1>1, <1>3, RecordIs
<1> HIDE DEF d
<1>5. HashRight(d, x)
  <2>1. x # 0 => d.entries[x].inCache
    BY <1>1, <1>3 DEF HashRight
  <2>2. ASSUME NEW e \in InCache!Ids, e # x, d.entries[e].inCache
        PROVE  d.entries[e].table \in CachedTables /\ d.hash[d.entries[e].table] = e
    <3>1. e # 0
      BY CacheConstants
    <3>2. c.entries[e].table \in CachedTables /\ c.hash[c.entries[e].table] = e
      BY <1>1, <1>3, <2>2, <3>1 DEF HashRight
    <3> QED BY <1>3, <1>4, <2>2, <3>2
  <2>3. ASSUME NEW y \in CachedTables, d.hash[y] # 0
        PROVE  d.hash[y] # x /\ d.entries[d.hash[y]].inCache /\ d.entries[d.hash[y]].table = y
    <3>1. y # t /\ d.hash[y] = c.hash[y]
      BY <1>4, <2>3
    <3>2. c.entries[c.hash[y]].inCache /\ c.entries[c.hash[y]].table = y
      BY <1>1, <2>3, <3>1 DEF HashRight
    <3>3. x # 0 => c.entries[x].table = t
      BY <1>1 DEF HashRight
    <3> QED BY <1>3, <2>3, <3>1, <3>2, <3>3
  <2> QED BY <2>1, <2>2, <2>3 DEF HashRight
<1>6. Fits(d, h, x)
  <2>1. \A e \in InCache!Ids : EntryRight(d, h, e)
    BY <1>3 DEF Fits, EntryRight
  <2>2. Cached(d) = Cached(c)
    BY <1>3 DEF Cached
  <2> QED BY <1>3, <1>5, <2>1, <2>2 DEF Fits
<1>7. InCache!Erase(c, t) = InCache!FinishErase(d, x)
  BY CacheConstants DEF InCache!Erase, d
<1>8. /\ Fits(InCache!FinishErase(d, x), h, 0) /\ KeepsTables(d, InCache!FinishErase(d, x), h)
      /\ InCache!FinishErase(d, x).usage <= d.usage
  BY <1>1, <1>6, FinishKeeps
<1> QED BY <1>3, <1>7, <1>8 DEF KeepsTables

(* The old end of an injective sequence.                                   *)
Oldest(s, n) == {s[i] : i \in 1 .. n}
Rest(s, n)   == SubSeq(s, n + 1, Len(s))

LEMMA CutIs ==
  ASSUME NEW S, NEW s \in Seq(S), InCache!IsInjective(s), NEW n \in 0 .. Len(s)
  PROVE  /\ Rest(s, n) \in Seq(S) /\ InCache!IsInjective(Rest(s, n))
         /\ Oldest(s, n) \subseteq InCache!ToSet(s)
         /\ InCache!ToSet(Rest(s, n)) = InCache!ToSet(s) \ Oldest(s, n)
         /\ IsFiniteSet(Oldest(s, n)) /\ Cardinality(Oldest(s, n)) = n
<1> DEFINE r == SubSeq(s, n + 1, Len(s))
           gone == {s[i] : i \in 1 .. n}
<1>1. Len(s) \in Nat /\ n \in Nat /\ n <= Len(s) /\ DOMAIN s = 1 .. Len(s)
  OBVIOUS
<1>2. \A i, j \in 1 .. Len(s) : s[i] = s[j] => i = j
  BY <1>1 DEF InCache!IsInjective
<1>3. /\ r \in Seq(S) /\ Len(r) = Len(s) - n
      /\ \A i \in 1 .. Len(s) - n : r[i] = s[n + i]
  <2>1. \A i \in n + 1 .. Len(s) : s[i] \in S
    BY <1>1
  <2>2. n + 1 \in Int /\ Len(s) \in Int
    BY <1>1
  <2>3. /\ r \in Seq(S)
        /\ Len(r) = IF n + 1 <= Len(s) THEN Len(s) - (n + 1) + 1 ELSE 0
        /\ \A i \in 1 .. Len(s) - (n + 1) + 1 : r[i] = s[(n + 1) + i - 1]
    BY <2>1, <2>2, SubSeqProperties
  <2> HIDE DEF r
  <2>4. Len(r) = Len(s) - n /\ Len(s) - (n + 1) + 1 = Len(s) - n
    <3>1. Len(s) \in Int /\ n \in Int /\ n <= Len(s)
      BY <1>1
    <3>2. Len(r) = IF n + 1 <= Len(s) THEN Len(s) - (n + 1) + 1 ELSE 0
      BY <2>3
    <3>3. CASE n + 1 <= Len(s)
      BY <3>1, <3>2, <3>3
    <3>4. CASE ~(n + 1 <= Len(s))
      <4>1. n = Len(s)
        BY <3>1, <3>4
      <4> QED BY <3>1, <3>2, <3>4, <4>1
    <3> QED BY <3>3, <3>4
  <2>5. \A i \in 1 .. Len(s) - n : (n + 1) + i - 1 = n + i
    BY <1>1
  <2> QED BY <2>3, <2>4, <2>5
<1>4. DOMAIN r = 1 .. Len(s) - n
  BY <1>3
<1> HIDE DEF r
<1>5. InCache!IsInjective(r)
  <2> SUFFICES ASSUME NEW i \in 1 .. Len(s) - n, NEW j \in 1 .. Len(s) - n, r[i] = r[j]
               PROVE  i = j
    BY <1>4 DEF InCache!IsInjective
  <2>1. n + i \in 1 .. Len(s) /\ n + j \in 1 .. Len(s) /\ s[n + i] = s[n + j]
    BY <1>1, <1>3
  <2>2. n + i = n + j
    BY <1>2, <2>1
  <2> QED BY <1>1, <2>2
<1>6. gone \subseteq InCache!ToSet(s)
  BY <1>1 DEF InCache!ToSet
<1>7. InCache!ToSet(r) = InCache!ToSet(s) \ gone
  <2>1. ASSUME NEW y \in InCache!ToSet(r) PROVE y \in InCache!ToSet(s) \ gone
    <3>1. PICK i \in 1 .. Len(s) - n : y = r[i]
      BY <1>4, <2>1 DEF InCache!ToSet
    <3>2. n + i \in 1 .. Len(s) /\ y = s[n + i] /\ n + i \notin 1 .. n
      BY <1>1, <1>3, <3>1
    <3>3. y \notin gone
      <4> SUFFICES ASSUME NEW j \in 1 .. n, y = s[j] PROVE FALSE
        OBVIOUS
      <4>1. j \in 1 .. Len(s) /\ n + i \in 1 .. Len(s) /\ s[n + i] = s[j]
        BY <1>1, <3>2
      <4>2. n + i = j
        BY <1>2, <4>1
      <4> QED BY <3>2, <4>2
    <3> QED BY <1>1, <3>2, <3>3 DEF InCache!ToSet
  <2>2. ASSUME NEW y \in InCache!ToSet(s) \ gone PROVE y \in InCache!ToSet(r)
    <3>1. PICK i \in 1 .. Len(s) : y = s[i]
      BY <1>1, <2>2 DEF InCache!ToSet
    <3>2. ~(i \in 1 .. n)
      BY <2>2, <3>1
    <3>3. i - n \in 1 .. Len(s) - n /\ n + (i - n) = i
      BY <1>1, <3>2
    <3>4. r[i - n] = y
      BY <1>3, <3>1, <3>3
    <3> QED BY <1>4, <3>3, <3>4 DEF InCache!ToSet
  <2> QED BY <2>1, <2>2
<1>8. IsFiniteSet(gone) /\ Cardinality(gone) = n
  <2> DEFINE f == [i \in 1 .. n |-> s[i]]
  <2>1. f \in Bijection(1 .. n, gone)
    <3>1. f \in [1 .. n -> gone] /\ \A y \in gone : \E i \in 1 .. n : f[i] = y
      OBVIOUS
    <3>2. \A i, j \in 1 .. n : f[i] = f[j] => i = j
      BY <1>1, <1>2
    <3> HIDE DEF f, gone
    <3>3. f \in Injection(1 .. n, gone)
      BY <3>1, <3>2 DEF Injection, IsInjective
    <3>4. f \in Surjection(1 .. n, gone)
      BY <3>1 DEF Surjection
    <3> QED BY <3>3, <3>4 DEF Bijection
  <2>2. ExistsBijection(1 .. n, gone)
    BY <2>1 DEF ExistsBijection
  <2> QED BY <1>1, <2>2, FS_NatBijection, FS_CountingElements
<1> QED BY <1>3, <1>5, <1>6, <1>7, <1>8 DEF r, Oldest, Rest

(* What an eviction or Prune takes is what nobody holds.                   *)
LEMMA EraseOldestKeeps ==
  ASSUME NEW c, NEW h \in Holding, Fits(c, h, 0), NEW n \in 0 .. Len(c.lru)
  PROVE  LET d == InCache!EraseOldest(c, n) IN
         /\ Fits(d, h, 0) /\ KeepsTables(c, d, h) /\ d.usage = c.usage - n
         /\ n = Len(c.lru) => InCache!ToSet(d.lru) = {}
<1> DEFINE d == InCache!EraseOldest(c, n)
           gone == {c.lru[i] : i \in 1 .. n}
           tables == {c.entries[e].table : e \in gone}
           entries == [e \in InCache!Ids |-> IF e \in gone THEN InCache!Free ELSE c.entries[e]]
           hash == [t \in CachedTables |-> IF t \in tables THEN 0 ELSE c.hash[t]]
           lru == SubSeq(c.lru, n + 1, Len(c.lru))
<1>1. /\ c \in CacheRecord /\ HashRight(c, 0) /\ InCache!IsInjective(c.lru)
      /\ \A e \in InCache!Ids : EntryRight(c, h, e)
      /\ c.lru \in Seq(InCache!Ids) /\ c.usage = Cardinality(Cached(c))
  BY RecordIs DEF Fits
<1>2. /\ lru \in Seq(InCache!Ids) /\ InCache!IsInjective(lru)
      /\ gone \subseteq InCache!ToSet(c.lru)
      /\ InCache!ToSet(lru) = InCache!ToSet(c.lru) \ gone
      /\ IsFiniteSet(gone) /\ Cardinality(gone) = n
  <2>1. lru = Rest(c.lru, n) /\ gone = Oldest(c.lru, n)
    BY DEF Rest, Oldest
  <2>2. /\ Rest(c.lru, n) \in Seq(InCache!Ids) /\ InCache!IsInjective(Rest(c.lru, n))
        /\ Oldest(c.lru, n) \subseteq InCache!ToSet(c.lru)
        /\ InCache!ToSet(Rest(c.lru, n)) = InCache!ToSet(c.lru) \ Oldest(c.lru, n)
        /\ IsFiniteSet(Oldest(c.lru, n)) /\ Cardinality(Oldest(c.lru, n)) = n
    BY <1>1, CutIs
  <2> HIDE DEF gone, lru
  <2> QED BY <2>1, <2>2
<1>3. InCache!ToSet(c.lru) \subseteq InCache!Ids
  BY <1>1 DEF InCache!ToSet
<1>4. d = [c EXCEPT !.entries = entries, !.hash = hash, !.lru = lru, !.usage = @ - n]
  BY CacheConstants DEF InCache!EraseOldest
<1>5. n = Len(c.lru) => gone = InCache!ToSet(c.lru)
  BY <1>1 DEF InCache!ToSet
<1> HIDE DEF gone, lru
<1>6. entries \in [InCache!Ids -> CacheEntry] /\ hash \in [CachedTables -> InCache!Ids \cup {0}]
  <2>1. \A e \in InCache!Ids : c.entries[e] \in CacheEntry
    BY <1>1, RecordIs
  <2>2. \A t \in CachedTables : c.hash[t] \in InCache!Ids \cup {0}
    BY <1>1, RecordIs
  <2> QED BY <2>1, <2>2, FreeIsEntry
<1>7. /\ \A e \in gone : entries[e] = InCache!Free
      /\ \A e \in InCache!Ids \ gone : entries[e] = c.entries[e]
      /\ \A t \in CachedTables : hash[t] = IF t \in tables THEN 0 ELSE c.hash[t]
  BY <1>2, <1>3
<1>8. \A e \in gone : /\ c.entries[e].inCache /\ h[e] = {} /\ e \notin c.inUse
                     /\ c.entries[e].table \in CachedTables
                     /\ c.hash[c.entries[e].table] = e
  <2> SUFFICES ASSUME NEW e \in gone
               PROVE  /\ c.entries[e].inCache /\ h[e] = {} /\ e \notin c.inUse
                      /\ c.entries[e].table \in CachedTables
                      /\ c.hash[c.entries[e].table] = e
    OBVIOUS
  <2>1. e \in InCache!ToSet(c.lru) /\ e \in InCache!Ids /\ e # 0
    BY <1>2, <1>3, CacheConstants
  <2>2. c.entries[e].inCache /\ h[e] = {} /\ e \notin c.inUse
    BY <1>1, <2>1 DEF EntryRight
  <2> QED BY <1>1, <2>1, <2>2 DEF HashRight
<1>9. \A t \in tables : t \in CachedTables /\ c.hash[t] \in gone
  BY <1>8
<1>10. \A e \in gone : c.entries[e].table \in tables
  OBVIOUS
<1>11. c.usage - n \in Int
  BY <1>1, RecordIs
<1> HIDE DEF d, entries, hash, tables
<1>12. /\ d.entries = entries /\ d.lru = lru /\ d.inUse = c.inUse
       /\ d.hash = hash /\ d.usage = c.usage - n /\ d \in CacheRecord
  BY <1>1, <1>2, <1>4, <1>6, <1>11 DEF CacheRecord
<1>13. ASSUME NEW e \in InCache!Ids PROVE EntryRight(d, h, e)
  <2>1. CASE e \in gone
    <3>1. d.entries[e].refs = 0 /\ d.entries[e].inCache = FALSE
      BY <1>7, <1>12, <2>1, CacheConstants
    <3>2. Cardinality(h[e]) = 0
      BY <1>8, <2>1, FS_EmptySet
    <3>3. e \notin d.inUse /\ e \notin InCache!ToSet(d.lru)
      BY <1>2, <1>8, <1>12, <2>1
    <3> QED BY <3>1, <3>2, <3>3 DEF EntryRight
  <2>2. CASE e \notin gone
    <3>1. d.entries[e] = c.entries[e] /\ EntryRight(c, h, e)
      BY <1>1, <1>7, <1>12, <2>2
    <3> QED BY <1>2, <1>12, <2>2, <3>1 DEF EntryRight
  <2> QED BY <2>1, <2>2
<1>14. d.usage = Cardinality(Cached(d))
  <2>1. Cached(d) = Cached(c) \ gone /\ Cached(c) \cap gone = gone
    <3>1. \A e \in gone : ~d.entries[e].inCache
      BY <1>7, <1>12, CacheConstants
    <3>2. \A e \in InCache!Ids \ gone : d.entries[e].inCache <=> c.entries[e].inCache
      BY <1>7, <1>12
    <3> QED BY <1>2, <1>3, <1>8, <3>1, <3>2 DEF Cached
  <2>2. IsFiniteSet(Cached(c))
    <3>1. Cached(c) \in SUBSET InCache!Ids
      BY DEF Cached
    <3> QED BY <3>1, CacheConstants, FS_Subset
  <2>3. Cardinality(Cached(d)) = Cardinality(Cached(c)) - n
    <3>1. Cardinality(Cached(c) \ gone) = Cardinality(Cached(c)) - Cardinality(Cached(c) \cap gone)
      BY <2>2, FS_Difference
    <3>2. Cardinality(gone) = n
      BY <1>2
    <3> QED BY ONLY <2>1, <3>1, <3>2
  <2> QED BY <1>1, <1>12, <2>3
<1>15. HashRight(d, 0)
  <2>1. ASSUME NEW e \in InCache!Ids, d.entries[e].inCache
        PROVE  d.entries[e].table \in CachedTables /\ d.hash[d.entries[e].table] = e
    <3>1. e \notin gone /\ d.entries[e] = c.entries[e] /\ e # 0
      BY <1>7, <1>12, <2>1, CacheConstants
    <3>2. c.entries[e].table \in CachedTables /\ c.hash[c.entries[e].table] = e
      BY <1>1, <2>1, <3>1 DEF HashRight
    <3> QED BY <1>7, <1>9, <1>12, <3>1, <3>2
  <2>2. ASSUME NEW t \in CachedTables, d.hash[t] # 0
        PROVE  d.entries[d.hash[t]].inCache /\ d.entries[d.hash[t]].table = t
    <3>1. t \notin tables /\ d.hash[t] = c.hash[t] /\ c.hash[t] \in InCache!Ids
      BY <1>1, <1>7, <1>12, <2>2, RecordIs
    <3>2. c.entries[c.hash[t]].inCache /\ c.entries[c.hash[t]].table = t
      BY <1>1, <2>2, <3>1 DEF HashRight
    <3>3. c.hash[t] \notin gone
      BY <1>10, <3>1, <3>2
    <3> QED BY <1>7, <1>12, <3>1, <3>2, <3>3
  <2> QED BY <2>1, <2>2 DEF HashRight
<1>16. Fits(d, h, 0)
  BY <1>2, <1>12, <1>13, <1>14, <1>15 DEF Fits
<1>17. KeepsTables(c, d, h)
  BY <1>7, <1>8, <1>12 DEF KeepsTables
<1>18. n = Len(c.lru) => InCache!ToSet(d.lru) = {}
  BY <1>2, <1>5, <1>12
<1> QED BY <1>12, <1>16, <1>17, <1>18 DEF d

HoldersApart(h) ==
  \A d, e \in InCache!Ids : \A p \in Clients : p \in h[d] /\ p \in h[e] => d = e

(* A cache that nobody could evict from holds no more than the clients do. *)
LEMMA HeldBound ==
  ASSUME NEW c, NEW h \in Holding, Fits(c, h, 0), HoldersApart(h), InCache!ToSet(c.lru) = {}
  PROVE  c.usage <= Cardinality(Clients)
<1> DEFINE held == {p \in Clients : \E e \in Cached(c) : p \in h[e]}
           f == [p \in held |-> CHOOSE e \in Cached(c) : p \in h[e]]
<1>1. \A e \in Cached(c) : e \in InCache!Ids /\ h[e] # {}
  BY DEF Cached, Fits, EntryRight
<1>2. \A e \in Cached(c) : \E p \in held : p \in h[e]
  <2> SUFFICES ASSUME NEW e \in Cached(c) PROVE \E p \in held : p \in h[e]
    OBVIOUS
  <2>1. h[e] # {} /\ h[e] \subseteq Clients
    BY <1>1 DEF Holding
  <2> QED BY <2>1
<1>3. \A p \in held : f[p] \in Cached(c) /\ p \in h[f[p]]
  OBVIOUS
<1>4. f \in [held -> Cached(c)] /\ \A e \in Cached(c) : \E p \in held : f[p] = e
  <2>1. f \in [held -> Cached(c)]
    BY <1>3
  <2>2. ASSUME NEW e \in Cached(c) PROVE \E p \in held : f[p] = e
    <3>1. PICK p \in held : p \in h[e]
      BY <1>2
    <3>2. f[p] \in Cached(c) /\ p \in h[f[p]] /\ p \in Clients
      BY <1>3
    <3> HIDE DEF f
    <3>3. f[p] = e
      BY <1>1, <3>1, <3>2 DEF HoldersApart
    <3> QED BY <3>3
  <2> QED BY <2>1, <2>2
<1> HIDE DEF f
<1>5. f \in Surjection(held, Cached(c))
  BY <1>4 DEF Surjection, Range
<1>6. IsFiniteSet(held) /\ Cardinality(held) <= Cardinality(Clients)
  <2>1. held \in SUBSET Clients
    OBVIOUS
  <2> QED BY <2>1, CacheConstants, FS_Subset
<1> HIDE DEF held
<1>7. /\ IsFiniteSet(Cached(c)) /\ Cardinality(Cached(c)) <= Cardinality(held)
      /\ Cardinality(held) \in Nat
  BY <1>5, <1>6, FS_Surjection, FS_CardinalityType
<1>8. Cardinality(Cached(c)) \in Nat
  BY <1>7, FS_CardinalityType
<1>9. c.usage = Cardinality(Cached(c))
  BY DEF Fits
<1> QED BY <1>6, <1>7, <1>8, <1>9, CacheConstants

WithinBounds(c) == c.usage <= capacity \/ c.usage <= Cardinality(Clients)

LEMMA EvictedKeeps ==
  ASSUME NEW c, NEW h \in Holding, Fits(c, h, 0), HoldersApart(h), capacity \in Nat
  PROVE  /\ Fits(InCache!Evicted(c), h, 0) /\ KeepsTables(c, InCache!Evicted(c), h)
         /\ WithinBounds(InCache!Evicted(c))
<1> DEFINE over == c.usage - capacity
           n == IF over < Len(c.lru) THEN over ELSE Len(c.lru)
           d == InCache!EraseOldest(c, n)
<1>1. c.usage \in Int /\ Len(c.lru) \in Nat /\ over \in Int
  <2>1. c \in CacheRecord
    BY DEF Fits
  <2>2. c.usage \in Int /\ c.lru \in Seq(InCache!Ids)
    BY <2>1, RecordIs
  <2> QED BY <2>2
<1>2. CASE over <= 0
  <2>1. InCache!Evicted(c) = c
    BY <1>2 DEF InCache!Evicted
  <2>2. c.usage <= capacity
    BY <1>1, <1>2
  <2> QED BY <2>1, <2>2 DEF KeepsTables, WithinBounds
<1>3. CASE ~(over <= 0)
  <2>1. InCache!Evicted(c) = d
    BY <1>3 DEF InCache!Evicted
  <2>2. n \in 0 .. Len(c.lru)
    BY <1>1, <1>3
  <2>3. n = over \/ n = Len(c.lru)
    OBVIOUS
  <2> HIDE DEF n, over
  <2>4. /\ Fits(d, h, 0) /\ KeepsTables(c, d, h) /\ d.usage = c.usage - n
        /\ n = Len(c.lru) => InCache!ToSet(d.lru) = {}
    BY <2>2, EraseOldestKeeps
  <2> HIDE DEF d
  <2>5. CASE n = over
    <3>1. d.usage <= capacity
      BY <1>1, <2>4, <2>5 DEF over
    <3> QED BY <2>1, <2>4, <3>1 DEF WithinBounds
  <2>6. CASE n = Len(c.lru)
    <3>1. d.usage <= Cardinality(Clients)
      BY <2>4, <2>6, HeldBound
    <3> QED BY <2>1, <2>4, <3>1 DEF WithinBounds
  <2> QED BY <2>3, <2>5, <2>6
<1> QED BY <1>2, <1>3

(* The entry that another thread's Insert of the same table replaces is    *)
(* erased, and kept by those who hold it.                                  *)
LEMMA InsertKeeps ==
  ASSUME NEW c, NEW h \in Holding, NEW e \in InCache!Ids, NEW t \in CachedTables,
         NEW p \in Clients, Fits(c, h, 0), c.entries[e] = InCache!Free,
         HoldersApart(Holds(h, e, p)), capacity \in Nat
  PROVE  LET d == InCache!Insert(c, e, t) IN
         /\ Fits(d, Holds(h, e, p), 0) /\ KeepsTables(c, d, h)
         /\ WithinBounds(d) /\ d.entries[e].table = t
<1> DEFINE d == InCache!Insert(c, e, t)
           g == Holds(h, e, p)
           x == c.hash[t]
           own == [table |-> t, refs |-> 1, inCache |-> FALSE]
           shared == [table |-> t, refs |-> 2, inCache |-> TRUE]
           alone == [c EXCEPT !.entries = [c.entries EXCEPT ![e] = own]]
           cached == [c EXCEPT !.entries = [c.entries EXCEPT ![e] = shared],
                               !.inUse = @ \cup {e}, !.usage = @ + 1,
                               !.hash = [c.hash EXCEPT ![t] = e]]
<1>1. /\ c \in CacheRecord /\ HashRight(c, 0) /\ InCache!IsInjective(c.lru)
      /\ EntryRight(c, h, e) /\ c.entries[e].refs = 0 /\ ~c.entries[e].inCache
      /\ c.entries[e].inCache \in BOOLEAN
  BY CacheConstants, RecordIs DEF Fits
<1>2. h[e] = {} /\ e \notin c.inUse /\ e \notin InCache!ToSet(c.lru)
  <2>1. Cardinality(h[e]) \in Nat /\ (Cardinality(h[e]) = 0 <=> h[e] = {})
    BY HeldIsFinite
  <2> QED BY <1>1, <2>1 DEF EntryRight
<1>3. /\ g \in Holding /\ g[e] = {p} /\ Cardinality(g[e]) = 1 /\ g[e] # {}
      /\ \A y \in InCache!Ids \ {e} : g[y] = h[y]
  <2>1. /\ g \in Holding /\ g[e] = h[e] \cup {p}
        /\ \A y \in InCache!Ids \ {e} : g[y] = h[y]
    BY HoldsIs
  <2> QED BY <1>2, <2>1, FS_Singleton
<1>4. own \in CacheEntry /\ shared \in CacheEntry
  BY DEF CacheEntry
<1>5. /\ own.refs = 1 /\ own.table = t /\ own.inCache = FALSE
      /\ shared.refs = 2 /\ shared.table = t /\ shared.inCache = TRUE
  OBVIOUS
<1>6. /\ x \in InCache!Ids \cup {0} /\ x # e /\ e # 0
      /\ (x # 0 => c.entries[x].inCache /\ c.entries[x].table = t)
  <2>1. x \in InCache!Ids \cup {0} /\ e # 0
    BY <1>1, RecordIs, CacheConstants
  <2>2. x # 0 => c.entries[x].inCache /\ c.entries[x].table = t
    BY <1>1 DEF HashRight
  <2> QED BY <1>1, <2>1, <2>2
<1>7. d = InCache!Evicted(IF capacity > 0 THEN InCache!FinishErase(cached, x) ELSE alone)
  <2> DEFINE al == [c EXCEPT !.entries[e] = [table |-> t, refs |-> 1, inCache |-> FALSE]]
             ca == [al EXCEPT !.entries[e].refs = 2, !.entries[e].inCache = TRUE,
                              !.inUse = @ \cup {e}, !.usage = @ + 1, !.hash[t] = e]
  <2>1. d = InCache!Evicted(IF capacity > 0 THEN InCache!FinishErase(ca, x) ELSE al)
    BY DEF InCache!Insert
  <2>2. al = alone
    OBVIOUS
  <2>3. ca = cached
    <3> DEFINE es == [c.entries EXCEPT ![e] = own]
    <3>1. es \in [InCache!Ids -> CacheEntry] /\ es[e] = own
      BY <1>1, <1>4, RecordIs
    <3>2. al.entries = es /\ al.inUse = c.inUse /\ al.usage = c.usage /\ al.hash = c.hash
          /\ al \in CacheRecord
      <4>1. al = [c EXCEPT !.entries = es]
        OBVIOUS
      <4> HIDE DEF es
      <4> QED BY <1>1, <3>1, <4>1 DEF CacheRecord
    <3>3. [al.entries[e] EXCEPT !.refs = 2, !.inCache = TRUE] = shared
      <4> DEFINE k == [table |-> t, refs |-> 2, inCache |-> FALSE]
      <4>1. al.entries[e] = own /\ k \in CacheEntry
        BY <3>1, <3>2 DEF CacheEntry
      <4>2. [own EXCEPT !.refs = 2] = k
        <5> HIDE DEF own
        <5>1. [own EXCEPT !.refs = 2] = [table |-> own.table, refs |-> 2, inCache |-> own.inCache]
          BY <1>4, CountIs
        <5> QED BY <1>5, <5>1
      <4>3. [k EXCEPT !.inCache = TRUE] = shared
        <5>1. k.table = t /\ k.refs = 2
          OBVIOUS
        <5> HIDE DEF k
        <5>2. [k EXCEPT !.inCache = TRUE] = [table |-> k.table, refs |-> k.refs, inCache |-> TRUE]
          BY <4>1, OutIs
        <5> QED BY <5>1, <5>2
      <4> HIDE DEF al, own, k, shared
      <4> QED BY <4>1, <4>2, <4>3
    <3>4. ca = [al EXCEPT !.entries = [al.entries EXCEPT ![e] = shared],
                          !.inUse = @ \cup {e}, !.usage = @ + 1, !.hash = [@ EXCEPT ![t] = e]]
      <4> HIDE DEF al, shared, es
      <4> QED BY <3>1, <3>2, <3>3 DEF CacheRecord
    <3>5. [es EXCEPT ![e] = shared] = [c.entries EXCEPT ![e] = shared]
      BY <1>1, RecordIs
    <3>6. ca = [al EXCEPT !.entries = [c.entries EXCEPT ![e] = shared],
                          !.inUse = c.inUse \cup {e}, !.usage = c.usage + 1,
                          !.hash = [c.hash EXCEPT ![t] = e]]
      <4> HIDE DEF al, ca, es, shared
      <4> QED BY <3>2, <3>4, <3>5
    <3>7. al = [c EXCEPT !.entries = es]
      OBVIOUS
    <3> HIDE DEF al, ca, es, shared
    <3> QED BY <1>1, <3>6, <3>7, RecordIs
  <2> QED BY <2>1, <2>2, <2>3
<1> HIDE DEF own, shared, d, g
(* The tables of a cache in which e was filled: those held before, and t.  *)
<1>8. ASSUME NEW q, Fits(q, g, 0), d = InCache!Evicted(q), q.entries[e].table = t,
             \A y \in InCache!Ids \ {e} : g[y] # {} => q.entries[y].table = c.entries[y].table
      PROVE  Fits(d, g, 0) /\ KeepsTables(c, d, h) /\ WithinBounds(d) /\ d.entries[e].table = t
  <2>1. HoldersApart(g) /\ capacity \in Nat
    BY DEF g
  <2>2. Fits(d, g, 0) /\ KeepsTables(q, d, g) /\ WithinBounds(d)
    BY <1>3, <1>8, <2>1, EvictedKeeps
  <2>3. d.entries[e].table = t
    BY <1>3, <1>8, <2>2 DEF KeepsTables
  <2>4. ASSUME NEW y \in InCache!Ids, h[y] # {}
        PROVE  d.entries[y].table = c.entries[y].table
    <3>1. y \in InCache!Ids \ {e} /\ g[y] # {}
      BY <1>2, <1>3, <2>4
    <3> QED BY <1>8, <2>2, <3>1 DEF KeepsTables
  <2> QED BY <2>2, <2>3, <2>4 DEF KeepsTables
<1>9. CASE ~(capacity > 0)
  <2> DEFINE es == [c.entries EXCEPT ![e] = own]
  <2>1. es \in [InCache!Ids -> CacheEntry] /\ es[e] = own
        /\ \A y \in InCache!Ids \ {e} : es[y] = c.entries[y]
    BY <1>1, <1>4, RecordIs
  <2> HIDE DEF es
  <2>2. /\ alone.entries = es /\ alone.lru = c.lru /\ alone.inUse = c.inUse
        /\ alone.hash = c.hash /\ alone.usage = c.usage /\ alone \in CacheRecord
    BY <1>1, <2>1 DEF CacheRecord, es
  <2> HIDE DEF alone
  <2>3. EntryRight(alone, g, e)
    <3>1. e \notin alone.inUse /\ e \notin InCache!ToSet(alone.lru)
      BY <1>2, <2>2
    <3>2. alone.entries[e].refs = 1 /\ ~alone.entries[e].inCache
      BY <1>5, <2>1, <2>2
    <3> QED BY <1>3, <3>1, <3>2 DEF EntryRight
  <2>4. (\A y \in InCache!Ids : EntryRight(alone, g, y)) /\ alone.usage = Cardinality(Cached(alone))
    <3>1. alone.usage = c.usage + (IF alone.entries[e].inCache THEN 1 ELSE 0)
                                - (IF c.entries[e].inCache THEN 1 ELSE 0)
      BY <1>1, <1>5, <2>1, <2>2, RecordIs
    <3>2. alone.inUse \cup {e} = c.inUse \cup {e}
          /\ InCache!ToSet(alone.lru) \cup {e} = InCache!ToSet(c.lru) \cup {e}
      BY <2>2
    <3>3. \A y \in InCache!Ids \ {e} : alone.entries[y] = c.entries[y] /\ g[y] = h[y]
      BY <1>3, <2>1, <2>2
    <3>4. c.entries[e].inCache \in BOOLEAN /\ alone.entries[e].inCache \in BOOLEAN
      BY <1>1, <1>5, <2>1, <2>2
    <3> QED BY <2>3, <3>1, <3>2, <3>3, <3>4, OneEntryChanged
  <2>5. HashRight(alone, 0)
    <3>1. \A y \in CachedTables : c.hash[y] # 0 => c.hash[y] \in InCache!Ids \ {e}
      BY <1>1, RecordIs DEF HashRight
    <3>2. ~alone.entries[e].inCache
      BY <1>5, <2>1, <2>2
    <3>3. \A y \in InCache!Ids \ {e} : alone.entries[y] = c.entries[y]
      BY <2>1, <2>2
    <3> QED BY <1>1, <2>2, <3>1, <3>2, <3>3 DEF HashRight
  <2>6. Fits(alone, g, 0)
    BY <1>1, <2>2, <2>4, <2>5 DEF Fits
  <2>7. d = InCache!Evicted(alone) /\ alone.entries[e].table = t
        /\ \A y \in InCache!Ids \ {e} : alone.entries[y].table = c.entries[y].table
    BY <1>5, <1>7, <1>9, <2>1, <2>2
  <2> QED BY <1>8, <2>6, <2>7 DEF d, g
<1>10. CASE capacity > 0
  <2> DEFINE es == [c.entries EXCEPT ![e] = shared]
             hash == [c.hash EXCEPT ![t] = e]
             inUse == c.inUse \cup {e}
             q == InCache!FinishErase(cached, x)
  <2>1. /\ es \in [InCache!Ids -> CacheEntry] /\ es[e] = shared
        /\ \A y \in InCache!Ids \ {e} : es[y] = c.entries[y]
        /\ hash \in [CachedTables -> InCache!Ids \cup {0}] /\ hash[t] = e
        /\ \A y \in CachedTables \ {t} : hash[y] = c.hash[y]
    BY <1>1, <1>4, RecordIs
  <2>2. inUse \in SUBSET InCache!Ids /\ c.usage + 1 \in Int
    BY <1>1, RecordIs
  <2>3. cached = [c EXCEPT !.entries = es, !.inUse = inUse, !.usage = c.usage + 1, !.hash = hash]
    OBVIOUS
  <2> HIDE DEF es, hash, inUse, cached
  <2>4. /\ cached.entries = es /\ cached.lru = c.lru /\ cached.inUse = c.inUse \cup {e}
        /\ cached.hash = hash /\ cached.usage = c.usage + 1 /\ cached \in CacheRecord
    BY <1>1, <2>1, <2>2, <2>3 DEF CacheRecord, inUse
  <2>5. EntryRight(cached, g, e)
    <3>1. e \in cached.inUse /\ e \notin InCache!ToSet(cached.lru)
      BY <1>2, <2>4
    <3>2. cached.entries[e].refs = 2 /\ cached.entries[e].inCache
      BY <1>5, <2>1, <2>4
    <3> QED BY <1>3, <3>1, <3>2 DEF EntryRight
  <2>6. (\A y \in InCache!Ids : EntryRight(cached, g, y))
        /\ cached.usage = Cardinality(Cached(cached))
    <3>1. cached.usage = c.usage + (IF cached.entries[e].inCache THEN 1 ELSE 0)
                                 - (IF c.entries[e].inCache THEN 1 ELSE 0)
      BY <1>1, <1>5, <2>1, <2>2, <2>4, RecordIs
    <3>2. cached.inUse \cup {e} = c.inUse \cup {e}
          /\ InCache!ToSet(cached.lru) \cup {e} = InCache!ToSet(c.lru) \cup {e}
      BY <2>4
    <3>3. \A y \in InCache!Ids \ {e} : cached.entries[y] = c.entries[y] /\ g[y] = h[y]
      BY <1>3, <2>1, <2>4
    <3>4. c.entries[e].inCache \in BOOLEAN /\ cached.entries[e].inCache \in BOOLEAN
      BY <1>1, <1>5, <2>1, <2>4
    <3> QED BY <2>5, <3>1, <3>2, <3>3, <3>4, OneEntryChanged
  <2>7. HashRight(cached, x)
    <3>1. x # 0 => cached.entries[x].inCache
      BY <1>6, <2>1, <2>4
    <3>2. ASSUME NEW y \in InCache!Ids, y # x, cached.entries[y].inCache
          PROVE  cached.entries[y].table \in CachedTables
                 /\ cached.hash[cached.entries[y].table] = y
      <4>1. CASE y = e
        BY <1>5, <2>1, <2>4, <4>1
      <4>2. CASE y # e
        <5>1. cached.entries[y] = c.entries[y] /\ y # 0
          BY <2>1, <2>4, <4>2, CacheConstants
        <5>2. c.entries[y].table \in CachedTables /\ c.hash[c.entries[y].table] = y
          BY <1>1, <3>2, <5>1 DEF HashRight
        <5>3. c.entries[y].table # t
          BY <3>2, <5>2
        <5> QED BY <2>1, <2>4, <5>1, <5>2, <5>3
      <4> QED BY <4>1, <4>2
    <3>3. ASSUME NEW y \in CachedTables, cached.hash[y] # 0
          PROVE  /\ cached.hash[y] # x /\ cached.entries[cached.hash[y]].inCache
                 /\ cached.entries[cached.hash[y]].table = y
      <4>1. CASE y = t
        BY <1>5, <1>6, <2>1, <2>4, <4>1
      <4>2. CASE y # t
        <5>1. cached.hash[y] = c.hash[y] /\ c.hash[y] \in InCache!Ids
          BY <1>1, <2>1, <2>4, <3>3, <4>2, RecordIs
        <5>2. c.entries[c.hash[y]].inCache /\ c.entries[c.hash[y]].table = y
          BY <1>1, <3>3, <5>1 DEF HashRight
        <5>3. c.hash[y] # e /\ c.hash[y] # x
          BY <1>1, <1>6, <3>3, <4>2, <5>1, <5>2
        <5> QED BY <2>1, <2>4, <5>1, <5>2, <5>3
      <4> QED BY <4>1, <4>2
    <3> QED BY <3>1, <3>2, <3>3 DEF HashRight
  <2>8. Fits(cached, g, x)
    BY <1>1, <2>4, <2>6, <2>7 DEF Fits
  <2>9. Fits(q, g, 0) /\ KeepsTables(cached, q, g)
    BY <1>3, <1>6, <2>8, FinishKeeps
  <2>10. d = InCache!Evicted(q)
    BY <1>7, <1>10
  <2> HIDE DEF q
  <2>11. q.entries[e].table = t
    BY <1>3, <1>5, <2>1, <2>4, <2>9 DEF KeepsTables
  <2>12. \A y \in InCache!Ids \ {e} : g[y] # {} => q.entries[y].table = c.entries[y].table
    BY <2>1, <2>4, <2>9 DEF KeepsTables
  <2> QED BY <1>8, <2>9, <2>10, <2>11, <2>12 DEF d, g
<1> QED BY <1>9, <1>10

Held == [e \in InCache!Ids |-> InCache!Holders(e)]

ClientsRight ==
  /\ client \in [Clients -> [pc : {"idle", "opening", "using"}, table : CachedTables \cup {0},
                             handle : InCache!Ids \cup {0}]]
  /\ \A p \in Clients : client[p].pc # "idle" => client[p].table \in CachedTables
  /\ \A p \in Clients : client[p].pc = "using" =>
       /\ client[p].handle \in InCache!Ids
       /\ cache.entries[client[p].handle].table = client[p].table

CacheInv ==
  capacity \in Nat /\ ClientsRight /\ Fits(cache, Held, 0) /\ WithinBounds(cache)

LEMMA HeldIs ==
  /\ Held \in Holding /\ HoldersApart(Held)
  /\ \A e \in InCache!Ids : Held[e] = {p \in Clients : client[p].pc = "using" /\ client[p].handle = e}
BY DEF Held, Holding, HoldersApart, InCache!Holders

LEMMA HeldNext ==
  /\ Held' \in Holding /\ HoldersApart(Held')
  /\ \A e \in InCache!Ids :
       Held'[e] = {p \in Clients : client'[p].pc = "using" /\ client'[p].handle = e}
BY DEF Held, Holding, HoldersApart, InCache!Holders, InCache!Ids

(* Two tellings of who holds what are one if they agree everywhere.        *)
LEMMA SameHolding ==
  ASSUME NEW g \in Holding, NEW h \in Holding, \A e \in InCache!Ids : g[e] = h[e]
  PROVE  g = h
BY DEF Holding

(* A step of one client changes what it holds itself.                      *)
LEMMA HeldAfter ==
  ASSUME NEW p \in Clients, \A q \in Clients \ {p} : client'[q] = client[q],
         NEW y \in InCache!Ids
  PROVE  Held'[y] = (Held[y] \ {p})
           \cup (IF client'[p].pc = "using" /\ client'[p].handle = y THEN {p} ELSE {})
<1>1. Held'[y] = {q \in Clients : client'[q].pc = "using" /\ client'[q].handle = y}
  BY HeldNext
<1>2. Held[y] = {q \in Clients : client[q].pc = "using" /\ client[q].handle = y}
  BY HeldIs
<1> QED BY <1>1, <1>2

LEMMA CacheInit ==
  ASSUME InCache!Init
  PROVE  CacheInv
<1>1. /\ capacity \in Capacities /\ client = [p \in Clients |-> InCache!Idle]
      /\ cache.entries = [e \in InCache!Ids |-> InCache!Free] /\ cache.lru = <<>>
      /\ cache.inUse = {} /\ cache.usage = 0
      /\ cache.hash = [t \in CachedTables |-> 0]
      /\ cache \in CacheRecord
  <2>1. [e \in InCache!Ids |-> InCache!Free] \in [InCache!Ids -> CacheEntry]
    BY FreeIsEntry
  <2>2. [t \in CachedTables |-> 0] \in [CachedTables -> InCache!Ids \cup {0}]
    OBVIOUS
  <2>3. <<>> \in Seq(InCache!Ids)
    OBVIOUS
  <2>4. /\ capacity \in Capacities /\ client = [p \in Clients |-> InCache!Idle]
        /\ cache = [entries |-> [e \in InCache!Ids |-> InCache!Free], lru |-> <<>>,
                    inUse |-> {}, hash |-> [t \in CachedTables |-> 0], usage |-> 0]
    BY CacheConstants DEF InCache!Init
  <2> QED BY <2>1, <2>2, <2>3, <2>4 DEF CacheRecord
<1>2. capacity \in Nat
  BY <1>1, StorageAssumption DEF InCache!TableCacheAssumption
<1>3. ClientsRight
  BY <1>1, CacheConstants DEF InCache!Idle, ClientsRight
<1>4. \A e \in InCache!Ids : Held[e] = {}
  BY <1>1, HeldIs DEF InCache!Idle
<1>5. InCache!ToSet(cache.lru) = {} /\ InCache!IsInjective(cache.lru)
  BY <1>1 DEF InCache!ToSet, InCache!IsInjective
<1>6. \A e \in InCache!Ids : cache.entries[e].inCache = FALSE /\ cache.entries[e].refs = 0
  BY <1>1, CacheConstants
<1>7. ASSUME NEW e \in InCache!Ids PROVE EntryRight(cache, Held, e)
  <2>1. Held[e] = {} /\ Cardinality(Held[e]) = 0
    BY <1>4, FS_EmptySet
  <2> QED BY <1>1, <1>5, <1>6, <2>1 DEF EntryRight
<1>8. Cached(cache) = {} /\ cache.usage = Cardinality(Cached(cache))
  BY <1>1, <1>6, FS_EmptySet DEF Cached
<1>9. HashRight(cache, 0)
  BY <1>1, <1>6 DEF HashRight
<1>10. WithinBounds(cache)
  BY <1>1, <1>2 DEF WithinBounds
<1> QED BY <1>1, <1>2, <1>3, <1>5, <1>7, <1>8, <1>9, <1>10 DEF CacheInv, Fits

(* What an action must show: the cache is right for its new holders, and   *)
(* each client's table is that of its handle.                              *)
LEMMA ClientStep ==
  ASSUME ClientsRight, NEW p \in Clients, NEW r,
         r \in [pc : {"idle", "opening", "using"}, table : CachedTables \cup {0},
                handle : InCache!Ids \cup {0}],
         r.pc # "idle" => r.table \in CachedTables,
         r.pc = "using" => r.handle \in InCache!Ids /\ cache'.entries[r.handle].table = r.table,
         client' = [client EXCEPT ![p] = r],
         \A q \in Clients \ {p} : client[q].pc = "using" =>
           cache'.entries[client[q].handle].table = cache.entries[client[q].handle].table
  PROVE  /\ ClientsRight'
         /\ client'[p] = r /\ \A q \in Clients \ {p} : client'[q] = client[q]
<1>1. client'[p] = r /\ \A q \in Clients \ {p} : client'[q] = client[q]
  BY DEF ClientsRight
<1>2. client' \in [Clients -> [pc : {"idle", "opening", "using"},
                               table : CachedTables \cup {0}, handle : InCache!Ids \cup {0}]]
  BY DEF ClientsRight
<1>3. \A q \in Clients : client'[q].pc # "idle" => client'[q].table \in CachedTables
  BY <1>1 DEF ClientsRight
<1>4. \A q \in Clients : client'[q].pc = "using" =>
        /\ client'[q].handle \in InCache!Ids
        /\ cache'.entries[client'[q].handle].table = client'[q].table
  BY <1>1 DEF ClientsRight
<1> QED BY <1>1, <1>2, <1>3, <1>4 DEF ClientsRight, InCache!Ids

LEMMA FindTableKeeps ==
  ASSUME CacheInv, NEW p \in Clients, NEW t \in CachedTables, InCache!FindTable(p, t)
  PROVE  CacheInv'
<1> DEFINE e == cache.hash[t]
<1>1. /\ capacity' = capacity /\ client[p].pc = "idle" /\ capacity \in Nat /\ ClientsRight
      /\ Fits(cache, Held, 0) /\ cache \in CacheRecord /\ HashRight(cache, 0)
      /\ WithinBounds(cache)
  BY DEF CacheInv, Fits, InCache!FindTable
<1>2. \A y \in InCache!Ids : p \notin Held[y]
  BY <1>1, HeldIs
<1>3. CASE e # 0
  <2> DEFINE r == [pc |-> "using", table |-> t, handle |-> e]
  <2>1. cache' = InCache!Ref(cache, e) /\ client' = [client EXCEPT ![p] = r]
    BY <1>3, CacheConstants DEF InCache!FindTable
  <2>2. e \in InCache!Ids /\ cache.entries[e].inCache /\ cache.entries[e].table = t
    BY <1>1, <1>3, RecordIs DEF HashRight
  <2> HIDE DEF e
  <2>3. /\ Fits(cache', Holds(Held, e, p), 0) /\ cache'.usage = cache.usage
        /\ KeepsTables(cache, cache', Holds(Held, e, p))
    BY <1>1, <1>2, <2>1, <2>2, HeldIs, RefKeeps
  <2>4. /\ Holds(Held, e, p) \in Holding /\ Holds(Held, e, p)[e] = Held[e] \cup {p}
        /\ \A y \in InCache!Ids \ {e} : Holds(Held, e, p)[y] = Held[y]
    BY <2>2, HeldIs, HoldsIs
  <2>5. cache'.entries[e].table = t
    BY <2>2, <2>3, <2>4 DEF KeepsTables
  <2>6. \A q \in Clients \ {p} : client[q].pc = "using" =>
          cache'.entries[client[q].handle].table = cache.entries[client[q].handle].table
    <3> SUFFICES ASSUME NEW q \in Clients \ {p}, client[q].pc = "using"
                 PROVE  cache'.entries[client[q].handle].table
                          = cache.entries[client[q].handle].table
      OBVIOUS
    <3>1. client[q].handle \in InCache!Ids /\ q \in Held[client[q].handle]
      BY <1>1, HeldIs DEF ClientsRight
    <3>2. Holds(Held, e, p)[client[q].handle] # {}
      BY <2>4, <3>1
    <3> QED BY <2>3, <3>1, <3>2 DEF KeepsTables
  <2>7. /\ ClientsRight' /\ client'[p] = r
        /\ \A q \in Clients \ {p} : client'[q] = client[q]
    <3>1. r \in [pc : {"idle", "opening", "using"}, table : CachedTables \cup {0},
                 handle : InCache!Ids \cup {0}]
      BY <2>2
    <3>2. r.pc = "using" /\ r.table = t /\ r.handle = e
      OBVIOUS
    <3> HIDE DEF r
    <3> QED BY <1>1, <2>1, <2>2, <2>5, <2>6, <3>1, <3>2, ClientStep
  <2>8. Held' = Holds(Held, e, p)
    <3>1. ASSUME NEW y \in InCache!Ids PROVE Held'[y] = Holds(Held, e, p)[y]
      <4>1. Held'[y] = (Held[y] \ {p}) \cup (IF e = y THEN {p} ELSE {})
        BY <2>7, HeldAfter
      <4>2. p \notin Held[y]
        BY <1>2
      <4> QED BY <2>4, <4>1, <4>2
    <3> QED BY <2>4, <3>1, HeldNext, SameHolding
  <2> QED BY <1>1, <2>3, <2>7, <2>8 DEF CacheInv, WithinBounds
<1>4. CASE e = 0
  <2> DEFINE r == [pc |-> "opening", table |-> t, handle |-> 0]
  <2>1. cache' = cache /\ client' = [client EXCEPT ![p] = r]
    BY <1>4, CacheConstants DEF InCache!FindTable
  <2>2. /\ ClientsRight' /\ client'[p] = r
        /\ \A q \in Clients \ {p} : client'[q] = client[q]
    <3>1. r \in [pc : {"idle", "opening", "using"}, table : CachedTables \cup {0},
                 handle : InCache!Ids \cup {0}]
      OBVIOUS
    <3>2. r.pc = "opening" /\ r.table = t
      OBVIOUS
    <3> HIDE DEF r
    <3> QED BY <1>1, <2>1, <3>1, <3>2, ClientStep
  <2>3. Held' = Held
    <3>1. ASSUME NEW y \in InCache!Ids PROVE Held'[y] = Held[y]
      <4>1. Held'[y] = Held[y] \ {p}
        BY <2>2, HeldAfter
      <4> QED BY <1>2, <4>1
    <3> QED BY <3>1, HeldIs, HeldNext, SameHolding
  <2> QED BY <1>1, <2>1, <2>2, <2>3 DEF CacheInv, WithinBounds
<1> QED BY <1>3, <1>4

LEMMA OpenedKeeps ==
  ASSUME CacheInv, NEW p \in Clients, InCache!Opened(p)
  PROVE  CacheInv'
<1> DEFINE t == client[p].table
<1>1. /\ capacity' = capacity /\ client[p].pc = "opening" /\ capacity \in Nat /\ ClientsRight
      /\ Fits(cache, Held, 0) /\ cache \in CacheRecord /\ HashRight(cache, 0)
  BY DEF CacheInv, Fits, InCache!Opened
<1>2. PICK e \in InCache!Ids :
        /\ cache.entries[e] = InCache!Free /\ cache' = InCache!Insert(cache, e, t)
        /\ client' = [client EXCEPT ![p].pc = "using", ![p].handle = e]
  BY DEF InCache!Opened
<1> DEFINE r == [pc |-> "using", table |-> t, handle |-> e]
<1>3. t \in CachedTables /\ client' = [client EXCEPT ![p] = r]
  <2>1. /\ t \in CachedTables
        /\ client[p] \in [pc : {"idle", "opening", "using"}, table : CachedTables \cup {0},
                          handle : InCache!Ids \cup {0}]
    BY <1>1 DEF ClientsRight
  <2>2. [client[p] EXCEPT !.pc = "using", !.handle = e] = r
    <3> DEFINE k == client[p]
    <3>1. k = [pc |-> k.pc, table |-> t, handle |-> k.handle]
      BY <2>1
    <3> DEFINE x == k.pc
               y == k.handle
               s == [k EXCEPT !.pc = "using", !.handle = e]
    <3>2. s = [k EXCEPT !.pc = "using", !.handle = e]
      OBVIOUS
    <3>4. k = [pc |-> x, table |-> t, handle |-> y]
      BY <3>1
    <3> HIDE DEF t, k, s, x, y
    <3>3. s = [pc |-> "using", table |-> t, handle |-> e]
      BY ONLY <3>2, <3>4
    <3> QED BY <3>3 DEF k, s
  <2> HIDE DEF r, t
  <2> QED BY <1>2, <2>1, <2>2
<1>4. \A y \in InCache!Ids : p \notin Held[y]
  BY <1>1, HeldIs
<1>5. /\ Holds(Held, e, p) \in Holding /\ Holds(Held, e, p)[e] = Held[e] \cup {p}
      /\ \A y \in InCache!Ids \ {e} : Holds(Held, e, p)[y] = Held[y]
  BY HeldIs, HoldsIs
<1>6. HoldersApart(Holds(Held, e, p))
  BY <1>4, <1>5, HeldIs DEF HoldersApart
<1> HIDE DEF t
<1>7. /\ Fits(cache', Holds(Held, e, p), 0) /\ KeepsTables(cache, cache', Held)
      /\ WithinBounds(cache') /\ cache'.entries[e].table = t
  BY <1>1, <1>2, <1>3, <1>6, HeldIs, InsertKeeps
<1>8. \A q \in Clients \ {p} : client[q].pc = "using" =>
        cache'.entries[client[q].handle].table = cache.entries[client[q].handle].table
  <2> SUFFICES ASSUME NEW q \in Clients \ {p}, client[q].pc = "using"
               PROVE  cache'.entries[client[q].handle].table
                        = cache.entries[client[q].handle].table
    OBVIOUS
  <2>1. client[q].handle \in InCache!Ids /\ q \in Held[client[q].handle]
    BY <1>1, HeldIs DEF ClientsRight
  <2> QED BY <1>7, <2>1 DEF KeepsTables
<1>9. /\ ClientsRight' /\ client'[p] = r
      /\ \A q \in Clients \ {p} : client'[q] = client[q]
  <2>1. r \in [pc : {"idle", "opening", "using"}, table : CachedTables \cup {0},
               handle : InCache!Ids \cup {0}]
    BY <1>3
  <2>2. r.pc = "using" /\ r.table = t /\ r.handle = e
    OBVIOUS
  <2> HIDE DEF r
  <2> QED BY <1>1, <1>3, <1>7, <1>8, <2>1, <2>2, ClientStep
<1>10. Held' = Holds(Held, e, p)
  <2>1. ASSUME NEW y \in InCache!Ids PROVE Held'[y] = Holds(Held, e, p)[y]
    <3>1. Held'[y] = (Held[y] \ {p}) \cup (IF e = y THEN {p} ELSE {})
      BY <1>9, HeldAfter
    <3>2. p \notin Held[y]
      BY <1>4
    <3> QED BY <1>5, <3>1, <3>2
  <2> QED BY <1>5, <2>1, HeldNext, SameHolding
<1> QED BY <1>1, <1>7, <1>9, <1>10 DEF CacheInv, WithinBounds

LEMMA NotOpenedKeeps ==
  ASSUME CacheInv, NEW p \in Clients, InCache!NotOpened(p)
  PROVE  CacheInv'
<1>1. /\ capacity' = capacity /\ cache' = cache /\ client[p].pc = "opening"
      /\ capacity \in Nat /\ ClientsRight /\ Fits(cache, Held, 0) /\ WithinBounds(cache)
      /\ client' = [client EXCEPT ![p] = InCache!Idle]
  BY DEF CacheInv, InCache!NotOpened
<1>2. /\ ClientsRight' /\ client'[p] = InCache!Idle
      /\ \A q \in Clients \ {p} : client'[q] = client[q]
  <2>1. /\ InCache!Idle \in [pc : {"idle", "opening", "using"}, table : CachedTables \cup {0},
                            handle : InCache!Ids \cup {0}]
        /\ InCache!Idle.pc = "idle"
    BY CacheConstants DEF InCache!Idle
  <2> QED BY <1>1, <2>1, ClientStep
<1>3. Held' = Held
  <2>1. ASSUME NEW y \in InCache!Ids PROVE Held'[y] = Held[y]
    <3>1. Held'[y] = Held[y] \ {p}
      BY <1>2, HeldAfter DEF InCache!Idle
    <3> QED BY <1>1, <3>1, HeldIs
  <2> QED BY <2>1, HeldIs, HeldNext, SameHolding
<1> QED BY <1>1, <1>2, <1>3 DEF CacheInv, WithinBounds

LEMMA ReleaseKeeps ==
  ASSUME CacheInv, NEW p \in Clients, InCache!Release(p)
  PROVE  CacheInv'
<1> DEFINE e == client[p].handle
<1>1. /\ capacity' = capacity /\ client[p].pc = "using" /\ capacity \in Nat /\ ClientsRight
      /\ Fits(cache, Held, 0) /\ WithinBounds(cache) /\ cache' = InCache!Unref(cache, e)
      /\ client' = [client EXCEPT ![p] = InCache!Idle]
  BY DEF CacheInv, InCache!Release
<1>2. e \in InCache!Ids /\ p \in Held[e]
  BY <1>1, HeldIs DEF ClientsRight
<1>3. \A y \in InCache!Ids \ {e} : p \notin Held[y]
  BY <1>1, HeldIs
<1> HIDE DEF e
<1>4. /\ Drops(Held, e, p) \in Holding /\ Drops(Held, e, p)[e] = Held[e] \ {p}
      /\ \A y \in InCache!Ids \ {e} : Drops(Held, e, p)[y] = Held[y]
  BY <1>2, HeldIs, DropsIs
<1>5. /\ Fits(cache', Drops(Held, e, p), 0) /\ cache'.usage = cache.usage
      /\ KeepsTables(cache, cache', Drops(Held, e, p))
  BY <1>1, <1>2, HeldIs, UnrefKeeps
<1>6. \A q \in Clients \ {p} : client[q].pc = "using" =>
        cache'.entries[client[q].handle].table = cache.entries[client[q].handle].table
  <2> SUFFICES ASSUME NEW q \in Clients \ {p}, client[q].pc = "using"
               PROVE  cache'.entries[client[q].handle].table
                        = cache.entries[client[q].handle].table
    OBVIOUS
  <2>1. client[q].handle \in InCache!Ids /\ q \in Held[client[q].handle]
    BY <1>1, HeldIs DEF ClientsRight
  <2>2. q \in Drops(Held, e, p)[client[q].handle]
    BY <1>4, <2>1
  <2> QED BY <1>5, <2>1, <2>2 DEF KeepsTables
<1>7. /\ ClientsRight' /\ client'[p] = InCache!Idle
      /\ \A q \in Clients \ {p} : client'[q] = client[q]
  <2>1. /\ InCache!Idle \in [pc : {"idle", "opening", "using"}, table : CachedTables \cup {0},
                            handle : InCache!Ids \cup {0}]
        /\ InCache!Idle.pc = "idle"
    BY CacheConstants DEF InCache!Idle
  <2> QED BY <1>1, <1>6, <2>1, ClientStep
<1>8. Held' = Drops(Held, e, p)
  <2>1. ASSUME NEW y \in InCache!Ids PROVE Held'[y] = Drops(Held, e, p)[y]
    <3>1. Held'[y] = Held[y] \ {p}
      BY <1>7, HeldAfter DEF InCache!Idle
    <3> QED BY <1>3, <1>4, <3>1
  <2> QED BY <1>4, <2>1, HeldNext, SameHolding
<1> QED BY <1>1, <1>5, <1>7, <1>8 DEF CacheInv, WithinBounds

(* An erasure leaves the clients alone.                                    *)
LEMMA CacheStep ==
  ASSUME CacheInv, client' = client, capacity' = capacity,
         Fits(cache', Held, 0), KeepsTables(cache, cache', Held), WithinBounds(cache')
  PROVE  CacheInv'
<1>1. Held' = Held
  <2>1. \A y \in InCache!Ids : Held'[y] = Held[y]
    BY HeldIs, HeldNext
  <2> QED BY <2>1, HeldIs, HeldNext, SameHolding
<1>2. ClientsRight /\ capacity \in Nat
  BY DEF CacheInv
<1>3. ASSUME NEW p \in Clients, client[p].pc = "using"
      PROVE  /\ client[p].handle \in InCache!Ids
             /\ cache'.entries[client[p].handle].table = client[p].table
  <2>1. client[p].handle \in InCache!Ids /\ p \in Held[client[p].handle]
        /\ cache.entries[client[p].handle].table = client[p].table
    BY <1>2, <1>3, HeldIs DEF ClientsRight
  <2> QED BY <2>1 DEF KeepsTables
<1>4. ClientsRight'
  BY <1>2, <1>3 DEF ClientsRight, InCache!Ids
<1> QED BY <1>1, <1>2, <1>4 DEF CacheInv, WithinBounds

LEMMA EvictKeeps ==
  ASSUME CacheInv, NEW t \in CachedTables, InCache!Evict(t)
  PROVE  CacheInv'
<1>1. /\ cache' = InCache!Erase(cache, t) /\ client' = client /\ capacity' = capacity
      /\ Fits(cache, Held, 0) /\ WithinBounds(cache) /\ capacity \in Nat
      /\ cache \in CacheRecord
  BY DEF CacheInv, Fits, InCache!Evict
<1>2. /\ Fits(cache', Held, 0) /\ KeepsTables(cache, cache', Held)
      /\ cache'.usage <= cache.usage
  BY <1>1, HeldIs, EraseKeeps
<1>3. cache.usage \in Int /\ cache'.usage \in Int
  BY <1>1, <1>2, RecordIs DEF Fits
<1>4. WithinBounds(cache')
  BY <1>1, <1>2, <1>3, CacheConstants DEF WithinBounds
<1> QED BY <1>1, <1>2, <1>4, CacheStep

LEMMA PruneKeeps ==
  ASSUME CacheInv, InCache!Prune
  PROVE  CacheInv'
<1> DEFINE n == Len(cache.lru)
<1>1. /\ cache' = InCache!EraseOldest(cache, n) /\ client' = client /\ capacity' = capacity
      /\ Fits(cache, Held, 0) /\ WithinBounds(cache) /\ capacity \in Nat
      /\ cache \in CacheRecord
  BY DEF CacheInv, Fits, InCache!Prune
<1>2. n \in 0 .. Len(cache.lru) /\ n \in Nat
  <2>1. cache.lru \in Seq(InCache!Ids)
    BY <1>1, RecordIs
  <2> QED BY <2>1
<1> HIDE DEF n
<1>3. /\ Fits(cache', Held, 0) /\ KeepsTables(cache, cache', Held)
      /\ cache'.usage = cache.usage - n
  BY <1>1, <1>2, HeldIs, EraseOldestKeeps
<1>4. cache.usage \in Int
  BY <1>1, RecordIs
<1>5. WithinBounds(cache')
  BY <1>1, <1>2, <1>3, <1>4, CacheConstants DEF WithinBounds
<1> QED BY <1>1, <1>3, <1>5, CacheStep

LEMMA CacheNext ==
  ASSUME CacheInv, InCache!Next
  PROVE  CacheInv'
BY FindTableKeeps, OpenedKeeps, NotOpenedKeeps, ReleaseKeeps, EvictKeeps, PruneKeeps
   DEF InCache!Next

LEMMA CacheStutters ==
  ASSUME CacheInv, UNCHANGED inCache
  PROVE  CacheInv'
<1>1. cache' = cache /\ client' = client /\ capacity' = capacity
  BY DEF inCache
<1>2. Fits(cache, Held, 0) /\ WithinBounds(cache) /\ KeepsTables(cache, cache, Held)
  BY DEF CacheInv, KeepsTables
<1> QED BY <1>1, <1>2, CacheStep

(* The invariant says of the cache what CacheIsSound does.                 *)
LEMMA CacheInvSound ==
  ASSUME CacheInv
  PROVE  InCache!CacheIsSound
<1>1. /\ capacity \in Nat /\ ClientsRight /\ Fits(cache, Held, 0) /\ WithinBounds(cache)
      /\ cache \in CacheRecord /\ HashRight(cache, 0) /\ InCache!IsInjective(cache.lru)
      /\ cache.usage = Cardinality(Cached(cache)) /\ cache.usage \in Int
  BY RecordIs DEF CacheInv, Fits
<1>2. \A S : InCache!Cardinality(S) = Cardinality(S)
  BY DEF InCache!Cardinality, Cardinality
<1>3. \A p \in Clients : client[p].pc = "using" =>
        cache.entries[client[p].handle].table = client[p].table
  BY <1>1 DEF ClientsRight
<1>4. ASSUME NEW e \in InCache!Ids
      PROVE  /\ cache.entries[e].refs = InCache!Cardinality(InCache!Holders(e))
                                       + IF e \in InCache!InCache THEN 1 ELSE 0
             /\ e \in cache.inUse <=> e \in InCache!InCache /\ InCache!Holders(e) # {}
             /\ e \in InCache!ToSet(cache.lru) <=> e \in InCache!InCache /\ InCache!Holders(e) = {}
             /\ e \in InCache!InCache <=> \E t \in CachedTables : cache.hash[t] = e
  <2>1. EntryRight(cache, Held, e) /\ Held[e] = InCache!Holders(e)
    BY DEF CacheInv, Fits, Held
  <2>2. e \in InCache!InCache <=> cache.entries[e].inCache
    BY DEF InCache!InCache
  <2>3. e # 0
    BY CacheConstants
  <2>4. e \in InCache!InCache <=> \E t \in CachedTables : cache.hash[t] = e
    BY <1>1, <2>2, <2>3 DEF HashRight
  <2> QED BY <1>2, <2>1, <2>2, <2>4 DEF EntryRight
<1>5. \A t \in CachedTables : cache.hash[t] # InCache!None =>
        cache.entries[cache.hash[t]].table = t
  BY <1>1, CacheConstants DEF HashRight
<1>6. cache.usage = InCache!Cardinality(InCache!InCache)
  BY <1>1, <1>2 DEF InCache!InCache, Cached
<1>7. cache.usage <= InCache!Max({capacity, InCache!Cardinality(Clients)})
  <2> DEFINE m == Cardinality(Clients)
             M == InCache!Max({capacity, m})
  <2>1. m \in Nat /\ capacity \in Nat /\ InCache!Cardinality(Clients) = m
    BY <1>1, CacheConstants
  <2>2. cache.usage <= capacity \/ cache.usage <= m
    BY <1>1 DEF WithinBounds
  <2> HIDE DEF m
  <2>3. \E x \in {capacity, m} : \A y \in {capacity, m} : x >= y
    BY <2>1
  <2>4. M \in {capacity, m} /\ M >= capacity /\ M >= m
    BY <2>3 DEF InCache!Max
  <2> HIDE DEF M
  <2>5. cache.usage <= M
    BY <1>1, <2>1, <2>2, <2>4
  <2> QED BY <2>1, <2>5 DEF M
<1> QED BY <1>1, <1>3, <1>4, <1>5, <1>6, <1>7 DEF InCache!CacheIsSound

LEMMA CacheInStorage ==
  ASSUME [Next]_vars
  PROVE  InCache!Next \/ UNCHANGED inCache
BY DEF Next, vars

THEOREM CacheInvHolds == Spec => []CacheInv
<1>1. Init => CacheInv
  BY CacheInit DEF Init
<1>2. CacheInv /\ [Next]_vars => CacheInv'
  BY CacheInStorage, CacheNext, CacheStutters
<1> QED BY <1>1, <1>2, PTL DEF Spec

(* The cache of open tables: a client's handle is never freed, or turned   *)
(* into another table, before its release; an entry is counted by exactly  *)
(* those who hold it and the cache; and the cache is over its capacity     *)
(* only by what its clients held, for any number of clients, tables and    *)
(* entries and whatever calls fall between the miss and the Insert of one. *)
THEOREM CacheStaysSound == Spec => []CacheIsSound
<1>1. CacheInv => CacheIsSound
  BY CacheInvSound DEF CacheIsSound
<1> QED BY <1>1, CacheInvHolds, PTL

-----------------------------------------------------------------------------
(* The levels: the inductive invariant.                                    *)

(* Files and the entries in them.                                          *)
EntriesIn(files) == UNION {f.entries : f \in files}
HasKey(f, k) == \E e \in f.entries : e.key = k
FileOf(entries) == [number : 0 .. next - 1, entries : (SUBSET entries) \ {{}}]
Ahead(A, B) == \A d \in A, e \in B : InLevels!Before(d.key, d.seq, e)
Older(A, B) == \A d \in A, e \in B : d.seq < e.seq
OlderAt(k, A, B) == \A d \in A, e \in B : d.key = k /\ e.key = k => d.seq < e.seq

(* Sequence numbers are given once; files are not empty and hold entries   *)
(* that were written, and there are finitely many.                         *)
LevelsTyped ==
  /\ lastSeq \in Nat /\ next \in Nat \ {0}
  /\ history \subseteq InLevels!Entry /\ \A e \in history : e.seq <= lastSeq
  /\ \A d, e \in history : d.seq = e.seq => d = e
  /\ mem \subseteq history
  /\ levels \in [InLevels!Level -> SUBSET FileOf(history)]
  /\ \A l \in InLevels!Level : InLevels!IsFiniteSet(levels[l])
  /\ snapshots \subseteq 0 .. lastSeq
  /\ divided \subseteq InLevels!Keys /\ squeezed \in BOOLEAN

JobTyped ==
  job.on =>
    /\ job.level \in 0 .. Levels - 2 /\ job.smallestSnapshot \in Nat
    /\ job.inputs \subseteq levels[job.level] /\ job.inputs # {}
    /\ job.parents \subseteq levels[job.level + 1]

(* The memtable is newer than all files, and the files of level 0 are      *)
(* ordered by their numbers.                                               *)
MemNewest == \A l \in InLevels!Level : \A f \in levels[l] : Older(f.entries, mem)
Level0Ordered ==
  \A f, g \in levels[0] : f # g => \/ f.number < g.number /\ Older(f.entries, g.entries)
                                   \/ g.number < f.number /\ Older(g.entries, f.entries)
(* But for the keys whose entries a compaction divided between two files   *)
(* of a level, a key is in one file of a level below 0, and what is above  *)
(* is newer.                                                               *)
Undivided ==
  \A k \in InLevels!Keys \ divided : \A l \in 1 .. Levels - 1 :
    \A f, g \in levels[l] : HasKey(f, k) /\ HasKey(g, k) => f = g
Ordered ==
  \A k \in InLevels!Keys \ divided : \A l, m \in InLevels!Level : l < m =>
    \A f \in levels[l], g \in levels[m] : OlderAt(k, g.entries, f.entries)

(* A compaction: the files it leaves lie apart from those it takes, those  *)
(* it leaves in its own level hold nothing older, base has what can be     *)
(* below, and no snapshot that may be read is older than the one it took.  *)
Work(c) == EntriesIn(c.inputs) \cup EntriesIn(c.parents)
OthersApart(l, c) ==
  \A f \in levels[l + 1] \ c.parents :
    /\ Ahead(f.entries, Work(c)) \/ Ahead(Work(c), f.entries)
    /\ \A g \in c.inputs : \A e \in g.entries : ~HasKey(f, e.key)
OthersNewer(l, c) ==
  \A k \in InLevels!Keys \ divided : \A f \in c.inputs, g \in levels[l] \ c.inputs :
    OlderAt(k, f.entries, g.entries)
BaseKnown ==
  \A m \in job.level + 2 .. Levels - 1 : \A f \in levels[m] \ job.base :
    \A e \in Work(job) : ~HasKey(f, e.key)
SeenByAll == \A s \in snapshots \cup {lastSeq} : job.smallestSnapshot <= s
JobRight ==
  job.on => /\ OthersApart(job.level, job) /\ OthersNewer(job.level, job)
            /\ BaseKnown /\ SeenByAll

(* What a read at a snapshot should find is there, or it is a deletion and *)
(* nothing older is.                                                       *)
Newest(h, k, s) ==
  /\ h \in history /\ h.key = k /\ h.seq <= s
  /\ \A e \in history : e.key = k /\ e.seq <= s => e.seq <= h.seq
Retained ==
  \A k \in InLevels!Keys \ divided : \A s \in snapshots \cup {lastSeq} : \A h \in history :
    Newest(h, k, s) =>
      \/ h \in InLevels!Everything
      \/ h.del /\ \A e \in InLevels!Everything : e.key = k => e.seq > s

(* All of that, until a table is flushed between the inputs of a running   *)
(* compaction.                                                             *)
LevelsGood ==
  /\ MemNewest /\ Level0Ordered /\ InLevels!Disjoint /\ Undivided /\ Ordered
  /\ JobRight /\ Retained
LevelsInv == LevelsTyped /\ JobTyped /\ (squeezed \/ LevelsGood)

-----------------------------------------------------------------------------
(* Keys, ranges and files that overlap.                                    *)

LEMMA LevelConstants ==
  /\ LastKey \in Nat /\ Levels \in Nat /\ Levels >= 3 /\ MaxSeq \in Nat
  /\ InLevels!Keys = 1 .. LastKey /\ InLevels!Level = 0 .. Levels - 1
  /\ \A S : InLevels!Cardinality(S) = Cardinality(S)
  /\ \A S : InLevels!IsFiniteSet(S) <=> IsFiniteSet(S)
<1>1. \A S : InLevels!Cardinality(S) = Cardinality(S)
  BY DEF InLevels!Cardinality, Cardinality, InLevels!IsFiniteSet, IsFiniteSet
<1>2. \A S : InLevels!IsFiniteSet(S) <=> IsFiniteSet(S)
  BY DEF InLevels!IsFiniteSet, IsFiniteSet
<1> QED BY <1>1, <1>2, StorageAssumption DEF InLevels!LevelsAssumption, InLevels!Keys,
     InLevels!Level

LEMMA EntryIs ==
  ASSUME NEW e \in InLevels!Entry
  PROVE  /\ e.key \in InLevels!Keys /\ e.key \in Int
         /\ e.seq \in Nat /\ e.seq \in 1 .. MaxSeq /\ e.del \in BOOLEAN
BY LevelConstants DEF InLevels!Entry

LEMMA GreatestKey ==
  ASSUME NEW S \in SUBSET InLevels!Keys, S # {}
  PROVE  InLevels!Max(S) \in S /\ \A k \in S : k <= InLevels!Max(S)
<1>1. S \in SUBSET (0 .. LastKey) /\ LastKey \in Nat
  BY LevelConstants
<1>2. InList!Max(S) \in S /\ \A m \in S : m <= InList!Max(S)
  BY <1>1, MaxExists
<1>3. InList!Max(S) = InLevels!Max(S)
  BY DEF InList!Max, InLevels!Max
<1> QED BY <1>2, <1>3

LEMMA MinExists ==
  ASSUME NEW n \in Nat, NEW S \in SUBSET (0 .. n), S # {}
  PROVE  InLevels!Min(S) \in S /\ \A k \in S : InLevels!Min(S) <= k
<1> DEFINE T == {n - k : k \in S}
<1>a. \A k \in S : n - k \in 0 .. n
  OBVIOUS
<1>b. T # {}
  OBVIOUS
<1>1. T \in SUBSET (0 .. n) /\ T # {}
  BY <1>a, <1>b
<1>2. InList!Max(T) \in T /\ \A t \in T : t <= InList!Max(T)
  BY <1>1, MaxExists
<1>3. PICK x \in S : InList!Max(T) = n - x
  BY <1>2
<1>4. \A k \in S : n - k <= n - x
  BY <1>2, <1>3
<1>5. \A k \in S : x <= k
  BY <1>4
<1> QED BY <1>5 DEF InLevels!Min

LEMMA LeastKey ==
  ASSUME NEW S \in SUBSET InLevels!Keys, S # {}
  PROVE  InLevels!Min(S) \in S /\ \A k \in S : InLevels!Min(S) <= k
<1>1. S \in SUBSET (0 .. LastKey) /\ LastKey \in Nat
  BY LevelConstants
<1> QED BY <1>1, MinExists

(* What a file's smallest and largest keys are.                            *)
IsFile(f) == f.entries \subseteq InLevels!Entry /\ f.entries # {}

LEMMA FileKeys ==
  ASSUME NEW f, IsFile(f)
  PROVE  /\ InLevels!Smallest(f) \in InLevels!Keys /\ InLevels!Largest(f) \in InLevels!Keys
         /\ HasKey(f, InLevels!Smallest(f)) /\ HasKey(f, InLevels!Largest(f))
         /\ \A e \in f.entries : InLevels!Smallest(f) <= e.key /\ e.key <= InLevels!Largest(f)
<1> DEFINE S == {e.key : e \in f.entries}
<1>1. S \in SUBSET InLevels!Keys /\ S # {}
  BY EntryIs DEF IsFile
<1>2. InLevels!Min(S) \in S /\ \A k \in S : InLevels!Min(S) <= k
  BY <1>1, LeastKey
<1>3. InLevels!Max(S) \in S /\ \A k \in S : k <= InLevels!Max(S)
  BY <1>1, GreatestKey
<1> QED BY <1>1, <1>2, <1>3 DEF InLevels!Smallest, InLevels!Largest, HasKey

LEMMA OverlapsIs ==
  ASSUME NEW f, IsFile(f), NEW range \in SUBSET InLevels!Keys
  PROVE  InLevels!Overlaps(f, range) <=>
                  \E a, b \in range : a <= InLevels!Largest(f) /\ InLevels!Smallest(f) <= b
<1>1. CASE range = {}
  BY <1>1 DEF InLevels!Overlaps
<1>2. CASE range # {}
  <2> DEFINE lo == InLevels!Min(range)
             hi == InLevels!Max(range)
             s == InLevels!Smallest(f)
             t == InLevels!Largest(f)
  <2>1. lo \in range /\ \A k \in range : lo <= k
    BY <1>2, LeastKey
  <2>2. hi \in range /\ \A k \in range : k <= hi
    BY <1>2, GreatestKey
  <2>3. s \in Int /\ t \in Int /\ \A k \in range : k \in Int
    BY FileKeys, LevelConstants
  <2>4. InLevels!Overlaps(f, range) <=> ~(lo > t) /\ ~(hi < s)
    BY <1>2 DEF InLevels!Overlaps, InLevels!AfterFile, InLevels!BeforeFile
  <2> HIDE DEF lo, hi, s, t
  <2>5. ASSUME NEW a \in range, NEW b \in range, a <= t, s <= b
        PROVE  ~(lo > t) /\ ~(hi < s)
    BY <2>1, <2>2, <2>3, <2>5
  <2>6. ~(lo > t) /\ ~(hi < s) => lo <= t /\ s <= hi
    BY <2>1, <2>2, <2>3
  <2>7. InLevels!Overlaps(f, range) <=> \E a, b \in range : a <= t /\ s <= b
    BY <2>1, <2>2, <2>4, <2>5, <2>6
  <2> QED BY <2>7 DEF s, t
<1> QED BY <1>1, <1>2

LEMMA HoldsOverlaps ==
  ASSUME NEW f, IsFile(f), NEW range \in SUBSET InLevels!Keys, NEW k \in range, HasKey(f, k)
  PROVE  InLevels!Overlaps(f, range)
<1>1. InLevels!Smallest(f) <= k /\ k <= InLevels!Largest(f)
  BY FileKeys DEF HasKey
<1> QED BY <1>1, OverlapsIs

LEMMA OverlapsMore ==
  ASSUME NEW f, IsFile(f), NEW range \in SUBSET InLevels!Keys, NEW wider \in SUBSET InLevels!Keys,
         range \subseteq wider, InLevels!Overlaps(f, range)
  PROVE  InLevels!Overlaps(f, wider)
BY OverlapsIs

(* A file that a range misses lies on one side of it.                      *)
LEMMA OneSide ==
  ASSUME NEW f, IsFile(f), NEW range \in SUBSET InLevels!Keys, ~InLevels!Overlaps(f, range)
  PROVE  \/ \A e \in f.entries : \A k \in range : e.key < k
         \/ \A e \in f.entries : \A k \in range : k < e.key
<1> DEFINE s == InLevels!Smallest(f)
           t == InLevels!Largest(f)
<1>1. s \in Int /\ t \in Int /\ \A k \in range : k \in Int
  BY FileKeys, LevelConstants
<1>2. \A e \in f.entries : e.key \in Int /\ s <= e.key /\ e.key <= t
  BY FileKeys, EntryIs DEF IsFile
<1>3. ~ \E a, b \in range : a <= t /\ s <= b
  BY OverlapsIs
<1> HIDE DEF s, t
<1>4. CASE \A a \in range : t < a
  BY <1>1, <1>2, <1>4
<1>5. CASE \E a \in range : ~(t < a)
  <2>1. \A b \in range : b < s
    BY <1>1, <1>3, <1>5
  <2> QED BY <1>1, <1>2, <2>1
<1> QED BY <1>4, <1>5

LEMMA RangeIs ==
  ASSUME NEW files, \A f \in files : IsFile(f)
  PROVE  /\ InLevels!GetRange(files) \in SUBSET InLevels!Keys
         /\ \A f \in files : \A e \in f.entries : e.key \in InLevels!GetRange(files)
<1>1. \A f \in files : \A e \in f.entries : e.key \in InLevels!Keys
  BY EntryIs DEF IsFile
<1>2. \A f \in files : \A e \in f.entries : InLevels!Smallest(f) <= e.key /\ e.key <= InLevels!Largest(f)
  BY FileKeys
<1> QED BY <1>1, <1>2 DEF InLevels!GetRange

LEMMA RangeOfMore ==
  ASSUME NEW files, NEW more, files \subseteq more
  PROVE  InLevels!GetRange(files) \subseteq InLevels!GetRange(more)
BY DEF InLevels!GetRange

-----------------------------------------------------------------------------
(* GetOverlappingInputs: widening the range takes more files, so that in   *)
(* level 0 the intersection of all sets of files that are closed is the    *)
(* least of those that are.                                                *)
FilesOf(l) == \A f \in levels[l] : IsFile(f)
Closed(files, range) == files = InLevels!Touching(0, InLevels!GetRange(files) \cup range)

LEMMA WideningIsMonotone ==
  ASSUME FilesOf(0), NEW range \in SUBSET InLevels!Keys,
         NEW X \in SUBSET levels[0], NEW Y \in SUBSET levels[0], X \subseteq Y
  PROVE  InLevels!Touching(0, InLevels!GetRange(X) \cup range) \subseteq InLevels!Touching(0, InLevels!GetRange(Y) \cup range)
<1> DEFINE a == InLevels!GetRange(X) \cup range
           b == InLevels!GetRange(Y) \cup range
<1>1. a \in SUBSET InLevels!Keys /\ b \in SUBSET InLevels!Keys
  BY RangeIs DEF FilesOf
<1>2. a \subseteq b
  BY RangeOfMore
<1> HIDE DEF a, b
<1>3. \A f \in levels[0] : InLevels!Overlaps(f, a) => InLevels!Overlaps(f, b)
  BY <1>1, <1>2, OverlapsMore DEF FilesOf
<1>4. InLevels!Touching(0, a) \subseteq InLevels!Touching(0, b)
  BY <1>3 DEF InLevels!Touching
<1> QED BY <1>4 DEF a, b

LEMMA LeastClosed ==
  ASSUME FilesOf(0), NEW range \in SUBSET InLevels!Keys
  PROVE  \E files \in SUBSET levels[0] :
           /\ Closed(files, range)
           /\ \A other \in SUBSET levels[0] : Closed(other, range) => files \subseteq other
<1> DEFINE F(X) == InLevels!Touching(0, InLevels!GetRange(X) \cup range)
           P == {X \in SUBSET levels[0] : F(X) \subseteq X}
           I == {f \in levels[0] : \A X \in P : f \in X}
<1>1. \A X \in SUBSET levels[0] : F(X) \in SUBSET levels[0]
  BY DEF InLevels!Touching
<1>2. \A X, Y \in SUBSET levels[0] : X \subseteq Y => F(X) \subseteq F(Y)
  BY WideningIsMonotone
<1>3. \A X \in SUBSET levels[0] : Closed(X, range) <=> X = F(X)
  BY DEF Closed
<1> HIDE DEF F
<1>4. I \in SUBSET levels[0] /\ \A X \in P : I \subseteq X
  OBVIOUS
<1>5. \A X \in P : F(I) \subseteq X
  BY <1>2, <1>4
<1>6. F(I) \subseteq I
  BY <1>1, <1>4, <1>5
<1>7. F(I) \in P
  BY <1>1, <1>2, <1>4, <1>6
<1>8. I = F(I)
  BY <1>4, <1>6, <1>7
<1>9. \A X \in SUBSET levels[0] : Closed(X, range) => I \subseteq X
  BY <1>3, <1>4
<1> QED BY <1>3, <1>4, <1>8, <1>9

LEMMA Level0Inputs ==
  ASSUME FilesOf(0), NEW range \in SUBSET InLevels!Keys
  PROVE  /\ InLevels!GetOverlappingInputs(0, range) \in SUBSET levels[0]
         /\ Closed(InLevels!GetOverlappingInputs(0, range), range)
<1> DEFINE Least(files) ==
             /\ files = InLevels!Touching(0, InLevels!GetRange(files) \cup range)
             /\ \A other \in SUBSET levels[0] :
                  other = InLevels!Touching(0, InLevels!GetRange(other) \cup range) => files \subseteq other
<1>1. \E files \in SUBSET levels[0] : Least(files)
  BY LeastClosed DEF Closed
<1>2. InLevels!GetOverlappingInputs(0, range) = CHOOSE files \in SUBSET levels[0] : Least(files)
  BY DEF InLevels!GetOverlappingInputs
<1> HIDE DEF Least
<1>3. LET g == InLevels!GetOverlappingInputs(0, range) IN g \in SUBSET levels[0] /\ Least(g)
  BY <1>1, <1>2
<1> QED BY <1>3 DEF Least, Closed

(* What both kinds of level have: the files that overlap the range are     *)
(* taken, and in level 0 those that share a key with one that is taken.    *)
LEMMA InputsOverlap ==
  ASSUME NEW l \in InLevels!Level, FilesOf(l), NEW range \in SUBSET InLevels!Keys
  PROVE  /\ InLevels!GetOverlappingInputs(l, range) \in SUBSET levels[l]
         /\ \A f \in levels[l] : InLevels!Overlaps(f, range) => f \in InLevels!GetOverlappingInputs(l, range)
<1>1. CASE l = 0
  <2> DEFINE g == InLevels!GetOverlappingInputs(0, range)
             wide == InLevels!GetRange(g) \cup range
  <2>1. g \in SUBSET levels[0] /\ g = InLevels!Touching(0, wide)
    BY <1>1, Level0Inputs DEF Closed
  <2>2. wide \in SUBSET InLevels!Keys /\ range \subseteq wide
    BY <1>1, <2>1, RangeIs DEF FilesOf
  <2> HIDE DEF wide
  <2>3. \A f \in levels[0] : InLevels!Overlaps(f, range) => InLevels!Overlaps(f, wide)
    BY <1>1, <2>2, OverlapsMore DEF FilesOf
  <2>4. \A f \in levels[0] : InLevels!Overlaps(f, range) => f \in g
    BY <2>1, <2>3 DEF InLevels!Touching
  <2> QED BY <1>1, <2>1, <2>4
<1>2. CASE l # 0
  <2>1. l > 0
    BY <1>2, LevelConstants
  <2> QED BY <2>1 DEF InLevels!GetOverlappingInputs, InLevels!Touching
<1> QED BY <1>1, <1>2

LEMMA InputsShare ==
  ASSUME FilesOf(0), NEW range \in SUBSET InLevels!Keys,
         NEW f \in levels[0], NEW g \in InLevels!GetOverlappingInputs(0, range),
         NEW e \in g.entries, HasKey(f, e.key)
  PROVE  f \in InLevels!GetOverlappingInputs(0, range)
<1> DEFINE G == InLevels!GetOverlappingInputs(0, range)
           wide == InLevels!GetRange(G) \cup range
<1>1. G \in SUBSET levels[0] /\ G = InLevels!Touching(0, wide)
  BY Level0Inputs DEF Closed
<1>2. wide \in SUBSET InLevels!Keys /\ e.key \in wide
  BY <1>1, RangeIs DEF FilesOf
<1> HIDE DEF wide
<1>3. InLevels!Overlaps(f, wide)
  BY <1>2, HoldsOverlaps DEF FilesOf
<1> QED BY <1>1, <1>3 DEF InLevels!Touching

(* Below level 0 exactly those.                                            *)
LEMMA LowerInputs ==
  ASSUME NEW l \in InLevels!Level, l # 0, NEW range
  PROVE  InLevels!GetOverlappingInputs(l, range) = InLevels!Touching(l, range)
<1>1. l > 0
  BY LevelConstants
<1> QED BY <1>1 DEF InLevels!GetOverlappingInputs

-----------------------------------------------------------------------------
(* What a compaction takes: in level 0 with each file those that share a   *)
(* key with it; of the next level exactly those that overlap its range.    *)
Sharing(files) ==
  \A f \in levels[0], g \in files : \A e \in g.entries : HasKey(f, e.key) => f \in files
Picked(l, files) == files \in SUBSET levels[l] /\ files # {} /\ (l = 0 => Sharing(files))
Chosen(l, c) ==
  Picked(l, c.inputs) /\ c.parents = InLevels!Touching(l + 1, InLevels!GetRange(c.inputs))

LEMMA LevelsAreFiles ==
  ASSUME LevelsTyped, NEW l \in InLevels!Level
  PROVE  FilesOf(l) /\ levels[l] \in SUBSET FileOf(history) /\ IsFiniteSet(levels[l])
<1>1. levels[l] \in SUBSET FileOf(history) /\ IsFiniteSet(levels[l])
  BY LevelConstants DEF LevelsTyped
<1>2. history \subseteq InLevels!Entry
  BY DEF LevelsTyped
<1>3. ASSUME NEW f \in levels[l] PROVE IsFile(f)
  <2>1. f \in FileOf(history)
    BY <1>1
  <2>2. f.entries \subseteq history /\ f.entries # {}
    BY <2>1 DEF FileOf
  <2> QED BY <1>2, <2>2 DEF IsFile
<1> QED BY <1>1, <1>3 DEF FilesOf

LEMMA OverlapsItself ==
  ASSUME NEW files, \A f \in files : IsFile(f), NEW f \in files
  PROVE  InLevels!Overlaps(f, InLevels!GetRange(files))
<1>1. PICK e \in f.entries : TRUE
  BY DEF IsFile
<1>2. InLevels!GetRange(files) \in SUBSET InLevels!Keys /\ e.key \in InLevels!GetRange(files)
  BY RangeIs
<1>3. HasKey(f, e.key)
  BY DEF HasKey
<1> QED BY <1>2, <1>3, HoldsOverlaps

LEMMA OverlappingArePicked ==
  ASSUME LevelsTyped, NEW l \in InLevels!Level, NEW range \in SUBSET InLevels!Keys,
         InLevels!GetOverlappingInputs(l, range) # {}
  PROVE  Picked(l, InLevels!GetOverlappingInputs(l, range))
<1>1. FilesOf(l)
  BY LevelsAreFiles
<1>2. InLevels!GetOverlappingInputs(l, range) \in SUBSET levels[l]
  BY <1>1, InputsOverlap
<1>3. l = 0 => Sharing(InLevels!GetOverlappingInputs(l, range))
  BY <1>1, InputsShare DEF Sharing
<1> QED BY <1>2, <1>3 DEF Picked

LEMMA PickCompactionPicks ==
  ASSUME LevelsTyped, NEW l \in InLevels!Level, NEW inputs \in InLevels!PickCompaction(l)
  PROVE  Picked(l, inputs)
<1>1. PICK f \in levels[l] : inputs = IF l = 0 THEN InLevels!GetOverlappingInputs(0, InLevels!GetRange({f}))
                                      ELSE {f}
  BY DEF InLevels!PickCompaction
<1>2. CASE l # 0
  BY <1>1, <1>2 DEF Picked
<1>3. CASE l = 0
  <2>1. FilesOf(0) /\ IsFile(f)
    BY <1>3, LevelsAreFiles DEF FilesOf
  <2>2. InLevels!GetRange({f}) \in SUBSET InLevels!Keys /\ InLevels!Overlaps(f, InLevels!GetRange({f}))
    BY <2>1, RangeIs, OverlapsItself
  <2>3. f \in InLevels!GetOverlappingInputs(0, InLevels!GetRange({f}))
    BY <1>3, <2>1, <2>2, InputsOverlap
  <2> QED BY <1>1, <1>3, <2>2, <2>3, OverlappingArePicked
<1> QED BY <1>2, <1>3

LEMMA ManualInputsPick ==
  ASSUME LevelsTyped, NEW l \in InLevels!Level, NEW begin, NEW end,
         NEW inputs \in InLevels!ManualInputs(l, begin, end)
  PROVE  Picked(l, inputs)
<1> DEFINE reached == InLevels!Reached(l, begin, end)
           range == InLevels!GetRange(reached)
<1>1. reached \in SUBSET levels[l] /\ FilesOf(l)
  BY LevelsAreFiles DEF InLevels!Reached
<1>2. range \in SUBSET InLevels!Keys
  BY <1>1, RangeIs DEF FilesOf
<1> HIDE DEF reached
<1>3. CASE l = 0
  <2>1. /\ inputs = InLevels!GetOverlappingInputs(l, range) /\ inputs # {}
    BY <1>3 DEF InLevels!ManualInputs, reached
  <2> QED BY <1>2, <2>1, OverlappingArePicked
<1>4. CASE l # 0
  <2>1. PICK g \in reached : inputs = {f \in reached : ~InLevels!SmallerFile(g, f)}
    BY <1>4 DEF InLevels!ManualInputs, reached
  <2>2. IsFile(g)
    BY <1>1 DEF FilesOf
  <2>3. ~InLevels!SmallerFile(g, g)
    <3> SUFFICES ASSUME NEW e \in g.entries,
                        \A d \in g.entries : e.key < d.key \/ (e.key = d.key /\ e.seq > d.seq)
                 PROVE  FALSE
      BY DEF InLevels!SmallerFile
    <3> QED BY <2>2, EntryIs DEF IsFile
  <2> QED BY <1>1, <1>4, <2>1, <2>3 DEF Picked
<1> QED BY <1>3, <1>4

LEMMA SetupChooses ==
  ASSUME LevelsTyped, NEW l \in 0 .. Levels - 2, NEW inputs, Picked(l, inputs),
         NEW c \in InLevels!SetupOtherInputs(l, inputs)
  PROVE  Chosen(l, c) /\ inputs \subseteq c.inputs
<1> DEFINE parents  == InLevels!GetOverlappingInputs(l + 1, InLevels!GetRange(inputs))
           range    == InLevels!GetRange(inputs \cup parents)
           expanded == InLevels!GetOverlappingInputs(l, range)
           under    == InLevels!GetOverlappingInputs(l + 1, InLevels!GetRange(expanded))
<1>1. l \in InLevels!Level /\ l + 1 \in InLevels!Level /\ l + 1 # 0
  BY LevelConstants
<1>2. FilesOf(l) /\ FilesOf(l + 1) /\ IsFiniteSet(levels[l + 1])
  BY <1>1, LevelsAreFiles
<1>3. inputs \in SUBSET levels[l] /\ inputs # {} /\ (l = 0 => Sharing(inputs))
  BY DEF Picked
<1>4. InLevels!GetRange(inputs) \in SUBSET InLevels!Keys
  BY <1>2, <1>3, RangeIs DEF FilesOf
<1>5. parents \in SUBSET levels[l + 1] /\ parents = InLevels!Touching(l + 1, InLevels!GetRange(inputs))
  BY <1>1, <1>2, <1>4, InputsOverlap, LowerInputs
<1>6. CASE c = [inputs |-> inputs, parents |-> parents]
  BY <1>3, <1>5, <1>6 DEF Chosen, Picked
<1>7. CASE c # [inputs |-> inputs, parents |-> parents]
  <2>1. c = [inputs |-> expanded, parents |-> parents]
        /\ InLevels!Cardinality(under) = InLevels!Cardinality(parents)
    BY <1>7 DEF InLevels!SetupOtherInputs
  <2>2. range \in SUBSET InLevels!Keys /\ InLevels!GetRange(inputs) \subseteq range
    BY <1>2, <1>3, <1>5, RangeIs, RangeOfMore DEF FilesOf
  <2>3. \A f \in inputs : InLevels!Overlaps(f, InLevels!GetRange(inputs))
    BY <1>2, <1>3, OverlapsItself DEF FilesOf
  <2>4. \A f \in inputs : InLevels!Overlaps(f, range)
    BY <1>2, <1>3, <1>4, <2>2, <2>3, OverlapsMore DEF FilesOf
  <2>5. expanded \in SUBSET levels[l] /\ inputs \subseteq expanded
    <3> HIDE DEF range
    <3> QED BY <1>1, <1>2, <1>3, <2>2, <2>4, InputsOverlap
  <2>6. Picked(l, expanded)
    <3> HIDE DEF range
    <3> QED BY <1>1, <1>3, <2>2, <2>5, OverlappingArePicked
  <2> HIDE DEF range, expanded
  <2>7. InLevels!GetRange(expanded) \in SUBSET InLevels!Keys /\ InLevels!GetRange(inputs) \subseteq InLevels!GetRange(expanded)
    BY <1>2, <2>5, RangeIs, RangeOfMore DEF FilesOf
  <2>8. under \in SUBSET levels[l + 1] /\ under = InLevels!Touching(l + 1, InLevels!GetRange(expanded))
    BY <1>1, <1>2, <2>7, InputsOverlap, LowerInputs
  <2>9. parents \subseteq under
    BY <1>2, <1>4, <1>5, <2>7, <2>8, OverlapsMore DEF InLevels!Touching, FilesOf
  <2> HIDE DEF under, parents
  <2>10. Cardinality(under) = Cardinality(parents)
    BY <2>1, LevelConstants
  <2>11. IsFiniteSet(under)
    BY <1>2, <2>8, FS_Subset
  <2>12. parents = under
    BY <2>9, <2>10, <2>11, FS_Subset
  <2> QED BY <2>1, <2>5, <2>6, <2>8, <2>12 DEF Chosen
<1> QED BY <1>6, <1>7

-----------------------------------------------------------------------------
(* A memtable's table: CompactMemTable puts it where nothing overlaps it   *)
(* on the way, Reopen into level 0.                                        *)
MemTable == InLevels!Table(mem, next)
Flush(l) ==
  /\ mem # {} /\ mem' = {} /\ next' = next + 1 /\ l \in InLevels!Level
  /\ levels' = [levels EXCEPT ![l] = @ \cup {MemTable}]
  /\ l > 0 => \A m \in 0 .. l : ~InLevels!OverlapInLevel(m, InLevels!MemTableRange)
  /\ UNCHANGED <<lastSeq, history, divided>>
  /\ snapshots' \subseteq snapshots

LEMMA EverythingIs ==
  \A e : e \in InLevels!Everything <=>
           e \in mem \/ \E l \in InLevels!Level : \E f \in levels[l] : e \in f.entries
BY DEF InLevels!Everything

LEMMA LongerInterval ==
  ASSUME NEW a \in Int, NEW b \in Int, a <= b
  PROVE  \A x \in 0 .. a - 1 : x \in 0 .. b - 1
OBVIOUS

LEMMA FilesStayFiles ==
  ASSUME history \subseteq history', next \in Int, next' \in Int, next <= next'
  PROVE  FileOf(history) \subseteq FileOf(history)'
<1>1. \A x \in 0 .. next - 1 : x \in 0 .. next' - 1
  BY LongerInterval
<1>2. ((SUBSET history) \ {{}}) \subseteq ((SUBSET history') \ {{}})
  OBVIOUS
<1> QED BY <1>1, <1>2 DEF FileOf

LEMMA MemTableIs ==
  ASSUME LevelsTyped, mem # {}
  PROVE  /\ MemTable.entries = mem /\ MemTable.number = next
         /\ IsFile(MemTable)
         /\ InLevels!MemTableRange \in SUBSET InLevels!Keys
         /\ \A e \in mem : e.key \in InLevels!MemTableRange
<1>1. mem \subseteq InLevels!Entry
  BY DEF LevelsTyped
<1>2. MemTable.entries = mem /\ MemTable.number = next
  BY DEF MemTable, InLevels!Table
<1>3. \A e \in mem : e.key \in InLevels!Keys
  BY <1>1, EntryIs
<1> QED BY <1>1, <1>2, <1>3 DEF IsFile, InLevels!MemTableRange

LEMMA FlushTyped ==
  ASSUME LevelsTyped, NEW l, Flush(l), squeezed' \in BOOLEAN
  PROVE  LevelsTyped'
<1>1. next \in Nat \ {0} /\ next' = next + 1 /\ lastSeq \in Nat /\ mem \subseteq history
      /\ snapshots \subseteq 0 .. lastSeq /\ l \in InLevels!Level /\ mem # {}
  BY DEF Flush, LevelsTyped
<1>2. history' = history /\ lastSeq' = lastSeq /\ divided' = divided /\ mem' = {}
      /\ snapshots' \subseteq snapshots
  BY DEF Flush
<1>3. FileOf(history) \subseteq FileOf(history)'
  BY <1>1, <1>2, FilesStayFiles
<1>4. MemTable \in FileOf(history)'
  <2>1. next \in 0 .. next' - 1 /\ mem \in (SUBSET history') \ {{}}
    BY <1>1, <1>2
  <2> QED BY <2>1 DEF MemTable, InLevels!Table, FileOf
<1>5. \A m \in InLevels!Level : levels[m] \in SUBSET FileOf(history) /\ IsFiniteSet(levels[m])
  BY LevelsAreFiles
<1>6. levels \in [InLevels!Level -> SUBSET FileOf(history)]
      /\ levels' = [levels EXCEPT ![l] = @ \cup {MemTable}]
  BY DEF Flush, LevelsTyped
<1>7. IsFiniteSet(levels[l] \cup {MemTable})
  BY <1>1, <1>5, FS_AddElement
<1>8. levels' \in [InLevels!Level -> SUBSET FileOf(history)']
  BY <1>3, <1>4, <1>6
<1>9. \A m \in InLevels!Level : InLevels!IsFiniteSet(levels'[m])
  BY <1>5, <1>6, <1>7, LevelConstants
<1>10. history' \subseteq InLevels!Entry /\ (\A e \in history' : e.seq <= lastSeq')
       /\ (\A d, e \in history' : d.seq = e.seq => d = e)
       /\ divided' \subseteq InLevels!Keys
  BY <1>2 DEF LevelsTyped
<1>11. lastSeq' \in Nat /\ next' \in Nat \ {0} /\ mem' \subseteq history'
       /\ snapshots' \subseteq 0 .. lastSeq'
  BY <1>1, <1>2
<1> QED BY <1>8, <1>9, <1>10, <1>11 DEF LevelsTyped

(* The files after the flush, and that no older file above the table, or   *)
(* beside it, has a key of it.                                             *)
LEMMA FlushAdds ==
  ASSUME LevelsTyped, NEW l, Flush(l), NEW m \in InLevels!Level
  PROVE  levels'[m] = IF m = l THEN levels[m] \cup {MemTable} ELSE levels[m]
BY DEF Flush, LevelsTyped

LEMMA FlushAlone ==
  ASSUME LevelsTyped, NEW l, Flush(l), l # 0, NEW m \in 0 .. l, NEW f \in levels[m]
  PROVE  /\ \A e \in mem : ~HasKey(f, e.key)
         /\ Ahead(f.entries, mem) \/ Ahead(mem, f.entries)
<1>1. l > 0 /\ m \in InLevels!Level /\ mem # {}
  BY LevelConstants DEF Flush
<1>2. IsFile(f)
  BY <1>1, LevelsAreFiles DEF FilesOf
<1>3. ~InLevels!Overlaps(f, InLevels!MemTableRange)
  BY <1>1 DEF Flush, InLevels!OverlapInLevel
<1>4. InLevels!MemTableRange \in SUBSET InLevels!Keys /\ \A e \in mem : e.key \in InLevels!MemTableRange
  BY <1>1, MemTableIs
<1>5. \A e \in mem : ~HasKey(f, e.key)
  BY <1>2, <1>3, <1>4, HoldsOverlaps
<1>6. \/ \A e \in f.entries : \A k \in InLevels!MemTableRange : e.key < k
      \/ \A e \in f.entries : \A k \in InLevels!MemTableRange : k < e.key
  BY <1>2, <1>3, <1>4, OneSide
<1>7. \/ \A e \in f.entries, d \in mem : e.key < d.key
      \/ \A e \in f.entries, d \in mem : d.key < e.key
  BY <1>4, <1>6
<1>8. Ahead(f.entries, mem) \/ Ahead(mem, f.entries)
  BY <1>7 DEF Ahead, InLevels!Before
<1> QED BY <1>5, <1>8

LEMMA FlushKeepsMemNewest ==
  ASSUME LevelsTyped, NEW l, Flush(l)
  PROVE  MemNewest'
BY DEF Flush, MemNewest, Older

LEMMA FlushKeepsLevel0 ==
  ASSUME LevelsTyped, NEW l, Flush(l), MemNewest, Level0Ordered
  PROVE  Level0Ordered'
<1>1. 0 \in InLevels!Level /\ mem # {} /\ next \in Nat
  BY LevelConstants DEF Flush, LevelsTyped
<1>2. CASE l # 0
  BY <1>1, <1>2, FlushAdds DEF Level0Ordered
<1>3. CASE l = 0
  <2>1. levels'[0] = levels[0] \cup {MemTable}
    BY <1>1, <1>3, FlushAdds
  <2>2. MemTable.entries = mem /\ MemTable.number = next
    BY <1>1, MemTableIs
  <2>3. \A f \in levels[0] : f.number < next
    <3> SUFFICES ASSUME NEW f \in levels[0] PROVE f.number < next
      OBVIOUS
    <3>1. f.number \in 0 .. next - 1
      BY <1>1, LevelsAreFiles DEF FileOf
    <3> QED BY <1>1, <3>1
  <2>4. \A f \in levels[0] : Older(f.entries, mem)
    BY <1>1 DEF MemNewest
  <2> SUFFICES ASSUME NEW f \in levels'[0], NEW g \in levels'[0], f # g
               PROVE  \/ f.number < g.number /\ Older(f.entries, g.entries)
                      \/ g.number < f.number /\ Older(g.entries, f.entries)
    BY DEF Level0Ordered, Older
  <2>5. CASE f = MemTable
    BY <2>1, <2>2, <2>3, <2>4, <2>5
  <2>6. CASE g = MemTable
    BY <2>1, <2>2, <2>3, <2>4, <2>6
  <2>7. CASE f # MemTable /\ g # MemTable
    BY <2>1, <2>7 DEF Level0Ordered
  <2> QED BY <2>5, <2>6, <2>7
<1> QED BY <1>2, <1>3

LEMMA FlushKeepsDisjoint ==
  ASSUME LevelsTyped, NEW l, Flush(l), InLevels!Disjoint
  PROVE  InLevels!Disjoint'
<1> SUFFICES ASSUME NEW m \in 1 .. Levels - 1, NEW f \in levels'[m], NEW g \in levels'[m], f # g
             PROVE  Ahead(f.entries, g.entries) \/ Ahead(g.entries, f.entries)
  BY DEF InLevels!Disjoint, Ahead, InLevels!Before
<1>1. m \in InLevels!Level /\ m # 0 /\ m \in 0 .. m /\ mem # {}
  BY LevelConstants DEF Flush
<1>2. levels'[m] = IF m = l THEN levels[m] \cup {MemTable} ELSE levels[m]
  BY <1>1, FlushAdds
<1>3. MemTable.entries = mem
  BY <1>1, MemTableIs
<1>4. CASE f \in levels[m] /\ g \in levels[m]
  BY <1>4 DEF InLevels!Disjoint, Ahead
<1>5. CASE f \notin levels[m]
  BY <1>1, <1>2, <1>3, <1>5, FlushAlone
<1>6. CASE g \notin levels[m]
  BY <1>1, <1>2, <1>3, <1>6, FlushAlone
<1> QED BY <1>4, <1>5, <1>6

LEMMA FlushKeepsUndivided ==
  ASSUME LevelsTyped, NEW l, Flush(l), Undivided
  PROVE  Undivided'
<1> SUFFICES ASSUME NEW k \in InLevels!Keys \ divided, NEW m \in 1 .. Levels - 1,
                    NEW f \in levels'[m], NEW g \in levels'[m], HasKey(f, k), HasKey(g, k)
             PROVE  f = g
  BY DEF Undivided, Flush, HasKey
<1>1. m \in InLevels!Level /\ m # 0 /\ m \in 0 .. m /\ mem # {}
  BY LevelConstants DEF Flush
<1>2. levels'[m] = IF m = l THEN levels[m] \cup {MemTable} ELSE levels[m]
  BY <1>1, FlushAdds
<1>3. MemTable.entries = mem
  BY <1>1, MemTableIs
<1>4. CASE f \in levels[m] /\ g \in levels[m]
  BY <1>4 DEF Undivided
<1>5. CASE f \notin levels[m]
  <2>1. f = MemTable /\ m = l /\ \E e \in mem : e.key = k
    BY <1>2, <1>3, <1>5 DEF HasKey
  <2> QED BY <1>1, <1>2, <2>1, FlushAlone
<1>6. CASE g \notin levels[m]
  <2>1. g = MemTable /\ m = l /\ \E e \in mem : e.key = k
    BY <1>2, <1>3, <1>6 DEF HasKey
  <2> QED BY <1>1, <1>2, <2>1, FlushAlone
<1> QED BY <1>4, <1>5, <1>6

LEMMA FlushKeepsOrdered ==
  ASSUME LevelsTyped, NEW l, Flush(l), MemNewest, Ordered
  PROVE  Ordered'
<1> SUFFICES ASSUME NEW k \in InLevels!Keys \ divided, NEW a \in InLevels!Level, NEW b \in InLevels!Level, a < b,
                    NEW f \in levels'[a], NEW g \in levels'[b]
             PROVE  OlderAt(k, g.entries, f.entries)
  BY DEF Ordered, Flush, OlderAt
<1>1. a \in 0 .. b /\ b # 0 /\ mem # {} /\ a # b
  BY LevelConstants DEF Flush
<1>2. /\ levels'[a] = IF a = l THEN levels[a] \cup {MemTable} ELSE levels[a]
      /\ levels'[b] = IF b = l THEN levels[b] \cup {MemTable} ELSE levels[b]
  BY FlushAdds
<1>3. MemTable.entries = mem
  BY <1>1, MemTableIs
<1>4. CASE f \in levels[a] /\ g \in levels[b]
  BY <1>4 DEF Ordered
<1>5. CASE f \notin levels[a]
  BY <1>1, <1>2, <1>3, <1>5 DEF MemNewest, Older, OlderAt
<1>6. CASE g \notin levels[b] /\ f \in levels[a]
  <2>1. g = MemTable /\ b = l
    BY <1>2, <1>6
  <2>2. \A e \in mem : ~HasKey(f, e.key)
    BY <1>1, <1>6, <2>1, FlushAlone
  <2> QED BY <1>3, <2>1, <2>2 DEF OlderAt, HasKey
<1> QED BY <1>4, <1>5, <1>6

LEMMA FlushKeepsEntries ==
  ASSUME LevelsTyped, NEW l, Flush(l)
  PROVE  InLevels!Everything' = InLevels!Everything
<1>1. mem # {} /\ mem' = {} /\ l \in InLevels!Level
  BY DEF Flush
<1>2. MemTable.entries = mem
  BY <1>1, MemTableIs
<1>3. \A m \in InLevels!Level : levels'[m] = IF m = l THEN levels[m] \cup {MemTable} ELSE levels[m]
  BY FlushAdds
<1>4. \A e : e \in InLevels!Everything' <=> \E m \in InLevels!Level : \E f \in levels'[m] : e \in f.entries
  BY <1>1 DEF InLevels!Everything
<1>5. \A e : e \in InLevels!Everything' => e \in InLevels!Everything
  BY <1>2, <1>3, <1>4, EverythingIs
<1>6. ASSUME NEW e \in InLevels!Everything PROVE e \in InLevels!Everything'
  <2>1. CASE e \in mem
    <3>1. MemTable \in levels'[l] /\ e \in MemTable.entries
      BY <1>1, <1>2, <1>3, <2>1
    <3> QED BY <1>1, <1>4, <3>1
  <2>2. CASE e \notin mem
    <3>1. PICK m \in InLevels!Level : \E f \in levels[m] : e \in f.entries
      BY <2>2, EverythingIs
    <3> QED BY <1>3, <1>4, <3>1
  <2> QED BY <2>1, <2>2
<1> QED BY <1>5, <1>6

LEMMA FlushKeepsRetained ==
  ASSUME LevelsTyped, NEW l, Flush(l), Retained
  PROVE  Retained'
<1>1. InLevels!Everything' = InLevels!Everything
  BY FlushKeepsEntries
<1>2. history' = history /\ divided' = divided /\ lastSeq' = lastSeq
      /\ snapshots' \subseteq snapshots
  BY DEF Flush
<1>3. \A h, k, s : Newest(h, k, s)' <=> Newest(h, k, s)
  BY <1>2 DEF Newest
<1> SUFFICES ASSUME NEW k \in InLevels!Keys \ divided, NEW s \in snapshots \cup {lastSeq},
                    NEW h \in history, Newest(h, k, s)
             PROVE  \/ h \in InLevels!Everything
                    \/ h.del /\ \A e \in InLevels!Everything : e.key = k => e.seq > s
  BY <1>1, <1>2, <1>3 DEF Retained
<1> QED BY DEF Retained

-----------------------------------------------------------------------------
(* What a compaction takes lies apart from what it leaves.                 *)
LEMMA DisjointIs ==
  InLevels!Disjoint <=>
           \A l \in 1 .. Levels - 1 : \A f, g \in levels[l] :
             f # g => Ahead(f.entries, g.entries) \/ Ahead(g.entries, f.entries)
BY DEF InLevels!Disjoint, Ahead

LEMMA BelowApart ==
  ASSUME LevelsTyped, InLevels!Disjoint, NEW l \in 0 .. Levels - 2, NEW c, Chosen(l, c)
  PROVE  OthersApart(l, c)
<1> DEFINE range == InLevels!GetRange(c.inputs)
<1>1. l \in InLevels!Level /\ l + 1 \in InLevels!Level /\ l + 1 \in 1 .. Levels - 1
  BY LevelConstants
<1>2. c.inputs \in SUBSET levels[l] /\ c.inputs # {} /\ c.parents = InLevels!Touching(l + 1, range)
  BY DEF Chosen, Picked
<1>3. (\A f \in levels[l + 1] : IsFile(f)) /\ (\A g \in c.inputs : IsFile(g))
  BY <1>1, <1>2, LevelsAreFiles DEF FilesOf
<1>4. range \in SUBSET InLevels!Keys /\ \A g \in c.inputs : \A e \in g.entries : e.key \in range
  BY <1>3, RangeIs
<1> HIDE DEF range
<1>5. c.parents \in SUBSET levels[l + 1]
  BY <1>2 DEF InLevels!Touching
<1> SUFFICES ASSUME NEW f \in levels[l + 1] \ c.parents
             PROVE  /\ Ahead(f.entries, Work(c)) \/ Ahead(Work(c), f.entries)
                    /\ \A g \in c.inputs : \A e \in g.entries : ~HasKey(f, e.key)
  BY DEF OthersApart
<1>6. IsFile(f) /\ ~InLevels!Overlaps(f, range)
  BY <1>2, <1>3 DEF InLevels!Touching
<1>7. \A g \in c.inputs : \A e \in g.entries : ~HasKey(f, e.key)
  BY <1>4, <1>6, HoldsOverlaps
<1>8. \A e \in f.entries : e.key \in Int
  BY <1>6, EntryIs DEF IsFile
<1>9. \A k \in range : k \in Int
  BY <1>4, LevelConstants
<1>10. PICK x \in f.entries : TRUE
  BY <1>6 DEF IsFile
<1>11. ASSUME NEW p \in c.parents
       PROVE  /\ \E e \in p.entries : \E k \in range : e.key \in Int /\ k <= e.key
              /\ \E e \in p.entries : \E k \in range : e.key \in Int /\ e.key <= k
              /\ Ahead(f.entries, p.entries) \/ Ahead(p.entries, f.entries)
  <2>1. IsFile(p) /\ InLevels!Overlaps(p, range) /\ p \in levels[l + 1] /\ p # f
    BY <1>2, <1>3, <1>5 DEF InLevels!Touching
  <2>2. PICK a, b \in range : a <= InLevels!Largest(p) /\ InLevels!Smallest(p) <= b
    BY <1>4, <2>1, OverlapsIs
  <2>3. /\ InLevels!Smallest(p) \in Int /\ InLevels!Largest(p) \in Int
        /\ HasKey(p, InLevels!Smallest(p)) /\ HasKey(p, InLevels!Largest(p))
    BY <2>1, FileKeys, LevelConstants
  <2>4. Ahead(f.entries, p.entries) \/ Ahead(p.entries, f.entries)
    BY <1>1, <2>1, DisjointIs
  <2> QED BY <2>2, <2>3, <2>4 DEF HasKey
<1>12. CASE \A e \in f.entries : \A k \in range : e.key < k
  <2> SUFFICES ASSUME NEW d \in f.entries, NEW e \in Work(c)
               PROVE  InLevels!Before(d.key, d.seq, e)
    BY <1>7 DEF Ahead
  <2>1. CASE e \in EntriesIn(c.inputs)
    BY <1>4, <1>12, <2>1 DEF EntriesIn, InLevels!Before
  <2>2. CASE e \in EntriesIn(c.parents)
    <3>1. PICK p \in c.parents : e \in p.entries
      BY <2>2 DEF EntriesIn
    <3>2. PICK y \in p.entries, k \in range : y.key \in Int /\ k <= y.key
      BY <1>11
    <3>3. d.key < k /\ d.key \in Int /\ k \in Int
      BY <1>8, <1>9, <1>12
    <3>4. ~Ahead(p.entries, f.entries)
      BY <3>2, <3>3 DEF Ahead, InLevels!Before
    <3> QED BY <1>11, <3>1, <3>4 DEF Ahead
  <2> QED BY <2>1, <2>2 DEF Work
<1>13. CASE \A e \in f.entries : \A k \in range : k < e.key
  <2> SUFFICES ASSUME NEW d \in f.entries, NEW e \in Work(c)
               PROVE  InLevels!Before(e.key, e.seq, d)
    BY <1>7 DEF Ahead
  <2>1. CASE e \in EntriesIn(c.inputs)
    BY <1>4, <1>13, <2>1 DEF EntriesIn, InLevels!Before
  <2>2. CASE e \in EntriesIn(c.parents)
    <3>1. PICK p \in c.parents : e \in p.entries
      BY <2>2 DEF EntriesIn
    <3>2. PICK y \in p.entries, k \in range : y.key \in Int /\ y.key <= k
      BY <1>11
    <3>3. k < d.key /\ d.key \in Int /\ k \in Int
      BY <1>8, <1>9, <1>13
    <3>4. ~Ahead(f.entries, p.entries)
      BY <3>2, <3>3 DEF Ahead, InLevels!Before
    <3> QED BY <1>11, <3>1, <3>4 DEF Ahead
  <2> QED BY <2>1, <2>2 DEF Work
<1>14. \/ \A e \in f.entries : \A k \in range : e.key < k
       \/ \A e \in f.entries : \A k \in range : k < e.key
  BY <1>4, <1>6, OneSide
<1> QED BY <1>7, <1>12, <1>13, <1>14

LEMMA BesideNewer ==
  ASSUME LevelsTyped, Undivided, NEW l \in 0 .. Levels - 2, NEW c, Chosen(l, c)
  PROVE  OthersNewer(l, c)
<1>1. c.inputs \in SUBSET levels[l] /\ (l = 0 => Sharing(c.inputs))
  BY DEF Chosen, Picked
<1>2. l # 0 => l \in 1 .. Levels - 1
  BY LevelConstants
<1> SUFFICES ASSUME NEW k \in InLevels!Keys \ divided, NEW f \in c.inputs,
                    NEW g \in levels[l] \ c.inputs,
                    NEW e \in f.entries, NEW d \in g.entries, e.key = k, d.key = k
             PROVE  FALSE
  BY DEF OthersNewer, OlderAt
<1>3. HasKey(f, k) /\ HasKey(g, k) /\ HasKey(g, e.key)
  BY DEF HasKey
<1>4. CASE l = 0
  BY <1>1, <1>3, <1>4 DEF Sharing
<1>5. CASE l # 0
  BY <1>1, <1>2, <1>3, <1>5 DEF Undivided
<1> QED BY <1>4, <1>5

-----------------------------------------------------------------------------
(* Files of a level, and of the next, make way for others in the next: a   *)
(* move, or the output of a compaction.                                    *)
Apart(files) ==
  \A f, g \in files : f # g => Ahead(f.entries, g.entries) \/ Ahead(g.entries, f.entries)
Shift(l, c, outs) ==
  /\ l \in 0 .. Levels - 2
  /\ c.inputs \subseteq levels[l] /\ c.parents \subseteq levels[l + 1]
  /\ outs \subseteq FileOf(history) /\ IsFiniteSet(outs)
  /\ EntriesIn(outs) \subseteq Work(c)
  /\ levels' = [levels EXCEPT ![l] = @ \ c.inputs, ![l + 1] = (@ \ c.parents) \cup outs]
  /\ divided \subseteq divided' /\ divided' \subseteq InLevels!Keys
  /\ UNCHANGED <<mem, next, lastSeq, snapshots, history>>

LEMMA ShiftMoves ==
  ASSUME LevelsTyped, NEW l, NEW c, NEW outs, Shift(l, c, outs), NEW m \in InLevels!Level
  PROVE  levels'[m] = IF m = l THEN levels[m] \ c.inputs
                      ELSE IF m = l + 1 THEN (levels[m] \ c.parents) \cup outs
                      ELSE levels[m]
<1>1. l \in InLevels!Level /\ l + 1 \in InLevels!Level /\ l # l + 1
  BY LevelConstants DEF Shift
<1>2. levels \in [InLevels!Level -> SUBSET FileOf(history)]
      /\ levels' = [levels EXCEPT ![l] = @ \ c.inputs, ![l + 1] = (@ \ c.parents) \cup outs]
  BY DEF Shift, LevelsTyped
<1> QED BY <1>1, <1>2

LEMMA ShiftTyped ==
  ASSUME LevelsTyped, NEW l, NEW c, NEW outs, Shift(l, c, outs), squeezed' \in BOOLEAN
  PROVE  LevelsTyped'
<1>1. l \in InLevels!Level /\ l + 1 \in InLevels!Level /\ l # l + 1
  BY LevelConstants DEF Shift
<1>2. levels \in [InLevels!Level -> SUBSET FileOf(history)]
      /\ levels' = [levels EXCEPT ![l] = @ \ c.inputs, ![l + 1] = (@ \ c.parents) \cup outs]
      /\ outs \subseteq FileOf(history) /\ IsFiniteSet(outs)
      /\ next' = next /\ history' = history
  BY DEF Shift, LevelsTyped
<1>3. FileOf(history)' = FileOf(history)
  BY <1>2 DEF FileOf
<1>4. levels' \in [InLevels!Level -> SUBSET FileOf(history)']
  BY <1>1, <1>2, <1>3
<1>5. \A m \in InLevels!Level : IsFiniteSet(levels[m])
  BY LevelsAreFiles
<1>6. \A S, T : IsFiniteSet(S) => IsFiniteSet(S \ T)
  BY FS_Difference
<1>7. IsFiniteSet(levels[l] \ c.inputs) /\ IsFiniteSet(levels[l + 1] \ c.parents)
  BY <1>1, <1>5, <1>6
<1>8. IsFiniteSet((levels[l + 1] \ c.parents) \cup outs)
  BY <1>2, <1>7, FS_Union
<1>9. \A m \in InLevels!Level : IsFiniteSet(levels'[m])
  BY <1>1, <1>2, <1>5, <1>7, <1>8
<1>10. \A m \in InLevels!Level : InLevels!IsFiniteSet(levels'[m])
  BY <1>9, LevelConstants
<1> QED BY <1>4, <1>10 DEF Shift, LevelsTyped

(* Each file there was there, at the same level, or is one of those put in *)
(* the next; its entries then come from the files that made way.           *)
LEMMA ShiftFrom ==
  ASSUME LevelsTyped, NEW l, NEW c, NEW outs, Shift(l, c, outs),
         NEW m \in InLevels!Level, NEW f \in levels'[m]
  PROVE  \/ f \in levels[m] /\ (m = l => f \notin c.inputs) /\ (m = l + 1 => f \notin c.parents)
         \/ f \in outs /\ m = l + 1
<1>1. l # l + 1
  BY LevelConstants DEF Shift
<1>2. CASE m = l
  <2>1. levels'[m] = levels[m] \ c.inputs
    BY <1>2, ShiftMoves
  <2> QED BY <1>1, <1>2, <2>1
<1>3. CASE m = l + 1
  <2>1. levels'[m] = (levels[m] \ c.parents) \cup outs
    BY <1>1, <1>3, ShiftMoves
  <2> QED BY <1>1, <1>3, <2>1
<1>4. CASE m # l /\ m # l + 1
  BY <1>4, ShiftMoves
<1> QED BY <1>2, <1>3, <1>4

LEMMA OutEntries ==
  ASSUME NEW l, NEW c, NEW outs, Shift(l, c, outs), NEW f \in outs, NEW e \in f.entries
  PROVE  \/ \E g \in c.inputs : g \in levels[l] /\ e \in g.entries
         \/ \E g \in c.parents : g \in levels[l + 1] /\ e \in g.entries
<1>1. e \in Work(c)
  BY DEF Shift, EntriesIn
<1> QED BY <1>1 DEF Work, EntriesIn, Shift

LEMMA ShiftKeepsMemNewest ==
  ASSUME LevelsTyped, NEW l, NEW c, NEW outs, Shift(l, c, outs), MemNewest
  PROVE  MemNewest'
<1>1. l \in InLevels!Level /\ l + 1 \in InLevels!Level
  BY LevelConstants DEF Shift
<1> SUFFICES ASSUME NEW m \in InLevels!Level, NEW f \in levels'[m], NEW e \in f.entries, NEW d \in mem
             PROVE  e.seq < d.seq
  BY DEF MemNewest, Older, Shift
<1>2. CASE f \in levels[m]
  BY <1>2 DEF MemNewest, Older
<1>3. CASE f \in outs
  <2>1. \/ \E g \in levels[l] : e \in g.entries
        \/ \E g \in levels[l + 1] : e \in g.entries
    BY <1>3, OutEntries
  <2> QED BY <1>1, <2>1 DEF MemNewest, Older
<1> QED BY <1>2, <1>3, ShiftFrom

LEMMA ShiftKeepsLevel0 ==
  ASSUME LevelsTyped, NEW l, NEW c, NEW outs, Shift(l, c, outs), Level0Ordered
  PROVE  Level0Ordered'
<1>1. 0 \in InLevels!Level /\ 0 # l + 1
  BY LevelConstants DEF Shift
<1>2. levels'[0] \subseteq levels[0]
  BY <1>1, ShiftMoves
<1> QED BY <1>2 DEF Level0Ordered, Older

LEMMA ShiftKeepsDisjoint ==
  ASSUME LevelsTyped, NEW l, NEW c, NEW outs, Shift(l, c, outs),
         InLevels!Disjoint, OthersApart(l, c), Apart(outs)
  PROVE  InLevels!Disjoint'
<1> SUFFICES ASSUME NEW m \in 1 .. Levels - 1, NEW f \in levels'[m], NEW g \in levels'[m], f # g
             PROVE  Ahead(f.entries, g.entries) \/ Ahead(g.entries, f.entries)
  BY DEF InLevels!Disjoint, Ahead, InLevels!Before
<1>1. m \in InLevels!Level
  BY LevelConstants
<1>2. CASE f \in levels[m] /\ g \in levels[m]
  BY <1>2, DisjointIs
<1>3. CASE f \in outs /\ g \in outs
  BY <1>3 DEF Apart
<1>4. \A h \in outs : h.entries \subseteq Work(c)
  BY DEF Shift, EntriesIn
<1>5. CASE f \in outs /\ g \notin outs /\ m = l + 1
  <2>1. g \in levels[l + 1] \ c.parents
    BY <1>1, <1>5, ShiftFrom
  <2>2. Ahead(g.entries, Work(c)) \/ Ahead(Work(c), g.entries)
    BY <2>1 DEF OthersApart
  <2> QED BY <1>4, <1>5, <2>2 DEF Ahead
<1>6. CASE g \in outs /\ f \notin outs /\ m = l + 1
  <2>1. f \in levels[l + 1] \ c.parents
    BY <1>1, <1>6, ShiftFrom
  <2>2. Ahead(f.entries, Work(c)) \/ Ahead(Work(c), f.entries)
    BY <2>1 DEF OthersApart
  <2> QED BY <1>4, <1>6, <2>2 DEF Ahead
<1> QED BY <1>1, <1>2, <1>3, <1>5, <1>6, ShiftFrom

LEMMA ShiftKeepsOrdered ==
  ASSUME LevelsTyped, NEW l, NEW c, NEW outs, Shift(l, c, outs),
         Ordered, OthersNewer(l, c)
  PROVE  Ordered'
<1> SUFFICES ASSUME NEW k \in InLevels!Keys \ divided', NEW a \in InLevels!Level, NEW b \in InLevels!Level, a < b,
                    NEW f \in levels'[a], NEW g \in levels'[b],
                    NEW e \in f.entries, NEW d \in g.entries, e.key = k, d.key = k
             PROVE  d.seq < e.seq
  BY DEF Ordered, OlderAt
<1>1. k \in InLevels!Keys \ divided /\ l \in InLevels!Level /\ l + 1 \in InLevels!Level /\ l \in Int
      /\ a \in Int /\ b \in Int
  BY LevelConstants DEF Shift
<1>2. \A x, y \in InLevels!Level : x < y =>
        \A p \in levels[x], q \in levels[y] : e \in p.entries /\ d \in q.entries => d.seq < e.seq
  BY <1>1 DEF Ordered, OlderAt
<1>3. CASE f \in levels[a] /\ g \in levels[b]
  BY <1>2, <1>3
<1>4. CASE f \in outs /\ a = l + 1 /\ g \in levels[b]
  <2>1. \/ \E h \in levels[l] : e \in h.entries
        \/ \E h \in levels[l + 1] : e \in h.entries
    BY <1>4, OutEntries
  <2>2. l < b /\ l + 1 < b
    BY <1>1, <1>4
  <2> QED BY <1>1, <1>2, <1>4, <2>1, <2>2
<1>5. CASE g \in outs /\ b = l + 1 /\ f \in levels[a]
  <2>1. a < l \/ a = l
    BY <1>1, <1>5
  <2>2. CASE \E h \in c.parents : h \in levels[l + 1] /\ d \in h.entries
    BY <1>1, <1>2, <1>5, <2>2
  <2>3. CASE a < l /\ \E h \in c.inputs : h \in levels[l] /\ d \in h.entries
    BY <1>1, <1>2, <1>5, <2>3
  <2>4. CASE a = l /\ \E h \in c.inputs : h \in levels[l] /\ d \in h.entries
    <3>a. levels'[l] = levels[l] \ c.inputs
      BY <1>1, ShiftMoves
    <3>1. f \in levels[l] \ c.inputs
      BY <2>4, <3>a
    <3> QED BY <1>1, <2>4, <3>1 DEF OthersNewer, OlderAt
  <2> QED BY <1>5, <2>1, <2>2, <2>3, <2>4, OutEntries
<1> QED BY <1>1, <1>3, <1>4, <1>5, ShiftFrom

LEMMA ShiftKeepsUndivided ==
  ASSUME LevelsTyped, NEW l, NEW c, NEW outs, Shift(l, c, outs), Undivided,
         \A k \in InLevels!Keys \ divided' : \A f, g \in levels'[l + 1] :
           HasKey(f, k) /\ HasKey(g, k) => f = g
  PROVE  Undivided'
<1> SUFFICES ASSUME NEW k \in InLevels!Keys \ divided', NEW m \in 1 .. Levels - 1,
                    NEW f \in levels'[m], NEW g \in levels'[m], HasKey(f, k), HasKey(g, k)
             PROVE  f = g
  BY DEF Undivided, HasKey
<1>1. k \in InLevels!Keys \ divided /\ m \in InLevels!Level
  BY LevelConstants DEF Shift
<1>2. CASE m = l + 1
  BY <1>2
<1>3. CASE m # l + 1
  <2>1. f \in levels[m] /\ g \in levels[m]
    BY <1>1, <1>3, ShiftFrom
  <2> QED BY <1>1, <2>1 DEF Undivided
<1> QED BY <1>2, <1>3

-----------------------------------------------------------------------------
(* The compaction that runs, while others write, flush and take snapshots. *)
LEMMA FlushKeepsJob ==
  ASSUME LevelsTyped, JobTyped, NEW l, Flush(l), job' = job
  PROVE  JobTyped'
<1>1. \A m \in InLevels!Level : levels[m] \subseteq levels'[m]
  BY FlushAdds
<1> SUFFICES ASSUME job.on
             PROVE  /\ job.inputs \subseteq levels'[job.level]
                    /\ job.parents \subseteq levels'[job.level + 1]
  BY DEF JobTyped
<1>2. job.level \in InLevels!Level /\ job.level + 1 \in InLevels!Level
      /\ job.inputs \subseteq levels[job.level] /\ job.parents \subseteq levels[job.level + 1]
  BY LevelConstants DEF JobTyped
<1> QED BY <1>1, <1>2

LEMMA WorkIsThere ==
  ASSUME LevelsTyped, JobTyped, job.on
  PROVE  /\ job.level \in InLevels!Level /\ job.level + 1 \in InLevels!Level
         /\ job.inputs \subseteq levels[job.level]
         /\ job.parents \subseteq levels[job.level + 1]
         /\ \A f \in job.inputs \cup job.parents : IsFile(f)
         /\ \A e \in Work(job) : \E f \in job.inputs \cup job.parents : e \in f.entries
<1>1. /\ job.level \in InLevels!Level /\ job.level + 1 \in InLevels!Level
      /\ job.inputs \subseteq levels[job.level]
      /\ job.parents \subseteq levels[job.level + 1]
  BY LevelConstants DEF JobTyped
<1>2. \A f \in job.inputs \cup job.parents : IsFile(f)
  BY <1>1, LevelsAreFiles DEF FilesOf
<1>3. \A e \in Work(job) : \E f \in job.inputs \cup job.parents : e \in f.entries
  BY DEF Work, EntriesIn
<1> QED BY <1>1, <1>2, <1>3

(* A table that is not put between the inputs.                             *)
NotSqueezed(l) ==
  job.on /\ l = job.level + 1 =>
    ~InLevels!Overlaps(MemTable, InLevels!GetRange(job.inputs \cup job.parents))

LEMMA FlushKeepsApart ==
  ASSUME LevelsTyped, JobTyped, job.on, NEW l, Flush(l), job' = job, NotSqueezed(l),
         OthersApart(job.level, job)
  PROVE  OthersApart(job.level, job)'
<1> DEFINE files == job.inputs \cup job.parents
           range == InLevels!GetRange(files)
<1> SUFFICES ASSUME NEW f \in levels'[job.level + 1] \ job.parents
             PROVE  /\ Ahead(f.entries, Work(job)) \/ Ahead(Work(job), f.entries)
                    /\ \A g \in job.inputs : \A e \in g.entries : ~HasKey(f, e.key)
  BY DEF OthersApart, Ahead, Work, EntriesIn, HasKey, InLevels!Before
<1>1. CASE f \in levels[job.level + 1]
  BY <1>1 DEF OthersApart
<1>2. CASE f \notin levels[job.level + 1]
  <2>0. levels'[job.level + 1] = IF job.level + 1 = l THEN levels[job.level + 1] \cup {MemTable}
                                ELSE levels[job.level + 1]
    BY FlushAdds, WorkIsThere
  <2>1. f = MemTable /\ l = job.level + 1
    BY <1>2, <2>0
  <2>2. IsFile(f) /\ ~InLevels!Overlaps(f, range)
    BY <2>1, MemTableIs DEF NotSqueezed, Flush
  <2>3. range \in SUBSET InLevels!Keys /\ \A g \in files : \A e \in g.entries : e.key \in range
    BY WorkIsThere, RangeIs
  <2> HIDE DEF range
  <2>4. \/ \A e \in f.entries : \A k \in range : e.key < k
        \/ \A e \in f.entries : \A k \in range : k < e.key
    BY <2>2, <2>3, OneSide
  <2>5. \A e \in Work(job) : e.key \in range
    BY <2>3, WorkIsThere
  <2>6. Ahead(f.entries, Work(job)) \/ Ahead(Work(job), f.entries)
    BY <2>4, <2>5 DEF Ahead, InLevels!Before
  <2>7. \A g \in job.inputs : \A e \in g.entries : ~HasKey(f, e.key)
    BY <2>2, <2>3, HoldsOverlaps
  <2> QED BY <2>6, <2>7
<1> QED BY <1>1, <1>2

LEMMA FlushKeepsNewer ==
  ASSUME LevelsTyped, JobTyped, job.on, NEW l, Flush(l), job' = job, MemNewest,
         OthersNewer(job.level, job)
  PROVE  OthersNewer(job.level, job)'
<1> SUFFICES ASSUME NEW k \in InLevels!Keys \ divided, NEW f \in job.inputs,
                    NEW g \in levels'[job.level] \ job.inputs
             PROVE  OlderAt(k, f.entries, g.entries)
  BY DEF OthersNewer, Flush, OlderAt
<1>1. CASE g \in levels[job.level]
  BY <1>1 DEF OthersNewer
<1>2. CASE g \notin levels[job.level]
  <2>0. levels'[job.level] = IF job.level = l THEN levels[job.level] \cup {MemTable}
                            ELSE levels[job.level]
    BY FlushAdds, WorkIsThere
  <2>1. g = MemTable
    BY <1>2, <2>0
  <2>2. g.entries = mem
    BY <2>1, MemTableIs DEF Flush
  <2>3. Older(f.entries, mem)
    BY WorkIsThere DEF MemNewest
  <2> QED BY <2>2, <2>3 DEF Older, OlderAt
<1> QED BY <1>1, <1>2

LEMMA FlushKeepsBase ==
  ASSUME LevelsTyped, JobTyped, job.on, NEW l, Flush(l), job' = job, BaseKnown
  PROVE  BaseKnown'
<1>0. job.level \in Nat /\ job.level \in InLevels!Level /\ job.level + 1 \in InLevels!Level
  BY WorkIsThere, LevelConstants
<1> SUFFICES ASSUME NEW m \in job.level + 2 .. Levels - 1, NEW f \in levels'[m] \ job.base,
                    NEW e \in Work(job), HasKey(f, e.key)
             PROVE  FALSE
  BY DEF BaseKnown, Work, EntriesIn, HasKey
<1>1. m \in InLevels!Level /\ m # 0 /\ job.level \in 0 .. m /\ job.level + 1 \in 0 .. m
  BY <1>0, LevelConstants
<1>2. CASE f \in levels[m]
  BY <1>2 DEF BaseKnown
<1>3. CASE f \notin levels[m]
  <2>1. f = MemTable /\ m = l
    BY <1>1, <1>3, FlushAdds
  <2>2. PICK d \in mem : d.key = e.key
    BY <2>1, MemTableIs DEF Flush, HasKey
  <2>3. PICK g \in job.inputs \cup job.parents : e \in g.entries
    BY WorkIsThere
  <2>4. g \in levels[job.level] \/ g \in levels[job.level + 1]
    BY WorkIsThere
  <2>5. ~HasKey(g, d.key)
    BY <1>1, <2>1, <2>4, FlushAlone
  <2> QED BY <2>2, <2>3, <2>5 DEF HasKey
<1> QED BY <1>2, <1>3

LEMMA FlushKeepsGood ==
  ASSUME LevelsTyped, JobTyped, LevelsGood, NEW l, Flush(l), job' = job, NotSqueezed(l)
  PROVE  LevelsGood'
<1>1. MemNewest' /\ Level0Ordered' /\ InLevels!Disjoint' /\ Undivided' /\ Ordered' /\ Retained'
  BY FlushKeepsMemNewest, FlushKeepsLevel0, FlushKeepsDisjoint, FlushKeepsUndivided,
     FlushKeepsOrdered, FlushKeepsRetained DEF LevelsGood
<1>2. ASSUME job.on PROVE JobRight'
  <2>1. OthersApart(job.level, job) /\ OthersNewer(job.level, job) /\ BaseKnown /\ SeenByAll
    BY <1>2 DEF LevelsGood, JobRight
  <2>2. OthersApart(job.level, job)'
    BY <1>2, <2>1, FlushKeepsApart
  <2>3. OthersNewer(job.level, job)'
    BY <1>2, <2>1, FlushKeepsNewer DEF LevelsGood
  <2>4. BaseKnown'
    BY <1>2, <2>1, FlushKeepsBase
  <2>5. SeenByAll'
    BY <2>1 DEF SeenByAll, Flush
  <2> QED BY <2>2, <2>3, <2>4, <2>5 DEF JobRight
<1>3. JobRight'
  BY <1>2 DEF JobRight
<1> QED BY <1>1, <1>3 DEF LevelsGood

LEMMA CompactMemTableFlushes ==
  ASSUME LevelsTyped, InLevels!CompactMemTable
  PROVE  \E l : Flush(l) /\ squeezed' \in BOOLEAN /\ job' = job
                /\ (~squeezed' => ~squeezed /\ NotSqueezed(l))
<1>1. PICK l \in InLevels!PickLevelForMemTableOutput(InLevels!MemTableRange) :
        /\ levels' = [levels EXCEPT ![l] = @ \cup {InLevels!Table(mem, next)}]
        /\ squeezed' = (squeezed \/ /\ job.on /\ l = job.level + 1
                                    /\ InLevels!Overlaps(InLevels!Table(mem, next),
                                                         InLevels!GetRange(job.inputs \cup job.parents)))
  BY DEF InLevels!CompactMemTable
<1>2. l \in InLevels!Level /\ (l > 0 => \A m \in 0 .. l : ~InLevels!OverlapInLevel(m, InLevels!MemTableRange))
  BY LevelConstants DEF InLevels!PickLevelForMemTableOutput, InLevels!MaxMemCompactLevel
<1>3. mem # {} /\ mem' = {} /\ next' = next + 1
      /\ UNCHANGED <<lastSeq, snapshots, job, history, divided>>
  BY DEF InLevels!CompactMemTable
<1>4. Flush(l)
  BY <1>1, <1>2, <1>3 DEF Flush, MemTable
<1>5. squeezed' \in BOOLEAN /\ (~squeezed' => ~squeezed /\ NotSqueezed(l))
  BY <1>1 DEF NotSqueezed, MemTable, LevelsTyped
<1> QED BY <1>3, <1>4, <1>5

LEMMA CompactMemTableKeeps ==
  ASSUME LevelsInv, InLevels!CompactMemTable
  PROVE  LevelsInv'
<1>1. PICK l : Flush(l) /\ squeezed' \in BOOLEAN /\ job' = job
               /\ (~squeezed' => ~squeezed /\ NotSqueezed(l))
  BY CompactMemTableFlushes DEF LevelsInv
<1>2. LevelsTyped /\ JobTyped /\ (squeezed \/ LevelsGood)
  BY DEF LevelsInv
<1>3. LevelsTyped' /\ JobTyped'
  BY <1>1, <1>2, FlushTyped, FlushKeepsJob
<1>4. ~squeezed' => LevelsGood'
  BY <1>1, <1>2, FlushKeepsGood
<1> QED BY <1>3, <1>4 DEF LevelsInv

-----------------------------------------------------------------------------
LEMMA EverythingWasWritten ==
  ASSUME LevelsTyped
  PROVE  InLevels!Everything \subseteq history
<1>1. \A l \in InLevels!Level : \A f \in levels[l] : f.entries \subseteq history
  BY LevelsAreFiles DEF FileOf
<1> QED BY <1>1, EverythingIs DEF LevelsTyped

LEMMA HistoryIs ==
  ASSUME LevelsTyped, NEW e \in history
  PROVE  e \in InLevels!Entry /\ e.key \in Int /\ e.seq \in Nat /\ e.seq <= lastSeq /\ lastSeq \in Nat
BY EntryIs DEF LevelsTyped

LEMMA AfterNoJob ==
  ASSUME job' = InLevels!NoJob
  PROVE  JobTyped' /\ JobRight'
BY DEF InLevels!NoJob, JobTyped, JobRight

(* Writes. *)
LEMMA WriteTyped ==
  ASSUME LevelsTyped, NEW k \in InLevels!Keys, NEW del \in BOOLEAN, InLevels!Write(k, del)
  PROVE  LevelsTyped'
<1> DEFINE n == [key |-> k, seq |-> lastSeq + 1, del |-> del]
<1>1. /\ lastSeq < MaxSeq /\ lastSeq' = lastSeq + 1
      /\ mem' = mem \cup {n} /\ history' = history \cup {n}
      /\ UNCHANGED <<levels, next, snapshots, job, divided, squeezed>>
  BY DEF InLevels!Write
<1>2. lastSeq \in Nat /\ history \subseteq InLevels!Entry /\ snapshots \subseteq 0 .. lastSeq
      /\ next \in Nat \ {0}
  BY DEF LevelsTyped
<1>3. n \in InLevels!Entry /\ n.seq = lastSeq + 1
  BY <1>1, <1>2, LevelConstants DEF InLevels!Entry
<1> HIDE DEF n
<1>4. \A e \in history : e.seq \in Nat /\ e.seq <= lastSeq
  BY HistoryIs
<1>5. history' \subseteq InLevels!Entry /\ mem' \subseteq history'
  BY <1>1, <1>2, <1>3 DEF LevelsTyped
<1>6. \A e \in history' : e.seq <= lastSeq'
  BY <1>1, <1>2, <1>3, <1>4
<1>7. \A d, e \in history' : d.seq = e.seq => d = e
  BY <1>1, <1>2, <1>3, <1>4 DEF LevelsTyped
<1>8. FileOf(history) \subseteq FileOf(history)'
  BY <1>1, <1>2, FilesStayFiles
<1>9. levels' \in [InLevels!Level -> SUBSET FileOf(history)']
  BY <1>1, <1>8 DEF LevelsTyped
<1>10. lastSeq' \in Nat /\ snapshots' \subseteq 0 .. lastSeq'
  BY <1>1, <1>2
<1> QED BY <1>1, <1>2, <1>5, <1>6, <1>7, <1>9, <1>10 DEF LevelsTyped

LEMMA WriteKeepsRetained ==
  ASSUME LevelsTyped, NEW k \in InLevels!Keys, NEW del \in BOOLEAN, InLevels!Write(k, del), Retained
  PROVE  Retained'
<1> DEFINE n == [key |-> k, seq |-> lastSeq + 1, del |-> del]
<1>1. /\ lastSeq' = lastSeq + 1 /\ mem' = mem \cup {n} /\ history' = history \cup {n}
      /\ UNCHANGED <<levels, next, snapshots, job, divided, squeezed>>
  BY DEF InLevels!Write
<1>2. n.key = k /\ n.seq = lastSeq + 1
  OBVIOUS
<1> HIDE DEF n
<1>3. lastSeq \in Nat /\ snapshots \subseteq 0 .. lastSeq
  BY DEF LevelsTyped
<1>4. \A e \in history : e.seq \in Nat /\ e.seq <= lastSeq
  BY HistoryIs
<1>5. \A e : e \in InLevels!Everything' <=> e \in InLevels!Everything \/ e = n
  BY <1>1 DEF InLevels!Everything
<1>6. \A e \in InLevels!Everything : e.seq \in Nat /\ e.seq <= lastSeq
  BY <1>4, EverythingWasWritten
<1> SUFFICES ASSUME NEW j \in InLevels!Keys \ divided, NEW s \in snapshots \cup {lastSeq + 1},
                    NEW h \in history \cup {n}, h.key = j, h.seq <= s,
                    \A e \in history \cup {n} : e.key = j /\ e.seq <= s => e.seq <= h.seq,
                    h # n
             PROVE  \/ h \in InLevels!Everything
                    \/ h.del /\ \A e \in InLevels!Everything \cup {n} : e.key = j => e.seq > s
  BY <1>1, <1>5 DEF Retained, Newest
<1>7. CASE s \in snapshots
  <2>1. s \in Nat /\ s <= lastSeq
    BY <1>3, <1>7
  <2>2. Newest(h, j, s)
    BY DEF Newest
  <2>3. \/ h \in InLevels!Everything
        \/ h.del /\ \A e \in InLevels!Everything : e.key = j => e.seq > s
    BY <1>7, <2>2 DEF Retained
  <2>4. n.seq > s
    BY <1>2, <1>3, <2>1
  <2> QED BY <2>3, <2>4
<1>8. CASE s \notin snapshots
  <2>1. s = lastSeq + 1 /\ h \in history
    BY <1>8
  <2>2. j # k
    BY <1>2, <1>3, <1>4, <2>1
  <2>3. Newest(h, j, lastSeq)
    BY <1>4, <2>1, <1>3 DEF Newest
  <2>4. \/ h \in InLevels!Everything
        \/ h.del /\ \A e \in InLevels!Everything : e.key = j => e.seq > lastSeq
    BY <2>3 DEF Retained
  <2>5. \A e \in InLevels!Everything : ~(e.seq > lastSeq)
    BY <1>3, <1>6
  <2> QED BY <1>2, <2>2, <2>4, <2>5
<1> QED BY <1>7, <1>8

LEMMA WriteKeeps ==
  ASSUME LevelsInv, NEW k \in InLevels!Keys, NEW del \in BOOLEAN, InLevels!Write(k, del)
  PROVE  LevelsInv'
<1>1. LevelsTyped /\ JobTyped /\ (squeezed \/ LevelsGood)
  BY DEF LevelsInv
<1> DEFINE n == [key |-> k, seq |-> lastSeq + 1, del |-> del]
<1>2. /\ lastSeq' = lastSeq + 1 /\ mem' = mem \cup {n}
      /\ levels' = levels /\ job' = job /\ snapshots' = snapshots
      /\ divided' = divided /\ squeezed' = squeezed
  BY DEF InLevels!Write
<1>3. n.seq = lastSeq + 1
  OBVIOUS
<1> HIDE DEF n
<1>4. JobTyped'
  BY <1>1, <1>2 DEF JobTyped
<1>5. lastSeq \in Nat /\ snapshots \subseteq 0 .. lastSeq
  BY <1>1 DEF LevelsTyped
<1>6. ASSUME LevelsGood PROVE LevelsGood'
  <2>1. MemNewest'
    <3>1. \A l \in InLevels!Level : \A f \in levels[l] : \A e \in f.entries :
            e.seq \in Nat /\ e.seq <= lastSeq
      BY <1>1, HistoryIs, EverythingWasWritten, EverythingIs
    <3>2. \A l \in InLevels!Level : \A f \in levels[l] : \A e \in f.entries : e.seq < n.seq
      BY <1>3, <1>5, <3>1
    <3> QED BY <1>2, <1>6, <3>2 DEF LevelsGood, MemNewest, Older
  <2>2. Level0Ordered' /\ InLevels!Disjoint' /\ Undivided' /\ Ordered'
    BY <1>2, <1>6 DEF LevelsGood, Level0Ordered, Older, InLevels!Disjoint,
         InLevels!Before, Undivided, HasKey,
       Ordered, OlderAt
  <2>3. ASSUME job.on PROVE OthersApart(job.level, job)' /\ OthersNewer(job.level, job)' /\ BaseKnown'
    BY <1>2, <1>6, <2>3 DEF LevelsGood, JobRight, OthersApart, OthersNewer, BaseKnown,
         Ahead, Work,
       EntriesIn, HasKey, OlderAt, InLevels!Before
  <2>4. ASSUME job.on PROVE SeenByAll'
    <3>1. SeenByAll /\ job.smallestSnapshot \in Nat
      BY <1>1, <1>6, <2>4 DEF LevelsGood, JobRight, JobTyped
    <3>2. job.smallestSnapshot <= lastSeq + 1
      BY <1>5, <3>1 DEF SeenByAll
    <3> QED BY <1>2, <3>1, <3>2 DEF SeenByAll
  <2>5. JobRight'
    BY <1>2, <2>3, <2>4 DEF JobRight
  <2>6. Retained'
    BY <1>1, <1>6, WriteKeepsRetained DEF LevelsGood
  <2> QED BY <2>1, <2>2, <2>5, <2>6 DEF LevelsGood
<1> QED BY <1>1, <1>2, <1>4, <1>6, WriteTyped DEF LevelsInv

(* Snapshots: none older than the newest entry is ever taken. *)
LEMMA SnapshotsKeep ==
  ASSUME LevelsInv, snapshots' \subseteq snapshots \cup {lastSeq},
         UNCHANGED <<mem, levels, next, lastSeq, job, history, divided, squeezed>>
  PROVE  LevelsInv'
<1>1. LevelsTyped /\ JobTyped /\ (squeezed \/ LevelsGood)
  BY DEF LevelsInv
<1>2. lastSeq \in Nat /\ snapshots \subseteq 0 .. lastSeq
  BY <1>1 DEF LevelsTyped
<1>3. snapshots' \subseteq 0 .. lastSeq'
  BY <1>2
<1>4. FileOf(history)' = FileOf(history)
  BY DEF FileOf
<1>5. LevelsTyped'
  BY <1>1, <1>3, <1>4 DEF LevelsTyped
<1>6. JobTyped'
  BY <1>1 DEF JobTyped
<1>7. ASSUME LevelsGood PROVE LevelsGood'
  <2>1. MemNewest' /\ Level0Ordered' /\ InLevels!Disjoint' /\ Undivided' /\ Ordered'
    BY <1>7 DEF LevelsGood, MemNewest, Level0Ordered, Older, InLevels!Disjoint,
         InLevels!Before, Undivided,
       HasKey, Ordered, OlderAt
  <2>2. ASSUME job.on PROVE OthersApart(job.level, job)' /\ OthersNewer(job.level, job)' /\ BaseKnown'
    BY <1>7, <2>2 DEF LevelsGood, JobRight, OthersApart, OthersNewer, BaseKnown, Ahead,
         Work,
       EntriesIn, HasKey, OlderAt, InLevels!Before
  <2>3. ASSUME job.on PROVE SeenByAll'
    BY <1>7, <2>3 DEF LevelsGood, JobRight, SeenByAll
  <2>4. JobRight'
    BY <2>2, <2>3 DEF JobRight
  <2>5. Retained'
    BY <1>7 DEF LevelsGood, Retained, Newest, InLevels!Everything
  <2> QED BY <2>1, <2>4, <2>5 DEF LevelsGood
<1> QED BY <1>1, <1>5, <1>6, <1>7 DEF LevelsInv

(* A crash or a close, and an open. *)
LEMMA ReopenKeeps ==
  ASSUME LevelsInv, InLevels!Reopen
  PROVE  LevelsInv'
<1>1. LevelsTyped /\ JobTyped /\ (squeezed \/ LevelsGood) /\ squeezed' = squeezed
  BY DEF LevelsInv, InLevels!Reopen
<1>2. JobTyped' /\ JobRight'
  BY AfterNoJob DEF InLevels!Reopen
<1>3. 0 \in InLevels!Level /\ squeezed' \in BOOLEAN
  BY <1>1, LevelConstants DEF LevelsTyped
<1>4. CASE mem # {}
  <2>a. levels' = [levels EXCEPT ![0] = @ \cup {MemTable}] /\ next' = next + 1
    BY <1>4 DEF InLevels!Reopen, MemTable
  <2>b. mem' = {} /\ snapshots' \subseteq snapshots /\ UNCHANGED <<lastSeq, history, divided>>
    BY DEF InLevels!Reopen
  <2>1. Flush(0)
    BY <1>3, <1>4, <2>a, <2>b DEF Flush
  <2>2. LevelsTyped'
    BY <1>1, <1>3, <2>1, FlushTyped
  <2>3. ASSUME LevelsGood PROVE LevelsGood'
    BY <1>1, <1>2, <2>1, <2>3, FlushKeepsMemNewest, FlushKeepsLevel0,
         FlushKeepsDisjoint,
       FlushKeepsUndivided, FlushKeepsOrdered, FlushKeepsRetained DEF LevelsGood
  <2> QED BY <1>1, <1>2, <2>2, <2>3 DEF LevelsInv
<1>5. CASE mem = {}
  <2>1. levels' = levels /\ next' = next /\ mem' = mem /\ snapshots' = {}
        /\ lastSeq' = lastSeq /\ history' = history /\ divided' = divided
    <3>1. levels' = [levels EXCEPT ![0] = @ \cup {}]
      BY <1>5 DEF InLevels!Reopen
    <3>2. [levels EXCEPT ![0] = @ \cup {}] = levels
      BY <1>1, <1>3 DEF LevelsTyped
    <3> QED BY <1>5, <3>1, <3>2 DEF InLevels!Reopen
  <2>2. FileOf(history)' = FileOf(history)
    BY <2>1 DEF FileOf
  <2>3. LevelsTyped'
    BY <1>1, <2>1, <2>2 DEF LevelsTyped
  <2>4. ASSUME LevelsGood PROVE LevelsGood'
    <3>1. MemNewest' /\ Level0Ordered' /\ InLevels!Disjoint' /\ Undivided' /\ Ordered'
      BY <2>1, <2>4 DEF LevelsGood, MemNewest, Level0Ordered, Older, InLevels!Disjoint,
           InLevels!Before,
         Undivided, HasKey, Ordered, OlderAt
    <3>2. Retained'
      BY <2>1, <2>4 DEF LevelsGood, Retained, Newest, InLevels!Everything
    <3> QED BY <1>2, <3>1, <3>2 DEF LevelsGood
  <2> QED BY <1>1, <1>2, <2>3, <2>4 DEF LevelsInv
<1> QED BY <1>4, <1>5

-----------------------------------------------------------------------------
(* The outputs of a compaction hold what is kept, each a piece of it. *)
LEMMA OutputsAre ==
  ASSUME next \in Nat \ {0}, NEW H, H \subseteq InLevels!Entry, NEW entries \in SUBSET H,
         IsFiniteSet(entries), NEW outs \in InLevels!Outputs(entries)
  PROVE  /\ IsFiniteSet(outs) /\ outs \subseteq FileOf(H)
         /\ EntriesIn(outs) = entries /\ Apart(outs)
<1> DEFINE Piece(firsts, d) == {e \in entries : InLevels!SameOutput(firsts, d, e)}
<1>1. PICK firsts \in SUBSET entries :
        outs = {InLevels!Table(Piece(firsts, d), 0) : d \in entries}
  BY DEF InLevels!Outputs
<1> DEFINE P(d) == Piece(firsts, d)
<1>2. \A d \in entries : d \in P(d)
  BY DEF InLevels!SameOutput
<1>3. \A f \in outs : \E d \in entries : f = [number |-> 0, entries |-> P(d)]
  BY <1>1 DEF InLevels!Table
<1>4. \A d \in entries : \E f \in outs : f.entries = P(d)
  <2> SUFFICES ASSUME NEW d \in entries PROVE \E f \in outs : f.entries = P(d)
    OBVIOUS
  <2>1. InLevels!Table(P(d), 0) \in outs
    BY <1>1
  <2>2. InLevels!Table(P(d), 0).entries = P(d)
    BY DEF InLevels!Table
  <2> QED BY <2>1, <2>2
<1>5. \A d \in entries : P(d) \subseteq entries
  OBVIOUS
<1>6. ASSUME NEW c \in entries, NEW d \in entries, P(c) # P(d)
      PROVE  Ahead(P(c), P(d)) \/ Ahead(P(d), P(c))
  <2>1. PICK b \in firsts : ~(InLevels!Before(b.key, b.seq, c) <=> InLevels!Before(b.key, b.seq, d))
    BY <1>6 DEF InLevels!SameOutput
  <2>2. \A e \in P(c) : InLevels!Before(b.key, b.seq, c) <=> InLevels!Before(b.key, b.seq, e)
    BY DEF InLevels!SameOutput
  <2>3. \A e \in P(d) : InLevels!Before(b.key, b.seq, d) <=> InLevels!Before(b.key, b.seq, e)
    BY DEF InLevels!SameOutput
  <2>4. ASSUME NEW x \in entries, NEW y \in entries,
               ~InLevels!Before(b.key, b.seq, x), InLevels!Before(b.key, b.seq, y)
        PROVE  InLevels!Before(x.key, x.seq, y)
    <3>1. /\ x.key \in Int /\ x.seq \in Int /\ y.key \in Int /\ y.seq \in Int
          /\ b.key \in Int /\ b.seq \in Int
      BY EntryIs
    <3> QED BY <2>4, <3>1 DEF InLevels!Before
  <2>5. CASE InLevels!Before(b.key, b.seq, d)
    <3>1. Ahead(P(c), P(d))
      BY <1>5, <2>1, <2>2, <2>3, <2>4, <2>5 DEF Ahead
    <3> QED BY <3>1
  <2>6. CASE ~InLevels!Before(b.key, b.seq, d)
    <3>1. Ahead(P(d), P(c))
      BY <1>5, <2>1, <2>2, <2>3, <2>4, <2>6 DEF Ahead
    <3> QED BY <3>1
  <2> QED BY <2>5, <2>6
<1> HIDE DEF P
<1>7. IsFiniteSet(outs)
  <2> DEFINE g == [d \in entries |-> InLevels!Table(P(d), 0)]
  <2>1. outs = {g[d] : d \in entries}
    BY <1>1 DEF P
  <2>2. g \in Surjection(entries, outs)
    BY <2>1, Zenon DEF Surjection
  <2> QED BY <2>2, FS_Surjection
<1>8. outs \subseteq FileOf(H)
  <2> SUFFICES ASSUME NEW f \in outs PROVE f \in FileOf(H)
    OBVIOUS
  <2>1. PICK d \in entries : f = [number |-> 0, entries |-> P(d)]
    BY <1>3
  <2>2. P(d) \in (SUBSET H) \ {{}} /\ 0 \in 0 .. next - 1
    BY <1>2, <1>5
  <2> QED BY <2>1, <2>2 DEF FileOf
<1>9. EntriesIn(outs) = entries
  BY <1>2, <1>3, <1>4, <1>5 DEF EntriesIn
<1>10. Apart(outs)
  <2> SUFFICES ASSUME NEW f \in outs, NEW g \in outs, f # g
               PROVE  Ahead(f.entries, g.entries) \/ Ahead(g.entries, f.entries)
    BY DEF Apart
  <2>1. PICK c \in entries : f = [number |-> 0, entries |-> P(c)]
    BY <1>3
  <2>2. PICK d \in entries : g = [number |-> 0, entries |-> P(d)]
    BY <1>3
  <2>3. P(c) # P(d) /\ f.entries = P(c) /\ g.entries = P(d)
    BY <2>1, <2>2
  <2> QED BY <1>6, <2>3
<1> QED BY <1>7, <1>8, <1>9, <1>10

(* The start of a compaction. *)
LEMMA WorkStarts ==
  ASSUME LevelsInv, NEW l \in 0 .. Levels - 2, NEW c, Chosen(l, c), InLevels!DoCompactionWork(l, c),
         UNCHANGED <<mem, levels, next, lastSeq, snapshots, history, divided, squeezed>>
  PROVE  LevelsInv'
<1>1. LevelsTyped /\ (squeezed \/ LevelsGood)
  BY DEF LevelsInv
<1>2. /\ job'.on /\ job'.level = l /\ job'.inputs = c.inputs /\ job'.parents = c.parents
      /\ job'.base = UNION {levels[m] : m \in l + 2 .. Levels - 1}
      /\ job'.smallestSnapshot = IF snapshots = {} THEN lastSeq ELSE InLevels!Min(snapshots)
  BY DEF InLevels!DoCompactionWork
<1>3. lastSeq \in Nat /\ snapshots \in SUBSET (0 .. lastSeq)
  BY <1>1 DEF LevelsTyped
<1>4. /\ job'.smallestSnapshot \in Nat
      /\ \A s \in snapshots \cup {lastSeq} : job'.smallestSnapshot <= s
  <2>1. CASE snapshots = {}
    BY <1>2, <1>3, <2>1
  <2>2. CASE snapshots # {}
    <3>1. InLevels!Min(snapshots) \in snapshots /\ \A s \in snapshots : InLevels!Min(snapshots) <= s
      BY <1>3, <2>2, MinExists
    <3>2. job'.smallestSnapshot = InLevels!Min(snapshots)
      BY <1>2, <2>2
    <3>3. InLevels!Min(snapshots) \in 0 .. lastSeq
      BY <1>3, <3>1
    <3>4. InLevels!Min(snapshots) \in Nat /\ InLevels!Min(snapshots) <= lastSeq
      BY <1>3, <3>3
    <3> QED BY <3>1, <3>2, <3>4
  <2> QED BY <2>1, <2>2
<1>5. LevelsTyped'
  BY <1>1 DEF LevelsTyped, FileOf
<1>6. c.inputs \in SUBSET levels[l] /\ c.inputs # {} /\ c.parents \in SUBSET levels[l + 1]
  BY DEF Chosen, Picked, InLevels!Touching
<1>7. JobTyped'
  BY <1>2, <1>4, <1>6 DEF JobTyped
<1>8. ASSUME LevelsGood PROVE LevelsGood'
  <2>1. MemNewest' /\ Level0Ordered' /\ InLevels!Disjoint' /\ Undivided' /\ Ordered'
    BY <1>8 DEF LevelsGood, MemNewest, Level0Ordered, Older, InLevels!Disjoint,
         InLevels!Before, Undivided,
       HasKey, Ordered, OlderAt
  <2>2. OthersApart(l, c) /\ OthersNewer(l, c)
    BY <1>1, <1>8, BelowApart, BesideNewer DEF LevelsGood
  <2>3. OthersApart(job.level, job)' /\ OthersNewer(job.level, job)'
    BY <1>2, <2>2 DEF OthersApart, OthersNewer, Ahead, Work, EntriesIn, HasKey,
         OlderAt, InLevels!Before
  <2>4. BaseKnown'
    BY <1>2 DEF BaseKnown
  <2>5. SeenByAll'
    BY <1>4 DEF SeenByAll
  <2>6. Retained'
    BY <1>8 DEF LevelsGood, Retained, Newest, InLevels!Everything
  <2> QED BY <2>1, <2>3, <2>4, <2>5, <2>6 DEF LevelsGood, JobRight
<1> QED BY <1>1, <1>5, <1>7, <1>8 DEF LevelsInv

LEMMA BackgroundKeeps ==
  ASSUME LevelsInv, NEW l \in 0 .. Levels - 2, InLevels!BackgroundCompaction(l)
  PROVE  LevelsInv'
<1>1. LevelsTyped /\ l \in InLevels!Level
  BY LevelConstants DEF LevelsInv
<1>2. PICK inputs \in InLevels!PickCompaction(l) : \E c \in InLevels!SetupOtherInputs(l, inputs) :
        InLevels!DoCompactionWork(l, c)
  BY DEF InLevels!BackgroundCompaction
<1>3. PICK c \in InLevels!SetupOtherInputs(l, inputs) : InLevels!DoCompactionWork(l, c)
  BY <1>2
<1>4. Chosen(l, c)
  BY <1>1, PickCompactionPicks, SetupChooses
<1>5. UNCHANGED <<mem, levels, next, lastSeq, snapshots, history, divided, squeezed>>
  BY DEF InLevels!BackgroundCompaction
<1> QED BY <1>3, <1>4, <1>5, WorkStarts

LEMMA ManualKeeps ==
  ASSUME LevelsInv, NEW l \in 0 .. Levels - 2, InLevels!ManualCompaction(l)
  PROVE  LevelsInv'
<1>1. LevelsTyped /\ l \in InLevels!Level
  BY LevelConstants DEF LevelsInv
<1>2. PICK inputs \in InLevels!ManualInputs(l, manual.rest, manual.end) :
        \E c \in InLevels!SetupOtherInputs(l, inputs) : InLevels!DoCompactionWork(l, c)
  BY DEF InLevels!ManualCompaction
<1>3. PICK c \in InLevels!SetupOtherInputs(l, inputs) : InLevels!DoCompactionWork(l, c)
  BY <1>2
<1>4. Chosen(l, c)
  BY <1>1, ManualInputsPick, SetupChooses
<1>5. UNCHANGED <<mem, levels, next, lastSeq, snapshots, history, divided, squeezed>>
  BY DEF InLevels!ManualCompaction
<1> QED BY <1>3, <1>4, <1>5, WorkStarts

-----------------------------------------------------------------------------
LEMMA OutsAreEntries ==
  ASSUME LevelsTyped, NEW l, NEW c, NEW outs, Shift(l, c, outs), NEW e \in InLevels!Everything'
  PROVE  \/ e \in mem
         \/ e \in EntriesIn(outs)
         \/ \E m \in InLevels!Level : \E f \in levels[m] :
              e \in f.entries /\ (m = l => f \notin c.inputs) /\ (m = l + 1 => f \notin c.parents)
<1>1. e \in mem' \/ \E m \in InLevels!Level : \E f \in levels'[m] : e \in f.entries
  BY DEF InLevels!Everything
<1>2. CASE e \in mem'
  BY <1>2 DEF Shift
<1>3. CASE \E m \in InLevels!Level : \E f \in levels'[m] : e \in f.entries
  <2>1. PICK m \in InLevels!Level : \E f \in levels'[m] : e \in f.entries
    BY <1>3
  <2>2. PICK f \in levels'[m] : e \in f.entries
    BY <2>1
  <2>3. CASE f \in outs
    BY <2>2, <2>3 DEF EntriesIn
  <2> QED BY <2>2, <2>3, ShiftFrom
<1> QED BY <1>1, <1>2, <1>3

LEMMA ShiftShrinks ==
  ASSUME LevelsTyped, NEW l, NEW c, NEW outs, Shift(l, c, outs)
  PROVE  InLevels!Everything' \subseteq InLevels!Everything
<1> SUFFICES ASSUME NEW e \in InLevels!Everything' PROVE e \in InLevels!Everything
  OBVIOUS
<1>1. l \in InLevels!Level /\ l + 1 \in InLevels!Level
  BY LevelConstants DEF Shift
<1>2. CASE e \in EntriesIn(outs)
  <2>1. PICK f \in outs : e \in f.entries
    BY <1>2 DEF EntriesIn
  <2>2. (\E g \in levels[l] : e \in g.entries) \/ (\E g \in levels[l + 1] : e \in g.entries)
    BY <2>1, OutEntries
  <2> QED BY <1>1, <2>2, EverythingIs
<1> QED BY <1>2, OutsAreEntries, EverythingIs

LEMMA ShiftDrops ==
  ASSUME LevelsTyped, NEW l, NEW c, NEW outs, Shift(l, c, outs),
         NEW e \in InLevels!Everything, e \notin InLevels!Everything'
  PROVE  e \in Work(c) /\ e \notin EntriesIn(outs)
<1>1. l \in InLevels!Level /\ l + 1 \in InLevels!Level /\ l # l + 1
  BY LevelConstants DEF Shift
<1>2. e \notin mem' /\ \A m \in InLevels!Level : \A f \in levels'[m] : e \notin f.entries
  BY DEF InLevels!Everything
<1>3. e \notin mem
  BY <1>2 DEF Shift
<1>4. PICK m \in InLevels!Level : \E f \in levels[m] : e \in f.entries
  BY <1>3, EverythingIs
<1>5. PICK f \in levels[m] : e \in f.entries
  BY <1>4
<1>6. f \notin levels'[m]
  BY <1>2, <1>5
<1>10. levels'[l + 1] = (levels[l + 1] \ c.parents) \cup outs
  BY <1>1, ShiftMoves
<1>11. e \notin EntriesIn(outs)
  BY <1>1, <1>2, <1>10 DEF EntriesIn
<1>12. e \in Work(c)
  <2>1. CASE m = l
    <3>1. levels'[m] = levels[m] \ c.inputs
      BY <2>1, ShiftMoves
    <3> QED BY <1>5, <1>6, <3>1 DEF Work, EntriesIn
  <2>2. CASE m = l + 1
    BY <1>5, <1>6, <1>10, <2>2 DEF Work, EntriesIn
  <2>3. CASE m # l /\ m # l + 1
    BY <1>6, <2>3, ShiftMoves
  <2> QED BY <2>1, <2>2, <2>3
<1> QED BY <1>11, <1>12

(* A file that moves as it is. *)
LEMMA MoveShifts ==
  ASSUME LevelsTyped, NEW l \in 0 .. Levels - 2, InLevels!Move(l)
  PROVE  \E c, f : /\ Chosen(l, c) /\ c.inputs = {f} /\ c.parents = {}
                   /\ Shift(l, c, c.inputs)
<1>1. l \in InLevels!Level
  BY LevelConstants
<1>2. PICK inputs \in InLevels!PickCompaction(l) : \E c \in InLevels!SetupOtherInputs(l, inputs) :
        /\ InLevels!IsTrivialMove(c)
        /\ levels' = [levels EXCEPT ![l] = @ \ c.inputs, ![l + 1] = @ \cup c.inputs]
  BY DEF InLevels!Move
<1>3. PICK c \in InLevels!SetupOtherInputs(l, inputs) :
        /\ InLevels!IsTrivialMove(c)
        /\ levels' = [levels EXCEPT ![l] = @ \ c.inputs, ![l + 1] = @ \cup c.inputs]
  BY <1>2
<1>4. Chosen(l, c)
  BY <1>1, PickCompactionPicks, SetupChooses
<1>5. c.inputs \in SUBSET levels[l] /\ c.parents = {} /\ Cardinality(c.inputs) = 1
  BY <1>3, <1>4, LevelConstants DEF InLevels!IsTrivialMove, Chosen, Picked
<1>6. IsFiniteSet(c.inputs)
  BY <1>1, <1>5, LevelsAreFiles, FS_Subset
<1>7. PICK f : c.inputs = {f}
  BY <1>5, <1>6, FS_Singleton
<1>8. c.inputs \subseteq FileOf(history)
  BY <1>1, <1>5, LevelsAreFiles
<1>9. levels' = [levels EXCEPT ![l] = @ \ c.inputs, ![l + 1] = (@ \ c.parents) \cup c.inputs]
  <2>1. levels[l + 1] \ c.parents = levels[l + 1]
    BY <1>5
  <2> QED BY <1>3, <2>1
<1>10. EntriesIn(c.inputs) \subseteq Work(c)
  BY DEF Work
<1>11. divided' = divided /\ divided \subseteq InLevels!Keys /\ UNCHANGED <<mem, next, lastSeq, snapshots, history>>
  BY DEF InLevels!Move, LevelsTyped
<1>12. Shift(l, c, c.inputs)
  BY <1>5, <1>6, <1>8, <1>9, <1>10, <1>11 DEF Shift
<1> QED BY <1>4, <1>5, <1>7, <1>12

LEMMA MoveKeeps ==
  ASSUME LevelsInv, NEW l \in 0 .. Levels - 2, InLevels!Move(l)
  PROVE  LevelsInv'
<1>1. LevelsTyped /\ JobTyped /\ (squeezed \/ LevelsGood) /\ squeezed \in BOOLEAN
  BY DEF LevelsInv, LevelsTyped
<1>2. ~job.on /\ job' = job /\ squeezed' = squeezed /\ divided' = divided
      /\ snapshots' = snapshots /\ lastSeq' = lastSeq /\ history' = history
  BY DEF InLevels!Move
<1>3. PICK c, f : /\ Chosen(l, c) /\ c.inputs = {f} /\ c.parents = {}
                  /\ Shift(l, c, c.inputs)
  BY <1>1, MoveShifts
<1>4. LevelsTyped' /\ JobTyped' /\ JobRight'
  BY <1>1, <1>2, <1>3, ShiftTyped DEF JobTyped, JobRight
<1>5. ASSUME LevelsGood PROVE LevelsGood'
  <2>1. OthersApart(l, c) /\ OthersNewer(l, c)
    BY <1>1, <1>3, <1>5, BelowApart, BesideNewer DEF LevelsGood
  <2>2. MemNewest' /\ Level0Ordered' /\ Ordered'
    BY <1>1, <1>3, <1>5, <2>1, ShiftKeepsMemNewest, ShiftKeepsLevel0, ShiftKeepsOrdered
         DEF LevelsGood
  <2>3. InLevels!Disjoint'
    <3>1. Apart(c.inputs)
      BY <1>3 DEF Apart
    <3> QED BY <1>1, <1>3, <1>5, <2>1, <3>1, ShiftKeepsDisjoint DEF LevelsGood
  <2>4. Undivided'
    <3>1. l + 1 \in InLevels!Level /\ l + 1 \in 1 .. Levels - 1 /\ l # l + 1
      BY LevelConstants
    <3>2. levels'[l + 1] = (levels[l + 1] \ c.parents) \cup c.inputs
      BY <1>1, <1>3, <3>1, ShiftMoves
    <3>3. ASSUME NEW k \in InLevels!Keys \ divided', NEW g \in levels'[l + 1], NEW h \in levels'[l + 1],
                 HasKey(g, k), HasKey(h, k)
          PROVE  g = h
      <4>1. \A x \in levels[l + 1] : HasKey(x, k) => ~HasKey(f, k)
        BY <1>3, <2>1 DEF OthersApart, HasKey
      <4>2. g \in levels[l + 1] \/ g = f
        BY <1>3, <3>2
      <4>3. h \in levels[l + 1] \/ h = f
        BY <1>3, <3>2
      <4>4. \A x, y \in levels[l + 1] : HasKey(x, k) /\ HasKey(y, k) => x = y
        BY <1>2, <1>5, <3>1, <3>3 DEF LevelsGood, Undivided
      <4> QED BY <3>3, <4>1, <4>2, <4>3, <4>4
    <3> QED BY <1>1, <1>3, <1>5, <3>3, ShiftKeepsUndivided DEF LevelsGood
  <2>5. InLevels!Everything' = InLevels!Everything
    <3>1. InLevels!Everything' \subseteq InLevels!Everything
      BY <1>1, <1>3, ShiftShrinks
    <3>2. Work(c) = EntriesIn(c.inputs)
      BY <1>3 DEF Work, EntriesIn
    <3>3. ASSUME NEW e \in InLevels!Everything, e \notin InLevels!Everything' PROVE FALSE
      <4>1. e \in Work(c) /\ e \notin EntriesIn(c.inputs)
        BY <1>1, <1>3, <3>3, ShiftDrops
      <4> QED BY <3>2, <4>1
    <3> QED BY <3>1, <3>3
  <2>6. Retained'
    BY <1>2, <1>5, <2>5 DEF LevelsGood, Retained, Newest
  <2> QED BY <1>4, <2>2, <2>3, <2>4, <2>6 DEF LevelsGood
<1> QED BY <1>1, <1>2, <1>4, <1>5 DEF LevelsInv

(* The output of a compaction: what is dropped is no reader's newest.      *)
Installed(outs) ==
  /\ job.on /\ Shift(job.level, job, outs)
  /\ EntriesIn(outs) = InLevels!Kept(Work(job)) /\ Apart(outs)
  /\ divided' = divided \cup InLevels!InDivided(levels'[job.level + 1])

LEMMA HistoryFinite ==
  ASSUME LevelsTyped
  PROVE  IsFiniteSet(history)
<1> DEFINE g == [e \in history |-> e.seq]
<1>1. \A e \in history : e.seq \in 1 .. MaxSeq
  BY EntryIs DEF LevelsTyped
<1>2. \A d, e \in history : d.seq = e.seq => d = e
  BY DEF LevelsTyped
<1>3. g \in Injection(history, 1 .. MaxSeq)
  BY <1>1, <1>2 DEF Injection, IsInjective
<1>4. IsFiniteSet(1 .. MaxSeq)
  BY LevelConstants, FS_Interval
<1> QED BY <1>3, <1>4, FS_Injection

LEMMA InstallShifts ==
  ASSUME LevelsTyped, JobTyped, InLevels!InstallCompactionResults
  PROVE  \E outs : Installed(outs)
<1> DEFINE kept == InLevels!Kept(UNION {f.entries : f \in job.inputs \cup job.parents})
<1>1. PICK outs \in InLevels!Outputs(kept) :
        /\ levels' = [levels EXCEPT ![job.level] = @ \ job.inputs,
                                    ![job.level + 1] = (@ \ job.parents) \cup outs]
        /\ divided' = divided \cup InLevels!InDivided(levels'[job.level + 1])
  BY DEF InLevels!InstallCompactionResults
<1>2. job.on /\ UNCHANGED <<mem, next, lastSeq, snapshots, history>>
  BY DEF InLevels!InstallCompactionResults
<1>3. kept = InLevels!Kept(Work(job))
  <2>1. UNION {f.entries : f \in job.inputs \cup job.parents} = Work(job)
    BY DEF Work, EntriesIn
  <2> QED BY <2>1
<1> HIDE DEF kept
<1>4. /\ job.level \in 0 .. Levels - 2
      /\ job.inputs \subseteq levels[job.level] /\ job.parents \subseteq levels[job.level + 1]
  BY <1>2 DEF JobTyped
<1>5. Work(job) \subseteq history
  <2>1. \A f \in job.inputs \cup job.parents : f.entries \subseteq history
    BY <1>2, WorkIsThere, LevelsAreFiles DEF FileOf
  <2> QED BY <2>1 DEF Work, EntriesIn
<1>6. kept \in SUBSET Work(job)
  BY <1>3 DEF InLevels!Kept
<1>7. next \in Nat \ {0} /\ history \subseteq InLevels!Entry
  BY DEF LevelsTyped
<1>8. /\ IsFiniteSet(outs) /\ outs \subseteq FileOf(history)
      /\ EntriesIn(outs) = kept /\ Apart(outs)
  <2>1. kept \in SUBSET history
    BY <1>5, <1>6
  <2>2. IsFiniteSet(kept)
    BY <2>1, HistoryFinite, FS_Subset
  <2> QED BY <1>1, <1>7, <2>1, <2>2, OutputsAre
<1>9. divided \subseteq divided' /\ divided' \subseteq InLevels!Keys
  BY <1>1 DEF InLevels!InDivided, LevelsTyped
<1>10. Shift(job.level, job, outs)
  BY <1>1, <1>2, <1>4, <1>6, <1>8, <1>9 DEF Shift
<1> QED BY <1>1, <1>2, <1>3, <1>8, <1>10 DEF Installed

LEMMA NotDivided ==
  ASSUME NEW files, IsFiniteSet(files), NEW k \in InLevels!Keys \ InLevels!InDivided(files),
         NEW f \in files, NEW g \in files, HasKey(f, k), HasKey(g, k)
  PROVE  f = g
<1> SUFFICES ASSUME f # g PROVE FALSE
  OBVIOUS
<1> DEFINE S == {h \in files : \E e \in h.entries : e.key = k}
<1>1. IsFiniteSet(S)
  BY FS_Subset
<1>2. {f, g} \in SUBSET S
  BY DEF HasKey
<1>3. Cardinality({f}) = 1 /\ IsFiniteSet({f})
  BY FS_Singleton
<1>4. Cardinality({f} \cup {g}) = Cardinality({f}) + 1
  BY <1>3, FS_AddElement
<1>5. {f} \cup {g} = {f, g}
  OBVIOUS
<1>6. Cardinality({f, g}) <= Cardinality(S)
  BY <1>1, <1>2, FS_Subset
<1>7. ~(InLevels!Cardinality(S) > 1)
  BY DEF InLevels!InDivided
<1>8. InLevels!Cardinality(S) = Cardinality(S)
  BY LevelConstants
<1>9. Cardinality(S) \in Nat
  BY <1>1, FS_CardinalityType
<1>10. Cardinality({f, g}) = 2
  BY <1>3, <1>4, <1>5
<1> HIDE DEF S
<1> QED BY <1>6, <1>7, <1>8, <1>9, <1>10

-----------------------------------------------------------------------------
(* Nothing older than an entry in the work remains outside it.             *)
LEMMA OlderIsWork ==
  ASSUME LevelsTyped, JobTyped, LevelsGood, NEW outs, Installed(outs),
         NEW j \in InLevels!Keys \ divided, NEW h \in Work(job), h.key = j,
         InLevels!IsBaseLevelForKey(j),
         NEW e \in InLevels!Everything', e.key = j, e.seq < h.seq
  PROVE  e \in EntriesIn(outs)
<1> DEFINE l == job.level
<1>0. job.on /\ Shift(job.level, job, outs)
  BY DEF Installed
<1>1. /\ l \in InLevels!Level /\ l + 1 \in InLevels!Level /\ l \in Int
      /\ job.inputs \subseteq levels[l] /\ job.parents \subseteq levels[l + 1]
  BY <1>0, WorkIsThere, LevelConstants
<1>2. OthersApart(l, job) /\ OthersNewer(l, job) /\ BaseKnown
  BY <1>0 DEF LevelsGood, JobRight
<1>3. e \in InLevels!Everything /\ e.seq \in Nat
  BY <1>0, ShiftShrinks, EverythingWasWritten, HistoryIs
<1>4. \E g : e.key = j /\ h \in g.entries /\ (g \in job.inputs \/ g \in job.parents)
  BY DEF Work, EntriesIn
<1>5. PICK g : h \in g.entries /\ (g \in job.inputs \/ g \in job.parents)
  BY <1>4
<1>6. g \in levels[l] \/ g \in levels[l + 1]
  BY <1>1, <1>5
<1>7. h \in history /\ h.seq \in Nat
  BY <1>1, <1>5, <1>6, EverythingIs, EverythingWasWritten, HistoryIs
<1>8. ~(h.seq < e.seq)
  BY <1>3, <1>7
<1>9. e \notin mem
  BY <1>1, <1>5, <1>6, <1>8 DEF LevelsGood, MemNewest, Older
<1> SUFFICES ASSUME NEW m \in InLevels!Level, NEW f \in levels[m], e \in f.entries,
                    m = l => f \notin job.inputs, m = l + 1 => f \notin job.parents
             PROVE  FALSE
  BY <1>0, <1>9, OutsAreEntries
<1>10. HasKey(f, j) /\ HasKey(g, j)
  BY <1>5 DEF HasKey
<1>11. \A x, y \in InLevels!Level : x < y =>
         \A p \in levels[x], q \in levels[y] : OlderAt(j, q.entries, p.entries)
  BY DEF LevelsGood, Ordered
<1>12. m \in Int
  BY LevelConstants
<1> HIDE DEF l
<1>13. CASE m < l
  <2>1. m < l + 1
    BY <1>1, <1>12, <1>13
  <2>2. OlderAt(j, g.entries, f.entries)
    BY <1>1, <1>6, <1>11, <1>13, <2>1
  <2> QED BY <1>5, <1>8, <2>2 DEF OlderAt
<1>14. CASE m = l /\ g \in job.inputs
  <2>1. OlderAt(j, g.entries, f.entries)
    BY <1>2, <1>14 DEF OthersNewer
  <2> QED BY <1>5, <1>8, <2>1 DEF OlderAt
<1>15. CASE m = l /\ g \in job.parents
  <2>1. OlderAt(j, g.entries, f.entries)
    BY <1>1, <1>11, <1>15
  <2> QED BY <1>5, <1>8, <2>1 DEF OlderAt
<1>16. CASE m = l + 1 /\ g \in job.inputs
  <2>1. ~HasKey(f, h.key)
    BY <1>2, <1>5, <1>16 DEF OthersApart
  <2> QED BY <1>10, <2>1
<1>17. CASE m = l + 1 /\ g \in job.parents
  <2>1. m \in 1 .. Levels - 1
    BY <1>1, <1>17, LevelConstants
  <2>2. f = g
    BY <1>1, <1>10, <1>17, <2>1 DEF LevelsGood, Undivided
  <2> QED BY <1>17, <2>2
<1>18. CASE m > l + 1
  <2>1. m \in job.level + 2 .. Levels - 1
    BY <1>1, <1>12, <1>18, LevelConstants DEF l
  <2>2. f \in job.base
    BY <1>2, <1>10, <2>1 DEF BaseKnown
  <2>3. IsFile(f)
    BY LevelsAreFiles DEF FilesOf
  <2>4. InLevels!Smallest(f) <= j /\ j <= InLevels!Largest(f)
    BY <1>10, <2>3, FileKeys DEF HasKey
  <2> QED BY <2>2, <2>4 DEF InLevels!IsBaseLevelForKey
<1>19. m < l \/ m = l \/ m = l + 1 \/ m > l + 1
  BY <1>1, <1>12
<1> QED BY <1>5, <1>13, <1>14, <1>15, <1>16, <1>17, <1>18, <1>19

LEMMA InstallKeepsRetained ==
  ASSUME LevelsTyped, JobTyped, LevelsGood, NEW outs, Installed(outs)
  PROVE  Retained'
<1>1. job.on /\ Shift(job.level, job, outs) /\ EntriesIn(outs) = InLevels!Kept(Work(job))
  BY DEF Installed
<1>2. history' = history /\ lastSeq' = lastSeq /\ snapshots' = snapshots /\ divided \subseteq divided'
  BY <1>1 DEF Shift
<1>3. InLevels!Everything' \subseteq InLevels!Everything /\ InLevels!Everything \subseteq history
  BY <1>1, ShiftShrinks, EverythingWasWritten
<1>4. SeenByAll /\ job.smallestSnapshot \in Nat
  BY <1>1 DEF LevelsGood, JobRight, JobTyped
<1>5. \A s \in snapshots \cup {lastSeq} : s \in Nat
  BY DEF LevelsTyped
<1>6. Work(job) \subseteq InLevels!Everything
  BY <1>1, WorkIsThere, EverythingIs
<1> SUFFICES ASSUME NEW j \in InLevels!Keys \ divided, NEW s \in snapshots \cup {lastSeq},
                    NEW h \in history, Newest(h, j, s), h \notin InLevels!Everything'
             PROVE  h.del /\ \A e \in InLevels!Everything' : e.key = j => e.seq > s
  BY <1>2 DEF Retained, Newest
<1>7. h.key = j /\ h.seq <= s /\ \A e \in history : e.key = j /\ e.seq <= s => e.seq <= h.seq
  BY DEF Newest
<1>8. CASE h \notin InLevels!Everything
  BY <1>3, <1>8 DEF LevelsGood, Retained
<1>9. CASE h \in InLevels!Everything
  <2>1. h \in Work(job) /\ h \notin InLevels!Kept(Work(job))
    BY <1>1, <1>9, ShiftDrops
  <2>2. h.seq \in Nat /\ s \in Nat /\ job.smallestSnapshot <= s
    BY <1>4, <1>5, HistoryIs DEF SeenByAll
  <2>3. ~InLevels!Hidden(h, Work(job))
    <3> SUFFICES ASSUME NEW f \in Work(job), f.key = h.key, h.seq < f.seq,
                        f.seq <= job.smallestSnapshot
                 PROVE  FALSE
      BY DEF InLevels!Hidden
    <3>1. f \in history /\ f.seq \in Nat
      BY <1>3, <1>6, HistoryIs
    <3>2. f.seq <= s
      BY <1>4, <2>2, <3>1
    <3>3. f.seq <= h.seq
      BY <1>7, <3>1, <3>2
    <3> QED BY <2>2, <3>1, <3>3
  <2>4. h.del /\ h.seq <= job.smallestSnapshot /\ InLevels!IsBaseLevelForKey(j)
    BY <1>7, <2>1, <2>3 DEF InLevels!Kept
  <2>5. ASSUME NEW e \in InLevels!Everything', e.key = j, ~(e.seq > s) PROVE FALSE
    <3>1. e \in history /\ e.seq \in Nat
      BY <1>3, HistoryIs
    <3>2. e.seq <= h.seq
      BY <1>7, <2>2, <2>5, <3>1
    <3>3. e # h
      BY <2>5
    <3>4. e.seq # h.seq
      BY <3>1, <3>3 DEF LevelsTyped
    <3>5. e.seq < h.seq
      BY <2>2, <3>1, <3>2, <3>4
    <3>6. e \in InLevels!Kept(Work(job))
      BY <1>1, <1>7, <2>1, <2>4, <2>5, <3>5, OlderIsWork
    <3>7. InLevels!Hidden(e, Work(job))
      BY <1>7, <2>1, <2>4, <2>5, <3>5 DEF InLevels!Hidden
    <3> QED BY <3>6, <3>7 DEF InLevels!Kept
  <2> QED BY <2>4, <2>5
<1> QED BY <1>8, <1>9

LEMMA InstallKeeps ==
  ASSUME LevelsInv, InLevels!InstallCompactionResults
  PROVE  LevelsInv'
<1>1. LevelsTyped /\ JobTyped /\ (squeezed \/ LevelsGood)
  BY DEF LevelsInv
<1>2. PICK outs : Installed(outs)
  BY <1>1, InstallShifts
<1>3. job.on /\ Shift(job.level, job, outs) /\ Apart(outs)
      /\ divided' = divided \cup InLevels!InDivided(levels'[job.level + 1])
  BY <1>2 DEF Installed
<1>4. squeezed' = squeezed /\ job' = InLevels!NoJob /\ squeezed \in BOOLEAN
  BY <1>1 DEF InLevels!InstallCompactionResults, LevelsTyped
<1>5. JobTyped' /\ JobRight'
  BY <1>4, AfterNoJob
<1>6. LevelsTyped'
  BY <1>1, <1>3, <1>4, ShiftTyped
<1>7. ASSUME LevelsGood PROVE LevelsGood'
  <2>1. OthersApart(job.level, job) /\ OthersNewer(job.level, job)
    BY <1>3, <1>7 DEF LevelsGood, JobRight
  <2>2. MemNewest' /\ Level0Ordered' /\ Ordered' /\ InLevels!Disjoint'
    BY <1>1, <1>3, <1>7, <2>1, ShiftKeepsMemNewest, ShiftKeepsLevel0, ShiftKeepsOrdered,
       ShiftKeepsDisjoint DEF LevelsGood
  <2>3. Undivided'
    <3>1. job.level + 1 \in InLevels!Level
      BY <1>1, <1>3, WorkIsThere
    <3>2. IsFiniteSet(levels'[job.level + 1])
      BY <1>6, <3>1, LevelConstants DEF LevelsTyped
    <3>3. \A k \in InLevels!Keys \ divided' : \A f, g \in levels'[job.level + 1] :
            HasKey(f, k) /\ HasKey(g, k) => f = g
      BY <1>3, <3>2, NotDivided
    <3> QED BY <1>1, <1>3, <1>7, <3>3, ShiftKeepsUndivided DEF LevelsGood
  <2>4. Retained'
    BY <1>1, <1>2, <1>7, InstallKeepsRetained
  <2> QED BY <1>5, <2>2, <2>3, <2>4 DEF LevelsGood
<1> QED BY <1>1, <1>4, <1>5, <1>6, <1>7 DEF LevelsInv

LEMMA LevelsInit ==
  ASSUME InLevels!Init
  PROVE  LevelsInv
<1>1. /\ mem = {} /\ levels = [l \in InLevels!Level |-> {}] /\ next = 1 /\ lastSeq = 0
      /\ snapshots = {} /\ job = InLevels!NoJob /\ history = {}
      /\ divided = {} /\ squeezed = FALSE
  BY DEF InLevels!Init
<1>2. 0 \in InLevels!Level /\ (\A l \in 1 .. Levels - 1 : l \in InLevels!Level) /\ IsFiniteSet({})
  BY LevelConstants, FS_EmptySet
<1>3. \A l \in InLevels!Level : levels[l] = {}
  BY <1>1
<1>4. LevelsTyped
  <2>1. levels \in [InLevels!Level -> SUBSET FileOf(history)]
    BY <1>1
  <2>2. \A l \in InLevels!Level : InLevels!IsFiniteSet(levels[l])
    BY <1>2, <1>3, LevelConstants
  <2>3. lastSeq \in Nat /\ next \in Nat \ {0}
    BY <1>1
  <2>4. /\ history \subseteq InLevels!Entry /\ \A e \in history : e.seq <= lastSeq
        /\ \A d, e \in history : d.seq = e.seq => d = e
        /\ mem \subseteq history /\ snapshots \subseteq 0 .. lastSeq
        /\ divided \subseteq InLevels!Keys /\ squeezed \in BOOLEAN
    <3> HIDE <1>1
    <3>1. history = {} /\ mem = {} /\ snapshots = {} /\ divided = {} /\ squeezed = FALSE
      BY <1>1
    <3> QED BY ONLY <3>1
  <2> QED BY <2>1, <2>2, <2>3, <2>4 DEF LevelsTyped
<1>5. JobTyped /\ JobRight
  BY <1>1 DEF InLevels!NoJob, JobTyped, JobRight
<1>6. MemNewest /\ Level0Ordered /\ InLevels!Disjoint /\ Undivided /\ Ordered /\ Retained
  BY <1>1, <1>2, <1>3 DEF MemNewest, Level0Ordered, InLevels!Disjoint, Undivided,
       Ordered, Retained
<1> QED BY <1>4, <1>5, <1>6 DEF LevelsInv, LevelsGood

LEMMA LevelsNext ==
  ASSUME LevelsInv, InLevels!Next
  PROVE  LevelsInv'
<1>1. CASE \E k \in InLevels!Keys, del \in BOOLEAN : InLevels!Write(k, del)
  BY <1>1, WriteKeeps
<1>2. CASE InLevels!CompactMemTable
  BY <1>2, CompactMemTableKeeps
<1>3. CASE InLevels!GetSnapshot
  BY <1>3, SnapshotsKeep DEF InLevels!GetSnapshot
<1>4. CASE InLevels!Reopen
  BY <1>4, ReopenKeeps
<1>5. CASE \E s \in snapshots : InLevels!ReleaseSnapshot(s)
  <2>1. PICK s \in snapshots : InLevels!ReleaseSnapshot(s)
    BY <1>5
  <2>2. snapshots' \subseteq snapshots \cup {lastSeq}
        /\ UNCHANGED <<mem, levels, next, lastSeq, job, history, divided, squeezed>>
    BY <2>1 DEF InLevels!ReleaseSnapshot
  <2> QED BY <2>2, SnapshotsKeep
<1>6. CASE \E l \in 0 .. Levels - 2 : InLevels!Move(l) \/ InLevels!BackgroundCompaction(l) \/ InLevels!ManualCompaction(l)
  BY <1>6, MoveKeeps, BackgroundKeeps, ManualKeeps
<1>7. CASE InLevels!InstallCompactionResults
  BY <1>7, InstallKeeps
<1>8. CASE (\E range \in Ranges : InLevels!CompactRange(range[1], range[2])) \/ InLevels!NextLevel
  <2>1. snapshots' \subseteq snapshots \cup {lastSeq}
        /\ UNCHANGED <<mem, levels, next, lastSeq, job, history, divided, squeezed>>
    BY <1>8 DEF InLevels!CompactRange, InLevels!NextLevel
  <2> QED BY <2>1, SnapshotsKeep
<1> QED BY <1>1, <1>2, <1>3, <1>4, <1>5, <1>6, <1>7, <1>8 DEF InLevels!Next

LEMMA LevelsStutter ==
  ASSUME LevelsInv, UNCHANGED inLevels
  PROVE  LevelsInv'
<1>1. snapshots' \subseteq snapshots \cup {lastSeq}
      /\ UNCHANGED <<mem, levels, next, lastSeq, job, history, divided, squeezed>>
  BY DEF inLevels
<1> QED BY <1>1, SnapshotsKeep

LEMMA LevelsInStorage ==
  ASSUME [Next]_vars
  PROVE  InLevels!Next \/ UNCHANGED inLevels
BY DEF Next, vars

(* LevelsInv is inductive: every write, flush, compaction, move, snapshot  *)
(* and reopening keeps it.                                                 *)
THEOREM LevelsInvHolds == Spec => []LevelsInv
<1>1. Init => LevelsInv
  BY LevelsInit DEF Init
<1>2. LevelsInv /\ [Next]_vars => LevelsInv'
  BY LevelsInStorage, LevelsNext, LevelsStutter
<1> QED BY <1>1, <1>2, PTL DEF Spec

LEMMA LevelsInvSorts ==
  ASSUME LevelsInv
  PROVE  InLevels!LevelsStaySorted
<1>1. LevelsTyped /\ squeezed \in BOOLEAN
  BY DEF LevelsInv, LevelsTyped
<1>2. CASE squeezed
  BY <1>2 DEF InLevels!LevelsStaySorted, InLevels!EntriesStayInOrder,
       InLevels!FilesStayDisjoint, InLevels!Sound
<1>3. CASE ~squeezed
  <2>1. LevelsGood
    BY <1>3 DEF LevelsInv
  <2>2. ASSUME NEW k \in InLevels!Keys, k \notin divided, NEW l \in InLevels!Level, NEW m \in InLevels!Level, l < m,
               NEW e \in InLevels!EntriesOf(k, l), NEW d \in InLevels!EntriesOf(k, m)
        PROVE  e.seq > d.seq
    <3>1. PICK f \in levels[l] : e \in f.entries
      BY DEF InLevels!EntriesOf
    <3>2. PICK g \in levels[m] : d \in g.entries
      BY DEF InLevels!EntriesOf
    <3>3. e.key = k /\ d.key = k
      BY DEF InLevels!EntriesOf
    <3>4. d.seq < e.seq
      BY <2>1, <2>2, <3>1, <3>2, <3>3 DEF LevelsGood, Ordered, OlderAt
    <3>5. d.seq \in Nat /\ e.seq \in Nat
      BY <1>1, <3>1, <3>2, EverythingIs, EverythingWasWritten, HistoryIs
    <3> QED BY <3>4, <3>5
  <2>3. InLevels!EntriesStayInOrder
    BY <2>2 DEF InLevels!EntriesStayInOrder, InLevels!InOrder, InLevels!Sound
  <2> QED BY <2>1, <2>3 DEF InLevels!LevelsStaySorted, InLevels!FilesStayDisjoint,
       LevelsGood
<1> QED BY <1>2, <1>3

(* The files of each level below 0 stay disjoint and in order, and, but    *)
(* for keys that a compaction divided, no entry lies above a newer one of  *)
(* its key, for any number of keys, levels, writes and snapshots and       *)
(* whatever compactions, flushes and reopenings follow each other.         *)
THEOREM LevelsStaySortedHolds == Spec => []LevelsStaySorted
<1>1. LevelsInv => LevelsStaySorted
  BY LevelsInvSorts DEF LevelsStaySorted
<1> QED BY <1>1, LevelsInvHolds, PTL

-----------------------------------------------------------------------------
(* Reads: what Seek finds in entries that were written.                    *)
LEMMA SeekFinds ==
  ASSUME LevelsTyped, NEW H \in SUBSET history, NEW k, NEW s,
         NEW e \in H, e.key = k, e.seq <= s
  PROVE  InLevels!Seek(H, k, s) # {}
<1> DEFINE seen == {x \in H : x.key = k /\ x.seq <= s}
           S == {x.seq : x \in seen}
<1>1. \A x \in seen : x.seq \in 0 .. lastSeq
  BY HistoryIs
<1>2. S \in SUBSET (0 .. lastSeq) /\ S # {} /\ lastSeq \in Nat
  BY <1>1, HistoryIs
<1>3. InList!Max(S) \in S /\ \A q \in S : q <= InList!Max(S)
  BY <1>2, MaxExists
<1>4. PICK h \in seen : h.seq = InList!Max(S)
  BY <1>3
<1>5. \A f \in seen : f.seq <= h.seq
  BY <1>3, <1>4
<1> QED BY <1>5 DEF InLevels!Seek

LEMMA SeekIs ==
  ASSUME NEW H, NEW k, NEW s, NEW h
  PROVE  h \in InLevels!Seek(H, k, s) <=>
           /\ h \in H /\ h.key = k /\ h.seq <= s
           /\ \A e \in H : e.key = k /\ e.seq <= s => e.seq <= h.seq
BY DEF InLevels!Seek

LEMMA SeekOnlyOne ==
  ASSUME LevelsTyped, NEW H \in SUBSET history, NEW k, NEW s,
         NEW d \in InLevels!Seek(H, k, s), NEW e \in InLevels!Seek(H, k, s)
  PROVE  d = e
<1>1. d \in history /\ e \in history /\ d.seq <= e.seq /\ e.seq <= d.seq
  BY SeekIs
<1>2. d.seq \in Nat /\ e.seq \in Nat
  BY <1>1, HistoryIs
<1>3. d.seq = e.seq
  BY <1>1, <1>2
<1> QED BY <1>1, <1>3 DEF LevelsTyped

LEMMA ScanFinds ==
  ASSUME LevelsTyped, Retained, NEW k \in InLevels!Keys \ divided, NEW s \in snapshots \cup {lastSeq}
  PROVE  InLevels!Value(InLevels!Seek(InLevels!Everything, k, s)) = InLevels!Value(InLevels!Seek(history, k, s))
<1> DEFINE E == InLevels!Everything
           now == InLevels!Seek(E, k, s)
           then == InLevels!Seek(history, k, s)
<1>1. E \in SUBSET history
  BY EverythingWasWritten
<1>2. CASE then = {}
  <2>1. \A e \in history : ~(e.key = k /\ e.seq <= s)
    BY <1>2, SeekFinds
  <2>2. now = {}
    BY <1>1, <2>1, SeekIs
  <2> QED BY <1>2, <2>2
<1>3. CASE then # {}
  <2>1. PICK h : h \in then
    BY <1>3
  <2>2. Newest(h, k, s) /\ h \in history
    BY <2>1, SeekIs DEF Newest
  <2>3. CASE h \in E
    <3>1. h \in now
      BY <1>1, <2>1, <2>3, SeekIs
    <3>2. now = {h} /\ then = {h}
      BY <1>1, <2>1, <3>1, SeekOnlyOne
    <3> QED BY <3>2
  <2>4. CASE h \notin E
    <3>1. h.del /\ \A e \in E : e.key = k => e.seq > s
      BY <2>2, <2>4 DEF Retained
    <3>2. \A e \in E : e.key = k => ~(e.seq <= s)
      <4>1. s \in Nat /\ \A e \in E : e.seq \in Nat
        BY <1>1, HistoryIs DEF LevelsTyped
      <4> QED BY <3>1, <4>1
    <3>3. now = {}
      BY <3>2, SeekIs
    <3>4. then = {h}
      BY <2>1, SeekOnlyOne
    <3> HIDE DEF now, then
    <3>5. InLevels!Value(now) = {} /\ InLevels!Value(then) = {}
      BY <3>1, <3>3, <3>4 DEF InLevels!Value
    <3> QED BY <3>5 DEF now, then
  <2> QED BY <2>3, <2>4
<1> QED BY <1>2, <1>3

(* Level 0: the file with the greatest number among those that have it.    *)
LEMMA Level0Finds ==
  ASSUME LevelsTyped, NEW k, NEW s, NEW g \in levels[0], NEW e \in g.entries,
         e.key = k, e.seq <= s
  PROVE  InLevels!SearchLevel0(k, s) # {}
<1> DEFINE hits == {f \in levels[0] : InLevels!Seek(f.entries, k, s) # {}}
           S == {f.number : f \in hits}
<1>1. 0 \in InLevels!Level /\ next \in Nat \ {0}
  BY LevelConstants DEF LevelsTyped
<1>2. \A f \in levels[0] : f.number \in 0 .. next - 1 /\ f.entries \in SUBSET history
  BY <1>1, LevelsAreFiles DEF FileOf
<1>3. g \in hits
  BY <1>2, SeekFinds
<1>4. S # {}
  BY <1>3
<1>5. S \in SUBSET (0 .. next - 1) /\ next - 1 \in Nat
  BY <1>1, <1>2
<1>6. InList!Max(S) \in S /\ \A q \in S : q <= InList!Max(S)
  BY <1>4, <1>5, MaxExists
<1>7. PICK f \in hits : f.number = InList!Max(S)
  BY <1>6
<1>8. \A h \in hits : h.number <= f.number
  BY <1>6, <1>7
<1>9. PICK x : x \in InLevels!Seek(f.entries, k, s)
  BY <1>7
<1>10. x \in InLevels!SearchLevel0(k, s)
  BY <1>7, <1>8, <1>9 DEF InLevels!SearchLevel0
<1> QED BY <1>10

(* Below it the one file that has the key is the first not to end before   *)
(* it.                                                                     *)
LEMMA LevelFinds ==
  ASSUME LevelsTyped, InLevels!Disjoint, Undivided, NEW k \in InLevels!Keys \ divided, NEW s \in Nat,
         NEW l \in 1 .. Levels - 1, NEW g \in levels[l], NEW e \in g.entries,
         e.key = k, e.seq <= s
  PROVE  InLevels!SearchLevel(l, k, s) # {}
<1>1. l \in InLevels!Level
  BY LevelConstants
<1>2. \A f \in levels[l] : f.entries \in SUBSET history
  BY <1>1, LevelsAreFiles DEF FileOf
<1>3. \A f \in levels[l] : \A d \in f.entries : d.key \in Int /\ d.seq \in Int
  BY <1>2, HistoryIs
<1>4. k \in Int
  BY LevelConstants
<1>5. InLevels!Before(k, s, e)
  BY <1>3 DEF InLevels!Before
<1>6. ASSUME NEW f \in levels[l], f # g, NEW y \in f.entries, InLevels!Before(k, s, y), InLevels!SmallerFile(f, g)
      PROVE  FALSE
  <2>1. PICK d \in f.entries : \A x \in g.entries :
          d.key < x.key \/ (d.key = x.key /\ d.seq > x.seq)
    BY <1>6 DEF InLevels!SmallerFile
  <2>2. ~Ahead(g.entries, f.entries)
    <3>1. ~InLevels!Before(e.key, e.seq, d)
      BY <1>3, <1>6, <2>1 DEF InLevels!Before
    <3> QED BY <3>1 DEF Ahead
  <2>3. Ahead(f.entries, g.entries)
    BY <1>6, <2>2, DisjointIs
  <2>4. InLevels!Before(y.key, y.seq, e)
    BY <1>6, <2>3 DEF Ahead
  <2>5. y.key = k
    BY <1>3, <1>4, <1>6, <2>4 DEF InLevels!Before
  <2>6. HasKey(f, k) /\ HasKey(g, k)
    BY <1>6, <2>5 DEF HasKey
  <2> QED BY <1>6, <2>6 DEF Undivided
<1>7. g \in InLevels!FindFile(l, k, s)
  BY <1>5, <1>6 DEF InLevels!FindFile
<1>8. InLevels!Seek(g.entries, k, s) # {}
  BY <1>2, SeekFinds
<1> QED BY <1>7, <1>8 DEF InLevels!SearchLevel

LEMMA GetFinds ==
  ASSUME LevelsTyped, LevelsGood, NEW k \in InLevels!Keys \ divided,
         NEW s \in snapshots \cup {lastSeq}
  PROVE  InLevels!Get(k, s) = InLevels!Seek(InLevels!Everything, k, s)
<1> DEFINE E == InLevels!Everything
           Has(e) == e \in E /\ e.key = k /\ e.seq <= s
           hits == {l \in 1 .. Levels - 1 : InLevels!SearchLevel(l, k, s) # {}}
<1>1. s \in Nat /\ E \in SUBSET history /\ k \in Int
  BY EverythingWasWritten, LevelConstants DEF LevelsTyped
<1>2. \A e \in history : e.seq \in Nat
  BY HistoryIs
<1>3. mem \in SUBSET history /\ mem \subseteq E /\ 0 \in InLevels!Level
      /\ \A l \in 1 .. Levels - 1 : l \in InLevels!Level /\ l # 0 /\ 0 < l
  BY EverythingIs, LevelConstants DEF LevelsTyped
<1>4. \A l \in InLevels!Level : \A f \in levels[l] : \A e \in f.entries : e \in E
  BY EverythingIs
<1>5. \A A : A # {} /\ A \subseteq InLevels!Seek(E, k, s) => A = InLevels!Seek(E, k, s)
  BY <1>1, SeekOnlyOne
<1>6. \A l, m \in InLevels!Level : l < m =>
        \A f \in levels[l], g \in levels[m] : \A e \in f.entries, d \in g.entries :
          e.key = k /\ d.key = k => d.seq < e.seq
  BY DEF LevelsGood, Ordered, OlderAt
<1>7. CASE InLevels!Seek(mem, k, s) # {}
  <2>1. ASSUME NEW x \in InLevels!Seek(mem, k, s) PROVE x \in InLevels!Seek(E, k, s)
    <3>1. x \in mem /\ x.key = k /\ x.seq <= s /\ x \in E /\ x.seq \in Nat
      BY <1>1, <1>2, <1>3, SeekIs
    <3>2. ASSUME NEW e \in E, e.key = k, e.seq <= s PROVE e.seq <= x.seq
      <4>1. CASE e \in mem
        BY <3>2, <4>1, SeekIs
      <4>2. CASE e \notin mem
        <5>1. e.seq < x.seq /\ e.seq \in Nat
          BY <1>1, <1>2, <3>1, <4>2, EverythingIs DEF LevelsGood, MemNewest, Older
        <5> QED BY <3>1, <5>1
      <4> QED BY <4>1, <4>2
    <3> QED BY <3>1, <3>2, SeekIs
  <2> QED BY <1>5, <1>7, <2>1 DEF InLevels!Get
<1>8. CASE InLevels!Seek(mem, k, s) = {} /\ InLevels!SearchLevel0(k, s) # {}
  <2>1. \A e \in mem : ~(e.key = k /\ e.seq <= s)
    BY <1>3, <1>8, SeekFinds
  <2>2. ASSUME NEW x \in InLevels!SearchLevel0(k, s) PROVE x \in InLevels!Seek(E, k, s)
    <3>1. PICK f \in levels[0] :
            /\ x \in InLevels!Seek(f.entries, k, s)
            /\ \A h \in levels[0] : InLevels!Seek(h.entries, k, s) # {} => h.number <= f.number
      BY DEF InLevels!SearchLevel0
    <3>2. x \in f.entries /\ x.key = k /\ x.seq <= s /\ x \in E /\ x.seq \in Nat
      BY <1>1, <1>2, <1>3, <1>4, <3>1, SeekIs
    <3>3. ASSUME NEW e \in E, e.key = k, e.seq <= s PROVE e.seq <= x.seq
      <4>1. PICK l \in InLevels!Level : \E g \in levels[l] : e \in g.entries
        BY <2>1, <3>3, EverythingIs
      <4>2. PICK g \in levels[l] : e \in g.entries
        BY <4>1
      <4>3. CASE l = 0
        <5>1. g.entries \in SUBSET history /\ f.number \in Int /\ g.number \in Int
          BY <1>3, <4>3, LevelsAreFiles DEF FileOf, LevelsTyped
        <5>2. InLevels!Seek(g.entries, k, s) # {}
          BY <3>3, <4>2, <5>1, SeekFinds
        <5>3. g.number <= f.number
          BY <3>1, <4>3, <5>2
        <5>4. CASE g = f
          BY <3>1, <3>3, <4>2, <5>4, SeekIs
        <5>5. CASE g # f
          <6>1. Older(g.entries, f.entries)
            BY <4>3, <5>1, <5>3, <5>5 DEF LevelsGood, Level0Ordered
          <6>2. e.seq < x.seq /\ e.seq \in Nat
            BY <1>1, <1>2, <3>2, <4>2, <6>1 DEF Older
          <6> QED BY <3>2, <6>2
        <5> QED BY <5>4, <5>5
      <4>4. CASE l # 0
        <5>1. 0 < l
          BY <4>4, LevelConstants
        <5>2. e.seq < x.seq /\ e.seq \in Nat
          BY <1>1, <1>2, <1>3, <1>6, <3>2, <3>3, <4>2, <5>1
        <5> QED BY <3>2, <5>2
      <4> QED BY <4>3, <4>4
    <3> QED BY <3>2, <3>3, SeekIs
  <2> QED BY <1>5, <1>8, <2>2 DEF InLevels!Get
<1>9. CASE InLevels!Seek(mem, k, s) = {} /\ InLevels!SearchLevel0(k, s) = {}
  <2>1. \A e \in mem : ~(e.key = k /\ e.seq <= s)
    BY <1>3, <1>9, SeekFinds
  <2>2. \A g \in levels[0] : \A e \in g.entries : ~(e.key = k /\ e.seq <= s)
    BY <1>9, Level0Finds
  <2>3. ASSUME NEW e \in E, e.key = k, e.seq <= s
        PROVE  \E l \in hits : \E g \in levels[l] : e \in g.entries
    <3>1. PICK l \in InLevels!Level : \E g \in levels[l] : e \in g.entries
      BY <2>1, <2>3, EverythingIs
    <3>2. l # 0
      BY <2>2, <2>3, <3>1
    <3>3. l \in 1 .. Levels - 1
      BY <3>2, LevelConstants
    <3>4. InLevels!SearchLevel(l, k, s) # {}
      BY <1>1, <2>3, <3>1, <3>3, LevelFinds DEF LevelsGood
    <3> QED BY <3>1, <3>3, <3>4
  <2>4. CASE hits = {}
    <3>1. InLevels!Seek(E, k, s) = {}
      BY <2>3, <2>4, SeekIs
    <3>2. InLevels!Get(k, s) = {}
      BY <1>9, <2>4 DEF InLevels!Get
    <3> QED BY <3>1, <3>2
  <2>5. CASE hits # {}
    <3> DEFINE m == InLevels!Min(hits)
    <3>1. hits \in SUBSET (0 .. Levels - 1) /\ Levels - 1 \in Nat
      BY LevelConstants
    <3>2. m \in hits /\ \A l \in hits : m <= l
      BY <2>5, <3>1, MinExists
    <3>3. InLevels!Get(k, s) = InLevels!SearchLevel(m, k, s)
      BY <1>9, <2>5 DEF InLevels!Get
    <3> HIDE DEF m
    <3>4. InLevels!SearchLevel(m, k, s) # {} /\ m \in 1 .. Levels - 1 /\ m \in InLevels!Level
      BY <1>3, <3>2
    <3>5. ASSUME NEW x \in InLevels!SearchLevel(m, k, s) PROVE x \in InLevels!Seek(E, k, s)
      <4>1. PICK f \in levels[m] : x \in InLevels!Seek(f.entries, k, s)
        BY DEF InLevels!SearchLevel, InLevels!FindFile
      <4>2. x \in f.entries /\ x.key = k /\ x.seq <= s /\ x \in E /\ x.seq \in Nat
        BY <1>1, <1>2, <1>4, <3>4, <4>1, SeekIs
      <4>3. ASSUME NEW e \in E, e.key = k, e.seq <= s PROVE e.seq <= x.seq
        <5>1. PICK l \in hits : \E g \in levels[l] : e \in g.entries
          BY <2>3, <4>3
        <5>2. PICK g \in levels[l] : e \in g.entries
          BY <5>1
        <5>3. l \in InLevels!Level /\ m <= l
          BY <1>3, <3>2
        <5>4. CASE l = m
          <6>1. HasKey(g, k) /\ HasKey(f, k)
            BY <4>2, <4>3, <5>2 DEF HasKey
          <6>2. g = f
            BY <3>4, <5>4, <6>1 DEF LevelsGood, Undivided
          <6> QED BY <4>1, <4>3, <5>2, <6>2, SeekIs
        <5>5. CASE l # m
          <6>1. m < l
            BY <3>4, <5>3, <5>5, LevelConstants
          <6>2. e.seq < x.seq /\ e.seq \in Nat
            BY <1>1, <1>2, <1>6, <3>4, <4>2, <4>3, <5>2, <5>3, <6>1
          <6> QED BY <4>2, <6>2
        <5> QED BY <5>4, <5>5
      <4> QED BY <4>2, <4>3, SeekIs
    <3>6. InLevels!SearchLevel(m, k, s) \subseteq InLevels!Seek(E, k, s)
      BY <3>5
    <3> QED BY <1>5, <3>3, <3>4, <3>6
  <2> QED BY <2>4, <2>5
<1> QED BY <1>7, <1>8, <1>9

LEMMA LevelsInvReads ==
  ASSUME LevelsInv
  PROVE  InLevels!ReadsFindTheNewest
<1> SUFFICES ASSUME NEW k \in InLevels!Keys, InLevels!Sound(k), NEW s \in snapshots \cup {lastSeq}
             PROVE  /\ InLevels!Value(InLevels!Get(k, s)) = InLevels!Value(InLevels!Seek(history, k, s))
                    /\ InLevels!Value(InLevels!Seek(InLevels!Everything, k, s)) = InLevels!Value(InLevels!Seek(history, k, s))
  BY DEF InLevels!ReadsFindTheNewest, InLevels!GetsFindTheNewest,
       InLevels!ScansFindTheNewest
<1>1. LevelsTyped /\ LevelsGood /\ k \in InLevels!Keys \ divided
  BY DEF LevelsInv, InLevels!Sound
<1>2. InLevels!Get(k, s) = InLevels!Seek(InLevels!Everything, k, s)
  BY <1>1, GetFinds
<1>3. InLevels!Value(InLevels!Seek(InLevels!Everything, k, s)) = InLevels!Value(InLevels!Seek(history, k, s))
  BY <1>1, ScanFinds DEF LevelsGood
<1> QED BY <1>2, <1>3

(* Get, which stops at the first file with an entry of the key, and an     *)
(* iterator, which merges them all, find at the latest sequence number and *)
(* at every snapshot what was the newest write then, whatever compactions  *)
(* dropped, but for keys whose entries a compaction divided.               *)
THEOREM ReadsStayRight == Spec => []ReadsFindTheNewest
<1>1. LevelsInv => ReadsFindTheNewest
  BY LevelsInvReads DEF ReadsFindTheNewest
<1> QED BY <1>1, LevelsInvHolds, PTL

-----------------------------------------------------------------------------
(* The iterator: its inductive invariant.                                  *)

(* Entries the snapshot sees: what is inserted later it does not.          *)
Visible == {e \in InIter!All : InIter!Seq(e) <= sequence}

(* An entry is written once, into one child.                               *)
Bound == (LastIterKey + 1) * InIter!Width
ChildrenRight ==
  /\ children \in [InIter!Child -> SUBSET (1 .. Bound)]
  /\ \A c, d \in InIter!Child : c # d => children[c] \cap children[d] = {}
  /\ \A e \in InIter!All : InIter!UserKey(e) \in InIter!UserKeys /\ InIter!Seq(e) \in 1 .. InIter!Written
  /\ InIter!IsFiniteSet(InIter!All) /\ Entries <= InIter!Written /\ InIter!Written <= Entries + Inserts
  /\ deletions \subseteq InIter!All /\ sequence \in 1 .. Entries

(* Each child stands at the first entry from the merged key on, or at the  *)
(* last up to it, but for what was inserted since.                         *)
Merged == [at : [InIter!Child -> Int], current : Int, forward : BOOLEAN]
AfterKey(m) ==
  \A c \in InIter!Child :
    /\ m.at[c] # 0 => InIter!Key(m) <= m.at[c]
    /\ \A f \in children[c] \cap Visible : InIter!Key(m) <= f => m.at[c] # 0 /\ m.at[c] <= f
BeforeKey(m) ==
  \A c \in InIter!Child :
    /\ m.at[c] # 0 => m.at[c] <= InIter!Key(m)
    /\ \A f \in children[c] \cap Visible : f <= InIter!Key(m) => m.at[c] # 0 /\ f <= m.at[c]
Children(m) == \A c \in InIter!Child : m.at[c] \in children[c] \cup {0}
Stands(m) ==
  /\ m \in Merged /\ m.current \in InIter!Child \cup {-1} /\ Children(m)
  /\ InIter!Valid(m) => /\ InIter!Key(m) # 0
                        /\ IF m.forward THEN AfterKey(m) ELSE BeforeKey(m)

DBIter == [pc : {"rest", "next", "turn", "prev"}, valid : BOOLEAN, forward : BOOLEAN,
           saved : InIter!UserKeys \cup {0}, value : Int, skipping : BOOLEAN, deleted : BOOLEAN]

(* At rest the iterator shows the key it is to show.  Backwards, the       *)
(* entries of that key have been passed.                                   *)
Reach(m) == IF InIter!Valid(m) THEN InIter!Key(m) ELSE 0
RestForward(m, k) == InIter!Valid(m) /\ m.forward /\ k # 0 /\ InIter!Key(m) = InIter!Newest(k)
RestBackward(m, i, k) ==
  /\ ~m.forward /\ k # 0 /\ i.saved = k /\ i.value = InIter!Newest(k)
  /\ InIter!Valid(m) => InIter!UserKey(InIter!Key(m)) < k
  /\ \A f \in Visible : Reach(m) < f => k <= InIter!UserKey(f)
AtRest(m, i, k) == i.pc = "rest" =>
  IF i.valid THEN IF i.forward THEN RestForward(m, k) ELSE RestBackward(m, i, k)
  ELSE k = 0

(* On the way from t to the next key to show, k: the keys before k have    *)
(* been passed or are skipped, k is ahead and not skipped, a key whose     *)
(* newest entry has been passed is skipped, and so is no later one.        *)
Forth(t, skipping, saved, k) ==
  /\ \A j \in InIter!Shown : k = 0 \/ j < k => InIter!Newest(j) < t \/ (skipping /\ j <= saved)
  /\ k # 0 => t <= InIter!Newest(k) /\ ~(skipping /\ k <= saved)
  /\ \A f \in Visible :
       t <= f /\ InIter!Newest(InIter!UserKey(f)) < t => skipping /\ InIter!UserKey(f) <= saved
  /\ skipping => \A f \in Visible : t <= f => saved <= InIter!UserKey(f)
Forwards(m, i, k) == i.pc = "next" =>
  InIter!Valid(m) /\ m.forward /\ i.forward /\ Forth(InIter!Key(m), i.skipping, i.saved, k)

(* Turning: the last key before the one it comes from is to be shown.      *)
Turns(m, i, k) == i.pc = "turn" =>
  /\ InIter!Valid(m) /\ i.saved # 0 /\ i.saved <= InIter!UserKey(InIter!Key(m))
  /\ k = InIter!Last({j \in InIter!Shown : j < i.saved})

(* On the way back at t: the key to show, k, is ahead or saved, what is    *)
(* ahead or saved is not after it, and what is saved is the next entry.    *)
Back(t, deleted, saved, value, k) ==
  /\ k # 0 => InIter!Newest(k) <= t \/ (~deleted /\ saved = k /\ value = InIter!Newest(k))
  /\ \A j \in InIter!Shown : InIter!Newest(j) <= t \/ (~deleted /\ saved = j) => k # 0 /\ j <= k
  /\ ~deleted => /\ saved # 0 /\ value \in Visible \ deletions
                 /\ InIter!UserKey(value) = saved /\ t < value
                 /\ \A f \in Visible : f < value => f <= t
Backwards(m, i, k) == i.pc = "prev" =>
  ~m.forward /\ ~i.forward /\ Back(Reach(m), i.deleted, i.saved, i.value, k)

Position(m, i, k) ==
  /\ Stands(m) /\ i \in DBIter /\ k \in InIter!Shown \cup {0}
  /\ AtRest(m, i, k) /\ Forwards(m, i, k) /\ Turns(m, i, k) /\ Backwards(m, i, k)
IterInv == ChildrenRight /\ Position(merged, dbIter, shown)

-----------------------------------------------------------------------------
(* Internal keys.                                                          *)

LEMMA IterConstants ==
  /\ LastIterKey \in Nat \ {0} /\ Entries \in Nat \ {0} /\ Inserts \in Nat
  /\ InIter!UserKeys = 1 .. LastIterKey /\ InIter!Child = 0 .. IterTables /\ 0 \in InIter!Child
  /\ InIter!Width \in Nat \ {0} /\ InIter!Width = Entries + Inserts + 1
  /\ \A S : InIter!Cardinality(S) = Cardinality(S)
  /\ \A S : InIter!IsFiniteSet(S) <=> IsFiniteSet(S)
<1>1. \A S : InIter!Cardinality(S) = Cardinality(S)
  BY DEF InIter!Cardinality, Cardinality, InIter!IsFiniteSet, IsFiniteSet
<1>2. \A S : InIter!IsFiniteSet(S) <=> IsFiniteSet(S)
  BY DEF InIter!IsFiniteSet, IsFiniteSet
<1> QED BY <1>1, <1>2, StorageAssumption
        DEF InIter!DBIteratorAssumption, InIter!UserKeys, InIter!Child, InIter!Width

(* Multiples of w and what is left of a number below the next.             *)
LEMMA Multiples ==
  ASSUME NEW w \in Nat \ {0}, NEW a \in Int, NEW b \in Int, a < b
  PROVE  a * w \in Int /\ b * w \in Int /\ a * w + w <= b * w
<1> DEFINE d == b - a - 1
<1>1. d \in Nat /\ b = a + 1 + d
  OBVIOUS
<1>2. d * w \in Nat
  BY <1>1
<1>3. b * w = a * w + w + d * w
  BY <1>1
<1> QED BY <1>2, <1>3

LEMMA Commutes ==
  ASSUME NEW a \in Int, NEW b \in Int
  PROVE  a * b = b * a
OBVIOUS

LEMMA Division ==
  ASSUME NEW w \in Nat \ {0}, NEW e \in Int
  PROVE  /\ e \div w \in Int /\ e % w \in 0 .. w - 1
         /\ e = (e \div w) * w + (e % w)
<1>0. w \in Int /\ w > 0
  OBVIOUS
<1>1. e \div w \in Int
  BY <1>0, SMT
<1>2. e % w \in 0 .. w - 1
  BY <1>0, SMT
<1>3. e = w * (e \div w) + (e % w)
  BY <1>0, SMT
<1>4. w * (e \div w) = (e \div w) * w
  BY <1>0, <1>1, Commutes
<1> QED BY <1>1, <1>2, <1>3, <1>4

LEMMA Quotient ==
  ASSUME NEW w \in Nat \ {0}, NEW k \in Int, NEW r \in 0 .. w - 1
  PROVE  (k * w + r) \div w = k /\ (k * w + r) % w = r
<1> DEFINE e == k * w + r
           q == e \div w
<1>0. e \in Int
  OBVIOUS
<1>1. q \in Int /\ e % w \in 0 .. w - 1 /\ e = q * w + (e % w)
  BY <1>0, Division
<1>2. q * w \in Int /\ k * w \in Int /\ e = k * w + r
  BY <1>1
<1> HIDE DEF e, q
<1>3. ~(q < k)
  <2> SUFFICES ASSUME q < k PROVE FALSE
    OBVIOUS
  <2>1. q * w + w <= k * w
    BY <1>1, Multiples
  <2> DEFINE x == q * w
             y == k * w
             z == e % w
  <2>a. x \in Int /\ y \in Int
    BY <1>2
  <2>b. z \in 0 .. w - 1 /\ e = x + z
    BY <1>1, Zenon
  <2>c. e = y + r
    BY <1>2, Zenon
  <2>2. x \in Int /\ y \in Int /\ z \in 0 .. w - 1 /\ e = x + z /\ e = y + r
    BY <2>a, <2>b, <2>c
  <2>3. x + w <= y
    BY <2>1
  <2> HIDE DEF x, y, z
  <2> QED BY <2>2, <2>3
<1>4. ~(k < q)
  <2> SUFFICES ASSUME k < q PROVE FALSE
    OBVIOUS
  <2>1. k * w + w <= q * w
    BY <1>1, Multiples
  <2> DEFINE x == q * w
             y == k * w
             z == e % w
  <2>a. x \in Int /\ y \in Int
    BY <1>2
  <2>b. z \in 0 .. w - 1 /\ e = x + z
    BY <1>1, Zenon
  <2>c. e = y + r
    BY <1>2, Zenon
  <2>2. x \in Int /\ y \in Int /\ z \in 0 .. w - 1 /\ e = x + z /\ e = y + r
    BY <2>a, <2>b, <2>c
  <2>3. y + w <= x
    BY <2>1
  <2> HIDE DEF x, y, z
  <2> QED BY <2>2, <2>3
<1>5. q = k
  BY <1>1, <1>3, <1>4
<1> QED BY <1>1, <1>2, <1>5 DEF e, q

(* Entries are in the order of their user keys, the newest first.          *)
LEMMA EntryOrder ==
  ASSUME NEW e \in Int, NEW f \in Int
  PROVE  /\ InIter!UserKey(e) \in Int /\ InIter!Seq(e) \in 0 .. InIter!Width - 1
         /\ InIter!UserKey(e) < InIter!UserKey(f) => e < f
         /\ InIter!UserKey(e) = InIter!UserKey(f) => (e < f <=> InIter!Seq(f) < InIter!Seq(e))
<1> DEFINE w == InIter!Width
           p == e \div w
           q == f \div w
           x == e % w
           y == f % w
<1>0. w \in Nat \ {0}
  BY IterConstants
<1>1. p \in Int /\ x \in 0 .. w - 1 /\ e = p * w + x
  BY <1>0, Division
<1>2. q \in Int /\ y \in 0 .. w - 1 /\ f = q * w + y
  BY <1>0, Division
<1>3. InIter!UserKey(e) = p /\ InIter!UserKey(f) = q /\ InIter!Seq(e) = w - 1 - x /\ InIter!Seq(f) = w - 1 - y
  BY DEF InIter!UserKey, InIter!Seq
<1> HIDE DEF w, p, q, x, y
<1>4. p * w \in Int /\ q * w \in Int
  BY <1>0, <1>1, <1>2
<1>5. p < q => e < f
  <2> SUFFICES ASSUME p < q PROVE e < f
    OBVIOUS
  <2>1. p * w + w <= q * w
    BY <1>0, <1>1, <1>2, Multiples
  <2> QED BY <1>0, <1>1, <1>2, <1>4, <2>1
<1>6. p = q => (e < f <=> w - 1 - y < w - 1 - x)
  BY <1>0, <1>1, <1>2, <1>4
<1>7. w - 1 - x \in 0 .. w - 1
  BY <1>0, <1>1
<1> QED BY <1>0, <1>1, <1>2, <1>3, <1>5, <1>6, <1>7 DEF w

LEMMA InternalKeyIs ==
  ASSUME NEW k \in InIter!UserKeys, NEW s \in 1 .. Entries + Inserts
  PROVE  /\ InIter!InternalKey(k, s) \in 1 .. Bound
         /\ InIter!UserKey(InIter!InternalKey(k, s)) = k /\ InIter!Seq(InIter!InternalKey(k, s)) = s
<1> DEFINE w == InIter!Width
           r == w - 1 - s
           e == k * w + r
<1>0. w \in Nat \ {0} /\ w = Entries + Inserts + 1 /\ Entries \in Nat /\ Inserts \in Nat
  BY IterConstants
<1>1. r \in 0 .. w - 1 /\ k \in Int /\ 0 < k /\ k < LastIterKey + 1 /\ LastIterKey \in Nat
  BY <1>0, IterConstants
<1>2. InIter!InternalKey(k, s) = e
  BY <1>0, <1>1 DEF InIter!InternalKey
<1>3. e \div w = k /\ e % w = r
  BY <1>0, <1>1, Quotient
<1>4. InIter!UserKey(e) = k /\ InIter!Seq(e) = w - 1 - r
  BY <1>3 DEF InIter!UserKey, InIter!Seq
<1>5. w - 1 - r = s
  BY <1>0
<1>6. 0 * w + w <= k * w /\ k * w + w <= (LastIterKey + 1) * w /\ k * w \in Int
  BY <1>0, <1>1, Multiples
<1>7. 0 * w = 0 /\ Bound \in Int /\ Bound = (LastIterKey + 1) * w
  BY <1>0, <1>1 DEF Bound
<1> HIDE DEF w, e, r
<1>8. e \in 1 .. Bound
  <2>1. e = k * w + r
    BY DEF e
  <2> QED BY <1>0, <1>1, <1>6, <1>7, <2>1
<1> QED BY <1>2, <1>4, <1>5, <1>8

LEMMA IterGreatest ==
  ASSUME NEW n \in Nat, NEW S \in SUBSET (0 .. n), S # {}
  PROVE  InIter!Max(S) \in S /\ \A x \in S : x <= InIter!Max(S)
<1>1. InIter!Max(S) = InList!Max(S)
  BY DEF InIter!Max, InList!Max
<1>2. InList!Max(S) \in S /\ \A m \in S : m <= InList!Max(S)
  BY MaxExists
<1> QED BY <1>1, <1>2

LEMMA IterLeast ==
  ASSUME NEW n \in Nat, NEW S \in SUBSET (0 .. n), S # {}
  PROVE  InIter!Min(S) \in S /\ \A x \in S : InIter!Min(S) <= x
<1>1. InIter!Min(S) = InLevels!Min(S)
  BY DEF InIter!Min, InLevels!Min
<1>2. InLevels!Min(S) \in S /\ \A k \in S : InLevels!Min(S) <= k
  BY MinExists
<1> QED BY <1>1, <1>2

LEMMA FirstIs ==
  ASSUME NEW n \in Nat, NEW S \in SUBSET (1 .. n)
  PROVE  /\ S = {} => InIter!First(S) = 0
         /\ S # {} => InIter!First(S) \in S /\ \A x \in S : InIter!First(S) <= x
<1>1. S \in SUBSET (0 .. n)
  OBVIOUS
<1>2. S # {} => InIter!Min(S) \in S /\ \A x \in S : InIter!Min(S) <= x
  BY <1>1, IterLeast
<1> QED BY <1>2 DEF InIter!First, InIter!None

LEMMA LastIs ==
  ASSUME NEW n \in Nat, NEW S \in SUBSET (1 .. n)
  PROVE  /\ S = {} => InIter!Last(S) = 0
         /\ S # {} => InIter!Last(S) \in S /\ \A x \in S : x <= InIter!Last(S)
<1>1. S \in SUBSET (0 .. n)
  OBVIOUS
<1>2. S # {} => InIter!Max(S) \in S /\ \A x \in S : x <= InIter!Max(S)
  BY <1>1, IterGreatest
<1> QED BY <1>2 DEF InIter!Last, InIter!None

-----------------------------------------------------------------------------
(* What the entries and the newest of a key are.                           *)
LEMMA EntriesAre ==
  ASSUME ChildrenRight
  PROVE  /\ Bound \in Nat
         /\ \A c \in InIter!Child : children[c] \in SUBSET (1 .. Bound) /\ children[c] \subseteq InIter!All
         /\ \A e \in InIter!All : /\ e \in 1 .. Bound /\ e \in Int
                                  /\ InIter!UserKey(e) \in InIter!UserKeys /\ InIter!UserKey(e) \in 1 .. LastIterKey
         /\ Visible \subseteq InIter!All
         /\ \A e \in InIter!All, f \in InIter!All :
              /\ e < f => InIter!UserKey(e) <= InIter!UserKey(f)
              /\ InIter!UserKey(e) < InIter!UserKey(f) => e < f
<1>1. Bound \in Nat
  BY IterConstants DEF Bound
<1>2. \A c \in InIter!Child : children[c] \in SUBSET (1 .. Bound) /\ children[c] \subseteq InIter!All
  BY DEF ChildrenRight, InIter!All
<1>3. \A e \in InIter!All : e \in 1 .. Bound
  BY <1>2 DEF InIter!All
<1>4. \A e \in InIter!All : e \in Int /\ InIter!UserKey(e) \in InIter!UserKeys /\ InIter!UserKey(e) \in 1 .. LastIterKey
  BY <1>1, <1>3, IterConstants DEF ChildrenRight
<1>5. \A e \in InIter!All, f \in InIter!All : InIter!UserKey(e) < InIter!UserKey(f) => e < f
  BY <1>4, EntryOrder
<1>6. \A e \in InIter!All, f \in InIter!All : e < f => InIter!UserKey(e) <= InIter!UserKey(f)
  <2> SUFFICES ASSUME NEW e \in InIter!All, NEW f \in InIter!All, e < f, ~(InIter!UserKey(e) <= InIter!UserKey(f))
               PROVE  FALSE
    OBVIOUS
  <2>1. InIter!UserKey(f) < InIter!UserKey(e)
    BY <1>4, IterConstants
  <2> QED BY <1>4, <1>5, <2>1
<1> QED BY <1>1, <1>2, <1>3, <1>4, <1>5, <1>6 DEF Visible

LEMMA NewestIs ==
  ASSUME ChildrenRight
  PROVE  /\ \A k : InIter!Newest(k) # 0 =>
                          InIter!Newest(k) \in Visible /\ InIter!UserKey(InIter!Newest(k)) = k
         /\ \A f \in Visible : InIter!Newest(InIter!UserKey(f)) # 0 /\ InIter!Newest(InIter!UserKey(f)) <= f
<1> DEFINE Of(k) == {e \in InIter!All : InIter!UserKey(e) = k /\ InIter!Seq(e) <= sequence}
<1>1. \A k : InIter!Newest(k) = InIter!First(Of(k))
  BY DEF InIter!Newest
<1>2. Bound \in Nat /\ \A k : Of(k) \in SUBSET (1 .. Bound)
  BY EntriesAre
<1>3. \A k : Of(k) = {} => InIter!First(Of(k)) = 0
  BY <1>2, FirstIs
<1>4. \A k : Of(k) # {} => InIter!First(Of(k)) \in Of(k) /\ \A x \in Of(k) : InIter!First(Of(k)) <= x
  BY <1>2, FirstIs
<1>5. \A f \in Visible : f \in Of(InIter!UserKey(f))
  BY DEF Visible
<1>6. \A k : \A e \in Of(k) : e \in Visible /\ InIter!UserKey(e) = k /\ e # 0
  BY <1>2 DEF Visible
<1> HIDE DEF Of
<1> QED BY <1>1, <1>3, <1>4, <1>5, <1>6

(* Keys that are shown, and their order.                                   *)
LEMMA ShownAre ==
  ASSUME ChildrenRight
  PROVE  /\ InIter!Shown \in SUBSET (1 .. LastIterKey) /\ LastIterKey \in Nat
         /\ \A j \in InIter!Shown : /\ j \in Int /\ InIter!Newest(j) \in Visible \ deletions
                                    /\ InIter!Newest(j) \in 1 .. Bound /\ InIter!UserKey(InIter!Newest(j)) = j
         /\ \A f \in Visible \ deletions : InIter!Newest(InIter!UserKey(f)) = f => InIter!UserKey(f) \in InIter!Shown
<1>1. \A j \in InIter!Shown : j \in 1 .. LastIterKey /\ InIter!Newest(j) # 0 /\ InIter!Newest(j) \notin deletions
  BY IterConstants DEF InIter!Shown, InIter!None
<1>2. \A j \in InIter!Shown : InIter!Newest(j) \in Visible \ deletions /\ InIter!UserKey(InIter!Newest(j)) = j
  BY <1>1, NewestIs
<1>3. \A j \in InIter!Shown : InIter!Newest(j) \in 1 .. Bound
  BY <1>2, EntriesAre
<1>4. \A f \in Visible : InIter!UserKey(f) \in InIter!UserKeys /\ f # 0
  BY EntriesAre
<1>5. \A f \in Visible \ deletions : InIter!Newest(InIter!UserKey(f)) = f => InIter!UserKey(f) \in InIter!Shown
  BY <1>4 DEF InIter!Shown, InIter!None
<1> QED BY <1>1, <1>2, <1>3, <1>5, IterConstants

(* First and last of the keys shown that satisfy something.                *)
LEMMA FirstShown ==
  ASSUME ChildrenRight, NEW S \in SUBSET InIter!Shown
  PROVE  /\ InIter!First(S) \in S \cup {0} /\ InIter!First(S) \in Int
         /\ \A j \in S : InIter!First(S) # 0 /\ InIter!First(S) <= j
<1>1. S \in SUBSET (1 .. LastIterKey) /\ LastIterKey \in Nat
  BY ShownAre
<1>2. S = {} => InIter!First(S) = 0
  BY <1>1, FirstIs
<1>3. S # {} => InIter!First(S) \in S /\ \A j \in S : InIter!First(S) <= j
  BY <1>1, FirstIs
<1>4. \A j \in S : j \in Int /\ j # 0
  BY <1>1
<1> QED BY <1>2, <1>3, <1>4

LEMMA LastShown ==
  ASSUME ChildrenRight, NEW S \in SUBSET InIter!Shown
  PROVE  /\ InIter!Last(S) \in S \cup {0} /\ InIter!Last(S) \in Int
         /\ \A j \in S : InIter!Last(S) # 0 /\ j <= InIter!Last(S)
<1>1. S \in SUBSET (1 .. LastIterKey) /\ LastIterKey \in Nat
  BY ShownAre
<1>2. S = {} => InIter!Last(S) = 0
  BY <1>1, LastIs
<1>3. S # {} => InIter!Last(S) \in S /\ \A j \in S : j <= InIter!Last(S)
  BY <1>1, LastIs
<1>4. \A j \in S : j \in Int /\ j # 0
  BY <1>1
<1> QED BY <1>2, <1>3, <1>4

-----------------------------------------------------------------------------
(* The merged iterator: where its moves lead.                              *)
AtOrAfter(m, t) ==
  \A c \in InIter!Child :
    /\ m.at[c] # 0 => t <= m.at[c]
    /\ \A f \in children[c] \cap Visible : t <= f => m.at[c] # 0 /\ m.at[c] <= f
AtOrBefore(m, t) ==
  \A c \in InIter!Child :
    /\ m.at[c] # 0 => m.at[c] <= t
    /\ \A f \in children[c] \cap Visible : f <= t => m.at[c] # 0 /\ f <= m.at[c]
ReachedForward(m, t) ==
  /\ Stands(m) /\ m.forward
  /\ InIter!Valid(m) => InIter!Key(m) \in InIter!All /\ t <= InIter!Key(m)
  /\ \A f \in Visible : t <= f => InIter!Valid(m) /\ InIter!Key(m) <= f
ReachedBackward(m, t) ==
  /\ Stands(m) /\ ~m.forward
  /\ InIter!Valid(m) => InIter!Key(m) \in InIter!All /\ InIter!Key(m) <= t
  /\ \A f \in Visible : f <= t => InIter!Valid(m) /\ f <= InIter!Key(m)

LEMMA AtIs ==
  ASSUME ChildrenRight, NEW m \in Merged, Children(m)
  PROVE  /\ \A c \in InIter!Child : m.at[c] \in 0 .. Bound
         /\ \A c \in InIter!Child : m.at[c] \in Int
         /\ \A c \in InIter!Child : m.at[c] # 0 => m.at[c] \in children[c]
         /\ \A c \in InIter!Child : m.at[c] # 0 => m.at[c] \in InIter!All
         /\ -1 \notin InIter!Child
<1>1. \A c \in InIter!Child : m.at[c] \in children[c] \cup {0} /\ children[c] \subseteq InIter!All
                              /\ children[c] \in SUBSET (1 .. Bound)
  BY EntriesAre DEF Children
<1>2. Bound \in Nat
  BY EntriesAre
<1>3. \A c \in InIter!Child : m.at[c] \in 0 .. Bound
  BY <1>1, <1>2
<1> QED BY <1>1, <1>2, <1>3, IterConstants

LEMMA KeyIsEntry ==
  ASSUME ChildrenRight, NEW m, Stands(m), InIter!Valid(m)
  PROVE  /\ m.current \in InIter!Child /\ InIter!Key(m) = m.at[m.current]
         /\ InIter!Key(m) \in children[m.current] /\ InIter!Key(m) \in InIter!All
         /\ InIter!Key(m) \in 1 .. Bound /\ InIter!Key(m) \in Int
<1>1. m \in Merged /\ m.current \in InIter!Child /\ Children(m) /\ InIter!Key(m) # 0
  BY DEF Stands, InIter!Valid
<1>2. InIter!Key(m) = m.at[m.current]
  BY DEF InIter!Key
<1> QED BY <1>1, <1>2, AtIs, EntriesAre

LEMMA FindSmallestIs ==
  ASSUME ChildrenRight, NEW m \in Merged, Children(m), NEW r, r = InIter!FindSmallest(m)
  PROVE  /\ r \in Merged /\ r.at = m.at /\ r.forward = m.forward
         /\ r.current \in InIter!Child \cup {-1}
         /\ r.current = -1 => \A c \in InIter!Child : m.at[c] = 0
         /\ r.current # -1 =>
              /\ m.at[r.current] # 0
              /\ \A d \in InIter!Child : m.at[d] # 0 => m.at[r.current] <= m.at[d]
<1> DEFINE valid == {c \in InIter!Child : m.at[c] # 0}
           S == {m.at[c] : c \in valid}
           Smallest(c) == \A d \in valid : m.at[c] <= m.at[d]
<1>1. r = [m EXCEPT !.current = IF valid = {} THEN -1 ELSE CHOOSE c \in valid : Smallest(c)]
  BY DEF InIter!FindSmallest, InIter!None
<1>2. valid # {} => \E c \in valid : Smallest(c)
  <2> SUFFICES ASSUME valid # {} PROVE \E c \in valid : Smallest(c)
    OBVIOUS
  <2>1. \A c \in valid : m.at[c] \in 0 .. Bound
    BY AtIs
  <2>2. S \in SUBSET (0 .. Bound) /\ S # {} /\ Bound \in Nat
    BY <2>1, EntriesAre
  <2>3. InIter!Min(S) \in S /\ \A x \in S : InIter!Min(S) <= x
    BY <2>2, IterLeast
  <2>4. PICK c \in valid : m.at[c] = InIter!Min(S)
    BY <2>3
  <2> QED BY <2>3, <2>4
<1> DEFINE x == IF valid = {} THEN -1 ELSE CHOOSE c \in valid : Smallest(c)
<1>3. valid = {} => x = -1
  OBVIOUS
<1>4. valid # {} => x \in valid /\ Smallest(x)
  BY <1>2
<1>5. r = [m EXCEPT !.current = x]
  BY <1>1
<1>6. x \in InIter!Child \cup {-1} /\ x \in Int
  BY <1>3, <1>4, IterConstants, StorageAssumption DEF InIter!DBIteratorAssumption
<1> HIDE DEF x
<1>7. r \in Merged /\ r.at = m.at /\ r.forward = m.forward /\ r.current = x
  BY <1>5, <1>6 DEF Merged
<1>8. x = -1 => valid = {}
  BY <1>4, AtIs
<1> QED BY <1>3, <1>4, <1>6, <1>7, <1>8

LEMMA FindLargestIs ==
  ASSUME ChildrenRight, NEW m \in Merged, Children(m), NEW r, r = InIter!FindLargest(m)
  PROVE  /\ r \in Merged /\ r.at = m.at /\ r.forward = m.forward
         /\ r.current \in InIter!Child \cup {-1}
         /\ r.current = -1 => \A c \in InIter!Child : m.at[c] = 0
         /\ r.current # -1 =>
              /\ m.at[r.current] # 0
              /\ \A d \in InIter!Child : m.at[d] # 0 => m.at[d] <= m.at[r.current]
<1> DEFINE valid == {c \in InIter!Child : m.at[c] # 0}
           S == {m.at[c] : c \in valid}
           Largest(c) == \A d \in valid : m.at[c] >= m.at[d]
<1>1. r = [m EXCEPT !.current = IF valid = {} THEN -1 ELSE CHOOSE c \in valid : Largest(c)]
  BY DEF InIter!FindLargest, InIter!None
<1>0. \A c \in valid : m.at[c] \in 0 .. Bound /\ m.at[c] \in Int
  BY AtIs
<1>2. valid # {} => \E c \in valid : Largest(c)
  <2> SUFFICES ASSUME valid # {} PROVE \E c \in valid : Largest(c)
    OBVIOUS
  <2>2. S \in SUBSET (0 .. Bound) /\ S # {} /\ Bound \in Nat
    BY <1>0, EntriesAre
  <2>3. InIter!Max(S) \in S /\ \A x \in S : x <= InIter!Max(S)
    BY <2>2, IterGreatest
  <2>4. PICK c \in valid : m.at[c] = InIter!Max(S)
    BY <2>3
  <2>5. \A d \in valid : m.at[d] <= m.at[c]
    BY <2>3, <2>4
  <2> QED BY <1>0, <2>4, <2>5
<1> DEFINE x == IF valid = {} THEN -1 ELSE CHOOSE c \in valid : Largest(c)
<1>3. valid = {} => x = -1
  OBVIOUS
<1>4. valid # {} => x \in valid /\ Largest(x)
  BY <1>2
<1>5. r = [m EXCEPT !.current = x]
  BY <1>1
<1>6. x \in InIter!Child \cup {-1} /\ x \in Int
  BY <1>3, <1>4, IterConstants, StorageAssumption DEF InIter!DBIteratorAssumption
<1> HIDE DEF x
<1>7. r \in Merged /\ r.at = m.at /\ r.forward = m.forward /\ r.current = x
  BY <1>5, <1>6 DEF Merged
<1>8. x = -1 => valid = {}
  BY <1>4, AtIs
<1>9. valid # {} => \A d \in valid : m.at[d] <= m.at[x]
  BY <1>0, <1>4
<1> QED BY <1>3, <1>4, <1>6, <1>7, <1>8, <1>9

LEMMA PlacedForward ==
  ASSUME ChildrenRight, NEW m \in Merged, Children(m), m.forward,
         NEW t \in Int, AtOrAfter(m, t)
  PROVE  ReachedForward(InIter!FindSmallest(m), t)
<1> DEFINE r == InIter!FindSmallest(m)
<1>1. /\ r \in Merged /\ r.at = m.at /\ r.forward = m.forward
      /\ r.current \in InIter!Child \cup {-1}
      /\ r.current = -1 => \A c \in InIter!Child : m.at[c] = 0
      /\ r.current # -1 =>
           /\ m.at[r.current] # 0
           /\ \A d \in InIter!Child : m.at[d] # 0 => m.at[r.current] <= m.at[d]
  BY FindSmallestIs
<1> HIDE DEF r
<1>2. InIter!Valid(r) <=> r.current # -1
  BY DEF InIter!Valid
<1>3. InIter!Key(r) = m.at[r.current]
  BY <1>1 DEF InIter!Key
<1>4. \A c \in InIter!Child : m.at[c] \in Int /\ (m.at[c] # 0 => m.at[c] \in InIter!All)
  BY AtIs
<1>5. \A f \in Visible : t <= f => InIter!Valid(r) /\ InIter!Key(r) <= f
  <2> SUFFICES ASSUME NEW f \in Visible, t <= f PROVE InIter!Valid(r) /\ InIter!Key(r) <= f
    OBVIOUS
  <2>1. f \in InIter!All /\ f \in Int
    BY EntriesAre
  <2>2. PICK c \in InIter!Child : f \in children[c]
    BY <2>1 DEF InIter!All
  <2>3. m.at[c] # 0 /\ m.at[c] <= f
    BY <2>2 DEF AtOrAfter
  <2>4. r.current # -1 /\ m.at[r.current] <= m.at[c] /\ r.current \in InIter!Child
    BY <1>1, <2>3
  <2> QED BY <1>2, <1>3, <1>4, <2>1, <2>3, <2>4
<1>6. ASSUME InIter!Valid(r)
      PROVE  /\ r.current \in InIter!Child /\ InIter!Key(r) \in InIter!All /\ InIter!Key(r) # 0 /\ t <= InIter!Key(r)
             /\ InIter!Key(r) \in Int
  BY <1>1, <1>2, <1>3, <1>4, <1>6 DEF AtOrAfter
<1>7. InIter!Valid(r) => AfterKey(r)
  <2> SUFFICES ASSUME InIter!Valid(r), NEW c \in InIter!Child
               PROVE  /\ r.at[c] # 0 => InIter!Key(r) <= r.at[c]
                      /\ \A f \in children[c] \cap Visible :
                           InIter!Key(r) <= f => r.at[c] # 0 /\ r.at[c] <= f
    BY DEF AfterKey
  <2>1. r.at[c] # 0 => InIter!Key(r) <= r.at[c]
    BY <1>1, <1>2, <1>3
  <2>2. ASSUME NEW f \in children[c] \cap Visible, InIter!Key(r) <= f
        PROVE  r.at[c] # 0 /\ r.at[c] <= f
    <3>1. f \in Int
      BY EntriesAre
    <3>2. t <= f
      BY <1>6, <2>2, <3>1
    <3> QED BY <1>1, <3>2 DEF AtOrAfter
  <2> QED BY <2>1, <2>2
<1>8. Stands(r)
  BY <1>1, <1>6, <1>7 DEF Stands, Children
<1> QED BY <1>1, <1>5, <1>6, <1>8 DEF ReachedForward, r

LEMMA PlacedBackward ==
  ASSUME ChildrenRight, NEW m \in Merged, Children(m), ~m.forward,
         NEW t \in Int, AtOrBefore(m, t)
  PROVE  ReachedBackward(InIter!FindLargest(m), t)
<1> DEFINE r == InIter!FindLargest(m)
<1>1. /\ r \in Merged /\ r.at = m.at /\ r.forward = m.forward
      /\ r.current \in InIter!Child \cup {-1}
      /\ r.current = -1 => \A c \in InIter!Child : m.at[c] = 0
      /\ r.current # -1 =>
           /\ m.at[r.current] # 0
           /\ \A d \in InIter!Child : m.at[d] # 0 => m.at[d] <= m.at[r.current]
  BY FindLargestIs
<1> HIDE DEF r
<1>2. InIter!Valid(r) <=> r.current # -1
  BY DEF InIter!Valid
<1>3. InIter!Key(r) = m.at[r.current]
  BY <1>1 DEF InIter!Key
<1>4. \A c \in InIter!Child : m.at[c] \in Int /\ (m.at[c] # 0 => m.at[c] \in InIter!All)
  BY AtIs
<1>5. \A f \in Visible : f <= t => InIter!Valid(r) /\ f <= InIter!Key(r)
  <2> SUFFICES ASSUME NEW f \in Visible, f <= t PROVE InIter!Valid(r) /\ f <= InIter!Key(r)
    OBVIOUS
  <2>1. f \in InIter!All /\ f \in Int
    BY EntriesAre
  <2>2. PICK c \in InIter!Child : f \in children[c]
    BY <2>1 DEF InIter!All
  <2>3. m.at[c] # 0 /\ f <= m.at[c]
    BY <2>2 DEF AtOrBefore
  <2>4. r.current # -1 /\ m.at[c] <= m.at[r.current] /\ r.current \in InIter!Child
    BY <1>1, <2>3
  <2> QED BY <1>2, <1>3, <1>4, <2>1, <2>3, <2>4
<1>6. ASSUME InIter!Valid(r)
      PROVE  /\ r.current \in InIter!Child /\ InIter!Key(r) \in InIter!All /\ InIter!Key(r) # 0 /\ InIter!Key(r) <= t
             /\ InIter!Key(r) \in Int
  BY <1>1, <1>2, <1>3, <1>4, <1>6 DEF AtOrBefore
<1>7. InIter!Valid(r) => BeforeKey(r)
  <2> SUFFICES ASSUME InIter!Valid(r), NEW c \in InIter!Child
               PROVE  /\ r.at[c] # 0 => r.at[c] <= InIter!Key(r)
                      /\ \A f \in children[c] \cap Visible :
                           f <= InIter!Key(r) => r.at[c] # 0 /\ f <= r.at[c]
    BY DEF BeforeKey
  <2>1. r.at[c] # 0 => r.at[c] <= InIter!Key(r)
    BY <1>1, <1>2, <1>3
  <2>2. ASSUME NEW f \in children[c] \cap Visible, f <= InIter!Key(r)
        PROVE  r.at[c] # 0 /\ f <= r.at[c]
    <3>1. f \in Int
      BY EntriesAre
    <3>2. f <= t
      BY <1>6, <2>2, <3>1
    <3> QED BY <1>1, <3>2 DEF AtOrBefore
  <2> QED BY <2>1, <2>2
<1>8. Stands(r)
  BY <1>1, <1>6, <1>7 DEF Stands, Children
<1> QED BY <1>1, <1>5, <1>6, <1>8 DEF ReachedBackward, r

LEMMA FirstIn ==
  ASSUME ChildrenRight, NEW c \in InIter!Child, NEW S \in SUBSET children[c]
  PROVE  /\ InIter!First(S) \in S \cup {0} /\ InIter!First(S) \in Int
         /\ \A f \in S : InIter!First(S) # 0 /\ InIter!First(S) <= f
<1>1. S \in SUBSET (1 .. Bound) /\ Bound \in Nat
  BY EntriesAre
<1>2. S = {} => InIter!First(S) = 0
  BY <1>1, FirstIs
<1>3. S # {} => InIter!First(S) \in S /\ \A f \in S : InIter!First(S) <= f
  BY <1>1, FirstIs
<1>4. \A f \in S : f \in Int /\ f # 0
  BY <1>1
<1> QED BY <1>2, <1>3, <1>4

LEMMA LastIn ==
  ASSUME ChildrenRight, NEW c \in InIter!Child, NEW S \in SUBSET children[c]
  PROVE  /\ InIter!Last(S) \in S \cup {0} /\ InIter!Last(S) \in Int
         /\ \A f \in S : InIter!Last(S) # 0 /\ f <= InIter!Last(S)
<1>1. S \in SUBSET (1 .. Bound) /\ Bound \in Nat
  BY EntriesAre
<1>2. S = {} => InIter!Last(S) = 0
  BY <1>1, LastIs
<1>3. S # {} => InIter!Last(S) \in S /\ \A f \in S : f <= InIter!Last(S)
  BY <1>1, LastIs
<1>4. \A f \in S : f \in Int /\ f # 0
  BY <1>1
<1> QED BY <1>2, <1>3, <1>4

LEMMA MergedFirstIs ==
  ASSUME ChildrenRight, Stands(merged)
  PROVE  ReachedForward(InIter!MergedFirst, 1)
<1> DEFINE at == [c \in InIter!Child |-> InIter!First(children[c])]
           m == [merged EXCEPT !.at = at, !.forward = TRUE]
<1>1. \A c \in InIter!Child :
        /\ at[c] \in children[c] \cup {0} /\ at[c] \in Int
        /\ \A f \in children[c] : at[c] # 0 /\ at[c] <= f
  BY FirstIn
<1>2. at \in [InIter!Child -> Int]
  BY <1>1
<1> HIDE DEF at
<1>3. m \in Merged /\ m.at = at /\ m.forward = TRUE
  BY <1>2 DEF Stands, Merged
<1>4. InIter!MergedFirst = InIter!FindSmallest(m)
  BY DEF InIter!MergedFirst, at
<1> HIDE DEF m
<1>5. Children(m)
  BY <1>1, <1>3 DEF Children
<1>6. AtOrAfter(m, 1)
  <2>1. \A c \in InIter!Child : at[c] # 0 => 1 <= at[c]
    BY <1>1, EntriesAre
  <2> QED BY <1>1, <1>3, <2>1 DEF AtOrAfter
<1> QED BY <1>3, <1>4, <1>5, <1>6, PlacedForward

LEMMA MergedSeekIs ==
  ASSUME ChildrenRight, Stands(merged), NEW t \in Int
  PROVE  ReachedForward(InIter!MergedSeek(t), t)
<1> DEFINE From(c) == {f \in children[c] : f >= t}
           at == [c \in InIter!Child |-> InIter!First(From(c))]
           m == [merged EXCEPT !.at = at, !.forward = TRUE]
<1>0. \A c \in InIter!Child : From(c) \in SUBSET children[c]
  OBVIOUS
<1>1. \A c \in InIter!Child :
        /\ at[c] \in From(c) \cup {0} /\ at[c] \in Int
        /\ \A f \in From(c) : at[c] # 0 /\ at[c] <= f
  BY <1>0, FirstIn
<1>2. at \in [InIter!Child -> Int]
  BY <1>1
<1>7. \A c \in InIter!Child : \A f \in children[c] : f \in Int /\ (f \in From(c) <=> t <= f)
  BY EntriesAre
<1> HIDE DEF at
<1>3. m \in Merged /\ m.at = at /\ m.forward = TRUE
  BY <1>2 DEF Stands, Merged
<1>4. InIter!MergedSeek(t) = InIter!FindSmallest(m)
  BY DEF InIter!MergedSeek, InIter!SeekIn, at
<1> HIDE DEF m, From
<1>5. Children(m)
  BY <1>0, <1>1, <1>3 DEF Children
<1>6. AtOrAfter(m, t)
  <2>1. \A c \in InIter!Child : at[c] # 0 => t <= at[c]
    BY <1>0, <1>1, <1>7
  <2> QED BY <1>1, <1>3, <1>7, <2>1 DEF AtOrAfter
<1> QED BY <1>3, <1>4, <1>5, <1>6, PlacedForward

LEMMA MergedLastIs ==
  ASSUME ChildrenRight, Stands(merged)
  PROVE  ReachedBackward(InIter!MergedLast, Bound)
<1> DEFINE at == [c \in InIter!Child |-> InIter!Last(children[c])]
           m == [merged EXCEPT !.at = at, !.forward = FALSE]
<1>1. \A c \in InIter!Child :
        /\ at[c] \in children[c] \cup {0} /\ at[c] \in Int
        /\ \A f \in children[c] : at[c] # 0 /\ f <= at[c]
  BY LastIn
<1>2. at \in [InIter!Child -> Int]
  BY <1>1
<1> HIDE DEF at
<1>3. m \in Merged /\ m.at = at /\ m.forward = FALSE
  BY <1>2 DEF Stands, Merged
<1>4. InIter!MergedLast = InIter!FindLargest(m)
  BY DEF InIter!MergedLast, at
<1> HIDE DEF m
<1>5. Children(m)
  BY <1>1, <1>3 DEF Children
<1>6. AtOrBefore(m, Bound) /\ Bound \in Int
  <2>1. \A c \in InIter!Child : at[c] # 0 => at[c] <= Bound
    BY <1>1, EntriesAre
  <2> QED BY <1>1, <1>3, <2>1, EntriesAre DEF AtOrBefore
<1> QED BY <1>3, <1>4, <1>5, <1>6, PlacedBackward

(* The children that keep their places stand after the key already: none   *)
(* has the key's entry but the one that moves.                             *)
LEMMA MergedNextIs ==
  ASSUME ChildrenRight, Stands(merged), InIter!Valid(merged)
  PROVE  ReachedForward(InIter!MergedNext, InIter!Key(merged) + 1)
<1> DEFINE key == InIter!Key(merged)
           From(c) == {f \in children[c] : f > key}
           Moves(c) == c = merged.current \/ ~merged.forward
           at == [c \in InIter!Child |-> IF Moves(c) THEN InIter!First(From(c)) ELSE merged.at[c]]
           m == [merged EXCEPT !.forward = TRUE, !.at = at]
<1>0. \A c \in InIter!Child : From(c) \in SUBSET children[c]
  OBVIOUS
<1>a. merged \in Merged /\ Children(merged) /\ (merged.forward => AfterKey(merged))
  BY DEF Stands
<1>b. key \in Int /\ merged.current \in InIter!Child /\ key \in children[merged.current]
  BY KeyIsEntry
<1>c. \A c \in InIter!Child : \A f \in children[c] : f \in Int
  BY EntriesAre
<1>d. InIter!MergedNext = InIter!FindSmallest(m)
  BY DEF InIter!MergedNext, InIter!NextIn
<1> HIDE DEF key
<1>1. \A c \in InIter!Child :
        /\ InIter!First(From(c)) \in From(c) \cup {0} /\ InIter!First(From(c)) \in Int
        /\ \A f \in From(c) : InIter!First(From(c)) # 0 /\ InIter!First(From(c)) <= f
  BY <1>0, FirstIn
<1>2. ASSUME NEW c \in InIter!Child
      PROVE  /\ at[c] \in children[c] \cup {0} /\ at[c] \in Int
             /\ at[c] # 0 => key + 1 <= at[c]
             /\ \A f \in children[c] \cap Visible : key + 1 <= f => at[c] # 0 /\ at[c] <= f
  <2>1. \A f \in children[c] : f \in From(c) <=> key + 1 <= f
    BY <1>b, <1>c
  <2>2. CASE Moves(c)
    <3>1. at[c] = InIter!First(From(c))
      BY <2>2
    <3> HIDE DEF From, at
    <3> QED BY <1>0, <1>1, <2>1, <3>1
  <2>3. CASE ~Moves(c)
    <3>1. at[c] = merged.at[c] /\ c # merged.current /\ AfterKey(merged)
      BY <1>a, <2>3
    <3>2. at[c] \in children[c] \cup {0} /\ at[c] \in Int
      BY <1>a, <3>1, AtIs DEF Children
    <3>3. /\ at[c] # 0 => key <= at[c]
          /\ \A f \in children[c] \cap Visible : key <= f => at[c] # 0 /\ at[c] <= f
      BY <3>1 DEF AfterKey, key
    <3>4. at[c] # key
      <4>1. key \notin children[c]
        BY <1>b, <3>1 DEF ChildrenRight
      <4>2. key # 0
        BY <1>b, EntriesAre
      <4> QED BY <3>2, <4>1, <4>2
    <3> HIDE DEF at
    <3>5. at[c] # 0 => key + 1 <= at[c]
      BY <1>b, <3>2, <3>3, <3>4
    <3>6. \A f \in children[c] : key + 1 <= f => key <= f
      BY <1>b, <1>c
    <3> QED BY <3>2, <3>3, <3>5, <3>6
  <2> QED BY <2>2, <2>3
<1>3. at \in [InIter!Child -> Int]
  BY <1>2
<1> HIDE DEF at
<1>4. m \in Merged /\ m.at = at /\ m.forward = TRUE
  BY <1>3, <1>a DEF Merged
<1> HIDE DEF m
<1>5. Children(m)
  BY <1>2, <1>4 DEF Children
<1>6. AtOrAfter(m, key + 1) /\ key + 1 \in Int
  BY <1>b, <1>2, <1>4 DEF AtOrAfter
<1>7. ReachedForward(InIter!FindSmallest(m), key + 1)
  BY <1>4, <1>5, <1>6, PlacedForward
<1> QED BY <1>d, <1>7 DEF key

LEMMA MergedPrevIs ==
  ASSUME ChildrenRight, Stands(merged), InIter!Valid(merged)
  PROVE  ReachedBackward(InIter!MergedPrev, InIter!Key(merged) - 1)
<1> DEFINE key == InIter!Key(merged)
           Upto(c) == {f \in children[c] : f < key}
           Moves(c) == c = merged.current \/ merged.forward
           at == [c \in InIter!Child |-> IF Moves(c) THEN InIter!Last(Upto(c)) ELSE merged.at[c]]
           m == [merged EXCEPT !.forward = FALSE, !.at = at]
<1>0. \A c \in InIter!Child : Upto(c) \in SUBSET children[c]
  OBVIOUS
<1>a. merged \in Merged /\ Children(merged) /\ (~merged.forward => BeforeKey(merged))
  BY DEF Stands
<1>b. key \in Int /\ merged.current \in InIter!Child /\ key \in children[merged.current]
  BY KeyIsEntry
<1>c. \A c \in InIter!Child : \A f \in children[c] : f \in Int
  BY EntriesAre
<1>d. InIter!MergedPrev = InIter!FindLargest(m)
  BY DEF InIter!MergedPrev, InIter!PrevIn
<1> HIDE DEF key
<1>1. \A c \in InIter!Child :
        /\ InIter!Last(Upto(c)) \in Upto(c) \cup {0} /\ InIter!Last(Upto(c)) \in Int
        /\ \A f \in Upto(c) : InIter!Last(Upto(c)) # 0 /\ f <= InIter!Last(Upto(c))
  BY <1>0, LastIn
<1>2. ASSUME NEW c \in InIter!Child
      PROVE  /\ at[c] \in children[c] \cup {0} /\ at[c] \in Int
             /\ at[c] # 0 => at[c] <= key - 1
             /\ \A f \in children[c] \cap Visible : f <= key - 1 => at[c] # 0 /\ f <= at[c]
  <2>1. \A f \in children[c] : f \in Upto(c) <=> f <= key - 1
    BY <1>b, <1>c
  <2>2. CASE Moves(c)
    <3>1. at[c] = InIter!Last(Upto(c))
      BY <2>2
    <3> HIDE DEF Upto, at
    <3> QED BY <1>0, <1>1, <2>1, <3>1
  <2>3. CASE ~Moves(c)
    <3>1. at[c] = merged.at[c] /\ c # merged.current /\ BeforeKey(merged)
      BY <1>a, <2>3
    <3>2. at[c] \in children[c] \cup {0} /\ at[c] \in Int
      BY <1>a, <3>1, AtIs DEF Children
    <3>3. /\ at[c] # 0 => at[c] <= key
          /\ \A f \in children[c] \cap Visible : f <= key => at[c] # 0 /\ f <= at[c]
      BY <3>1 DEF BeforeKey, key
    <3>4. at[c] # key
      <4>1. key \notin children[c]
        BY <1>b, <3>1 DEF ChildrenRight
      <4>2. key # 0
        BY <1>b, EntriesAre
      <4> QED BY <3>2, <4>1, <4>2
    <3> HIDE DEF at
    <3>5. at[c] # 0 => at[c] <= key - 1
      BY <1>b, <3>2, <3>3, <3>4
    <3>6. \A f \in children[c] : f <= key - 1 => f <= key
      BY <1>b, <1>c
    <3> QED BY <3>2, <3>3, <3>5, <3>6
  <2> QED BY <2>2, <2>3
<1>3. at \in [InIter!Child -> Int]
  BY <1>2
<1> HIDE DEF at
<1>4. m \in Merged /\ m.at = at /\ m.forward = FALSE
  BY <1>3, <1>a DEF Merged
<1> HIDE DEF m
<1>5. Children(m)
  BY <1>2, <1>4 DEF Children
<1>6. AtOrBefore(m, key - 1) /\ key - 1 \in Int
  BY <1>b, <1>2, <1>4 DEF AtOrBefore
<1>7. ReachedBackward(InIter!FindLargest(m), key - 1)
  BY <1>4, <1>5, <1>6, PlacedBackward
<1> QED BY <1>d, <1>7 DEF key

-----------------------------------------------------------------------------
(* The way forwards.                                                       *)
LEMMA ForthMoves ==
  ASSUME ChildrenRight, NEW t \in Int, NEW m, ReachedForward(m, t), InIter!Valid(m),
         NEW skipping \in BOOLEAN, NEW saved \in Int, NEW k \in InIter!Shown \cup {0},
         Forth(t, skipping, saved, k)
  PROVE  Forth(InIter!Key(m), skipping, saved, k)
<1> DEFINE key == InIter!Key(m)
<1>1. key \in Int /\ t <= key /\ \A f \in Visible : t <= f => key <= f
  BY EntriesAre DEF ReachedForward
<1>2. \A f \in Visible : /\ f \in Int /\ InIter!Newest(InIter!UserKey(f)) \in Visible
                         /\ InIter!Newest(InIter!UserKey(f)) \in Int
  BY EntriesAre, NewestIs
<1>3. \A j \in InIter!Shown : InIter!Newest(j) \in Visible /\ InIter!Newest(j) \in Int
  BY ShownAre
<1> HIDE DEF key
<1>4. \A j \in InIter!Shown : InIter!Newest(j) < t => InIter!Newest(j) < key
  BY <1>1, <1>3
<1>5. k # 0 => key <= InIter!Newest(k) /\ ~(skipping /\ k <= saved)
  BY <1>1, <1>3 DEF Forth
<1>6. \A f \in Visible : key <= f => t <= f
  BY <1>1, <1>2
<1>7. \A f \in Visible : InIter!Newest(InIter!UserKey(f)) < key => InIter!Newest(InIter!UserKey(f)) < t
  BY <1>1, <1>2
<1>8. \A j \in InIter!Shown : k = 0 \/ j < k => InIter!Newest(j) < key \/ (skipping /\ j <= saved)
  BY <1>4 DEF Forth
<1>9. \A f \in Visible :
        key <= f /\ InIter!Newest(InIter!UserKey(f)) < key => skipping /\ InIter!UserKey(f) <= saved
  BY <1>6, <1>7 DEF Forth
<1>10. skipping => \A f \in Visible : key <= f => saved <= InIter!UserKey(f)
  BY <1>6 DEF Forth
<1> QED BY <1>5, <1>8, <1>9, <1>10 DEF Forth, key

(* FindNextUserEntry is entered at t.                                      *)
LEMMA Entered ==
  ASSUME ChildrenRight, NEW t \in Int, NEW m, ReachedForward(m, t),
         NEW skipping \in BOOLEAN, NEW saved \in InIter!UserKeys \cup {0},
         NEW k \in InIter!Shown \cup {0}, Forth(t, skipping, saved, k),
         dbIter \in DBIter, InIter!ToNext(m, saved, skipping)
  PROVE  Position(merged', dbIter', k)
<1>1. saved \in Int
  BY IterConstants
<1>2. merged' = m /\ Stands(m) /\ m.forward
  BY DEF InIter!ToNext, ReachedForward
<1>3. CASE InIter!Valid(m)
  <2>1. dbIter' = [dbIter EXCEPT !.pc = "next", !.forward = TRUE, !.saved = saved,
                                 !.skipping = skipping]
    BY <1>3 DEF InIter!ToNext
  <2>2. /\ dbIter' \in DBIter /\ dbIter'.pc = "next" /\ dbIter'.forward = TRUE
        /\ dbIter'.saved = saved /\ dbIter'.skipping = skipping
    BY <2>1 DEF DBIter
  <2>3. Forth(InIter!Key(m), skipping, saved, k)
    BY <1>1, <1>3, ForthMoves
  <2>4. Forwards(merged', dbIter', k)
    BY <1>2, <1>3, <2>2, <2>3 DEF Forwards
  <2> QED BY <1>2, <2>2, <2>4 DEF Position, AtRest, Turns, Backwards
<1>4. CASE ~InIter!Valid(m)
  <2>1. dbIter' = [dbIter EXCEPT !.pc = "rest", !.forward = TRUE, !.saved = 0,
                                 !.valid = FALSE]
    BY <1>4 DEF InIter!ToNext, InIter!None
  <2>2. dbIter' \in DBIter /\ dbIter'.pc = "rest" /\ dbIter'.valid = FALSE
    BY <2>1 DEF DBIter
  <2>3. k = 0
    <3> SUFFICES ASSUME k # 0 PROVE FALSE
      OBVIOUS
    <3>1. InIter!Newest(k) \in Visible
      BY ShownAre
    <3>2. t <= InIter!Newest(k)
      BY DEF Forth
    <3> QED BY <1>4, <3>1, <3>2 DEF ReachedForward
  <2> QED BY <1>2, <2>2, <2>3 DEF Position, AtRest, Forwards, Turns, Backwards
<1> QED BY <1>3, <1>4

LEMMA SeekToFirstKeeps ==
  ASSUME IterInv, InIter!SeekToFirst
  PROVE  Position(merged', dbIter', shown')
<1>1. ChildrenRight /\ Stands(merged) /\ dbIter \in DBIter
  BY DEF IterInv, Position
<1> DEFINE k == InIter!First(InIter!Shown)
<1>2. k \in InIter!Shown \cup {0} /\ k \in Int /\ \A j \in InIter!Shown : k # 0 /\ k <= j
  BY <1>1, FirstShown
<1>3. shown' = k /\ InIter!ToNext(InIter!MergedFirst, 0, FALSE)
  BY DEF InIter!SeekToFirst, InIter!None
<1> HIDE DEF k
<1>4. \A f \in Visible : f \in Int /\ ~(f < 1)
  BY <1>1, EntriesAre
<1>5. \A j \in InIter!Shown : InIter!Newest(j) \in Visible /\ j \in Int
  BY <1>1, ShownAre
<1>0. PICK t \in Int : t = 1
  OBVIOUS
<1>6. Forth(t, FALSE, 0, k)
  <2>1. \A j \in InIter!Shown : ~(k = 0 \/ j < k)
    BY <1>2, <1>5
  <2>2. k # 0 => t <= InIter!Newest(k)
    BY <1>0, <1>2, <1>4, <1>5
  <2>3. \A f \in Visible : ~(InIter!Newest(InIter!UserKey(f)) < t)
    BY <1>0, <1>1, <1>4, NewestIs
  <2> QED BY <2>1, <2>2, <2>3 DEF Forth
<1>7. ReachedForward(InIter!MergedFirst, t)
  BY <1>0, <1>1, MergedFirstIs
<1> QED BY <1>1, <1>2, <1>3, <1>6, <1>7, Entered

LEMMA SeekKeeps ==
  ASSUME IterInv, NEW u \in InIter!UserKeys, InIter!Seek(u)
  PROVE  Position(merged', dbIter', shown')
<1>1. ChildrenRight /\ Stands(merged) /\ dbIter \in DBIter
  BY DEF IterInv, Position
<1> DEFINE S == {j \in InIter!Shown : j >= u}
           k == InIter!First(S)
           t == InIter!InternalKey(u, sequence)
<1>2. k \in S \cup {0} /\ k \in Int /\ \A j \in S : k # 0 /\ k <= j
  BY <1>1, FirstShown
<1>3. shown' = k /\ InIter!ToNext(InIter!MergedSeek(t), 0, FALSE)
  BY DEF InIter!Seek, InIter!None
<1> HIDE DEF k
<1>4. t \in Int /\ InIter!UserKey(t) = u /\ InIter!Seq(t) = sequence /\ u \in Int /\ sequence \in Int
  <2>1. sequence \in 1 .. Entries + Inserts /\ sequence \in Int
    BY <1>1, IterConstants DEF ChildrenRight
  <2>2. Bound \in Nat
    BY <1>1, EntriesAre
  <2> QED BY <2>1, <2>2, InternalKeyIs, IterConstants
<1> HIDE DEF t
<1>5. \A f \in Visible : f \in Int /\ InIter!UserKey(f) \in Int /\ (t <= f <=> u <= InIter!UserKey(f))
  <2> SUFFICES ASSUME NEW f \in Visible
               PROVE  f \in Int /\ InIter!UserKey(f) \in Int /\ (t <= f <=> u <= InIter!UserKey(f))
    OBVIOUS
  <2>1. f \in Int /\ InIter!UserKey(f) \in Int /\ InIter!Seq(f) <= sequence
    BY <1>1, EntriesAre DEF Visible
  <2>2. /\ u < InIter!UserKey(f) => t < f
        /\ InIter!UserKey(f) < u => f < t
    BY <1>4, <2>1, EntryOrder
  <2>3. u = InIter!UserKey(f) => (f < t <=> sequence < InIter!Seq(f))
    BY <1>4, <2>1, EntryOrder
  <2>4. InIter!Seq(f) \in Int
    BY <2>1, EntryOrder, IterConstants
  <2> QED BY <1>4, <2>1, <2>2, <2>3, <2>4
<1>6. \A j \in InIter!Shown : j \in Int /\ InIter!Newest(j) \in Visible /\ InIter!UserKey(InIter!Newest(j)) = j
  BY <1>1, ShownAre
<1>7. Forth(t, FALSE, 0, k)
  <2>1. ASSUME NEW j \in InIter!Shown, k = 0 \/ j < k
        PROVE  InIter!Newest(j) < t
    <3>1. ~(u <= j)
      BY <1>2, <1>4, <1>6, <2>1
    <3> QED BY <1>4, <1>5, <1>6, <3>1
  <2>2. k # 0 => t <= InIter!Newest(k)
    BY <1>2, <1>4, <1>5, <1>6
  <2>3. ASSUME NEW f \in Visible, t <= f
        PROVE  ~(InIter!Newest(InIter!UserKey(f)) < t)
    <3>1. InIter!Newest(InIter!UserKey(f)) \in Visible /\ InIter!UserKey(InIter!Newest(InIter!UserKey(f))) = InIter!UserKey(f)
      BY <1>1, NewestIs
    <3> QED BY <1>4, <1>5, <2>3, <3>1
  <2> QED BY <2>1, <2>2, <2>3 DEF Forth
<1>8. ReachedForward(InIter!MergedSeek(t), t)
  BY <1>1, <1>4, MergedSeekIs
<1> QED BY <1>1, <1>2, <1>3, <1>4, <1>6, <1>7, <1>8, Entered

(* From the key shown, g, to the next, when t is at its newest entry or    *)
(* behind all entries of the keys before it.                               *)
LEMMA ForthFrom ==
  ASSUME ChildrenRight, NEW g \in InIter!Shown, NEW t \in Int,
         \A f \in Visible : t <= f => g <= InIter!UserKey(f),
         \A f \in Visible : f < t => InIter!UserKey(f) <= g,
         NEW k, k = InIter!First({j \in InIter!Shown : j > g})
  PROVE  k \in InIter!Shown \cup {0} /\ Forth(t, TRUE, g, k)
<1> DEFINE S == {j \in InIter!Shown : j > g}
<1>1. k \in S \cup {0} /\ k \in Int /\ \A j \in S : k # 0 /\ k <= j
  BY FirstShown
<1>2. \A j \in InIter!Shown : j \in Int /\ InIter!Newest(j) \in Visible /\ InIter!UserKey(InIter!Newest(j)) = j
                              /\ InIter!Newest(j) \in Int
  BY ShownAre
<1>3. \A f \in Visible : /\ f \in Int /\ InIter!UserKey(f) \in Int
                         /\ InIter!Newest(InIter!UserKey(f)) \in Visible
                         /\ InIter!UserKey(InIter!Newest(InIter!UserKey(f))) = InIter!UserKey(f)
  BY EntriesAre, NewestIs
<1>4. \A j \in InIter!Shown : k = 0 \/ j < k => j <= g
  BY <1>1, <1>2
<1>5. k # 0 => t <= InIter!Newest(k) /\ ~(k <= g)
  BY <1>1, <1>2
<1>6. \A f \in Visible : InIter!Newest(InIter!UserKey(f)) < t => InIter!UserKey(f) <= g
  BY <1>3
<1> QED BY <1>1, <1>4, <1>5, <1>6 DEF Forth

LEMMA IterNextKeeps ==
  ASSUME IterInv, InIter!IterNext
  PROVE  Position(merged', dbIter', shown')
<1> DEFINE g == shown
           k == shown'
           key == InIter!Key(merged)
<1>1. /\ ChildrenRight /\ Stands(merged) /\ dbIter \in DBIter /\ g \in InIter!Shown \cup {0}
      /\ dbIter.pc = "rest" /\ dbIter.valid
      /\ k = InIter!First({j \in InIter!Shown : j > g})
      /\ IF dbIter.forward THEN RestForward(merged, g) ELSE RestBackward(merged, dbIter, g)
  BY DEF IterInv, Position, AtRest, InIter!IterNext, InIter!Resting
<1>2. g \in InIter!Shown /\ g \in InIter!UserKeys /\ g \in Int
  BY <1>1, ShownAre, IterConstants DEF RestForward, RestBackward
<1>3. \A f \in Visible : f \in Int /\ f \in InIter!All /\ InIter!UserKey(f) \in Int /\ ~(f < 1)
  BY <1>1, EntriesAre
<1>4. \A f \in InIter!All, e \in InIter!All : e < f => InIter!UserKey(e) <= InIter!UserKey(f)
  BY <1>1, EntriesAre
<1>5. CASE dbIter.forward
  <2>1. InIter!Valid(merged) /\ merged.forward /\ key = InIter!Newest(g)
    BY <1>1, <1>5 DEF RestForward
  <2>2. InIter!UserKey(key) = g /\ key \in Visible /\ key \in InIter!All /\ key \in Int
    BY <1>1, <1>2, <1>3, <2>1, ShownAre
  <2>3. InIter!ToNext(merged, g, TRUE)
    BY <1>5, <2>2 DEF InIter!IterNext
  <2>4. ReachedForward(merged, key)
    <3>1. AfterKey(merged)
      BY <1>1, <2>1 DEF Stands
    <3>2. \A f \in Visible : key <= f => InIter!Valid(merged) /\ key <= f
      BY <2>1
    <3>3. key <= key
      BY <2>2
    <3> QED BY <1>1, <2>1, <2>2, <3>2, <3>3 DEF ReachedForward
  <2>5. \A f \in Visible : key <= f => g <= InIter!UserKey(f)
    BY <1>2, <1>3, <1>4, <2>2
  <2>6. \A f \in Visible : f < key => InIter!UserKey(f) <= g
    BY <1>3, <1>4, <2>2
  <2> HIDE DEF key, k
  <2>7. k \in InIter!Shown \cup {0} /\ Forth(key, TRUE, g, k)
    BY <1>1, <1>2, <2>2, <2>5, <2>6, ForthFrom
  <2> QED BY <1>1, <1>2, <2>2, <2>3, <2>4, <2>7, Entered DEF k
<1>6. CASE ~dbIter.forward
  <2>1. /\ ~merged.forward /\ dbIter.saved = g
        /\ InIter!Valid(merged) => InIter!UserKey(key) < g
        /\ \A f \in Visible : Reach(merged) < f => g <= InIter!UserKey(f)
    BY <1>1, <1>6 DEF RestBackward
  <2>2. CASE InIter!Valid(merged)
    <3>1. key \in InIter!All /\ key \in Int /\ InIter!UserKey(key) \in Int
      BY <1>1, <2>2, KeyIsEntry, EntriesAre
    <3>2. InIter!ToNext(InIter!MergedNext, g, TRUE)
      BY <1>6, <2>1, <2>2 DEF InIter!IterNext
    <3>3. ReachedForward(InIter!MergedNext, key + 1)
      BY <1>1, <2>2, MergedNextIs
    <3>4. \A f \in Visible : key + 1 <= f => g <= InIter!UserKey(f)
      BY <1>3, <2>1, <2>2, <3>1 DEF Reach
    <3>5. \A f \in Visible : f < key + 1 => InIter!UserKey(f) <= g
      <4>1. \A f \in Visible : f < key + 1 => InIter!UserKey(f) <= InIter!UserKey(key)
        BY <1>3, <1>4, <3>1
      <4> QED BY <1>2, <1>3, <2>1, <2>2, <3>1, <4>1
    <3>6. key + 1 \in Int
      BY <3>1
    <3> HIDE DEF key, k
    <3>7. k \in InIter!Shown \cup {0} /\ Forth(key + 1, TRUE, g, k)
      BY <1>1, <1>2, <3>4, <3>5, <3>6, ForthFrom
    <3> QED BY <1>1, <1>2, <3>2, <3>3, <3>6, <3>7, Entered DEF k
  <2>3. CASE ~InIter!Valid(merged)
    <3>1. InIter!ToNext(InIter!MergedFirst, g, TRUE)
      BY <1>6, <2>1, <2>3 DEF InIter!IterNext
    <3>0. PICK t \in Int : t = 1
      OBVIOUS
    <3>2. ReachedForward(InIter!MergedFirst, t)
      BY <1>1, <3>0, MergedFirstIs
    <3>3. \A f \in Visible : t <= f => g <= InIter!UserKey(f)
      BY <1>3, <2>1, <2>3, <3>0 DEF Reach
    <3>4. \A f \in Visible : f < t => InIter!UserKey(f) <= g
      BY <1>3, <3>0
    <3> HIDE DEF k
    <3>5. k \in InIter!Shown \cup {0} /\ Forth(t, TRUE, g, k)
      BY <1>1, <1>2, <3>3, <3>4, ForthFrom
    <3> QED BY <1>1, <1>2, <3>1, <3>2, <3>5, Entered DEF k
  <2> QED BY <2>2, <2>3
<1> QED BY <1>5, <1>6

(* FindNextUserEntry at an entry: it is shown, or it is behind.            *)
LEMMA FindNextShows ==
  ASSUME ChildrenRight, NEW key \in Visible \ deletions,
         NEW skipping \in BOOLEAN, NEW saved \in Int, NEW k \in InIter!Shown \cup {0},
         Forth(key, skipping, saved, k), ~(skipping /\ InIter!UserKey(key) <= saved)
  PROVE  k # 0 /\ key = InIter!Newest(k)
<1> DEFINE u == InIter!UserKey(key)
<1>1. /\ key \in InIter!All /\ key \in Int /\ u \in Int /\ InIter!Newest(u) \in Visible
      /\ InIter!Newest(u) \in InIter!All /\ InIter!Newest(u) \in Int /\ InIter!Newest(u) <= key
  BY EntriesAre, NewestIs
<1>2. ~(InIter!Newest(u) < key)
  BY <1>1 DEF Forth
<1>3. InIter!Newest(u) = key
  BY <1>1, <1>2
<1>4. u \in InIter!Shown
  BY <1>3, ShownAre
<1> HIDE DEF u
<1>5. ~(k = 0 \/ u < k)
  BY <1>1, <1>3, <1>4 DEF Forth, u
<1>6. key <= InIter!Newest(k) /\ k \in InIter!Shown /\ k \in Int /\ InIter!Newest(k) \in InIter!All
      /\ InIter!UserKey(InIter!Newest(k)) = k /\ InIter!Newest(k) \in Int
  BY <1>5, ShownAre, EntriesAre DEF Forth
<1>7. ~(k < u)
  BY <1>1, <1>6, EntriesAre DEF u
<1>8. k = u
  BY <1>1, <1>5, <1>6, <1>7
<1> QED BY <1>3, <1>5, <1>8

LEMMA FindNextPasses ==
  ASSUME ChildrenRight, NEW key \in InIter!All,
         NEW skipping \in BOOLEAN, NEW saved \in Int, NEW k \in InIter!Shown \cup {0},
         Forth(key, skipping, saved, k),
         key \in Visible => key \notin deletions /\ skipping /\ InIter!UserKey(key) <= saved
  PROVE  Forth(key + 1, skipping, saved, k)
<1>1. key \in Int /\ \A f \in Visible : /\ f \in Int /\ InIter!Newest(InIter!UserKey(f)) \in Visible
                                        /\ InIter!Newest(InIter!UserKey(f)) \in Int
                                        /\ InIter!UserKey(InIter!Newest(InIter!UserKey(f))) = InIter!UserKey(f)
  BY EntriesAre, NewestIs
<1>2. \A j \in InIter!Shown : /\ InIter!Newest(j) \in Int /\ InIter!Newest(j) \in Visible
                              /\ InIter!UserKey(InIter!Newest(j)) = j
  BY ShownAre
<1>3. \A j \in InIter!Shown : InIter!Newest(j) < key => InIter!Newest(j) < key + 1
  BY <1>1, <1>2
<1>4. k # 0 => key + 1 <= InIter!Newest(k) /\ ~(skipping /\ k <= saved)
  <2> SUFFICES ASSUME k # 0 PROVE key + 1 <= InIter!Newest(k) /\ ~(skipping /\ k <= saved)
    OBVIOUS
  <2>1. key <= InIter!Newest(k) /\ ~(skipping /\ k <= saved)
    BY DEF Forth
  <2>2. key # InIter!Newest(k)
    BY <1>2, <2>1
  <2> QED BY <1>1, <1>2, <2>1, <2>2
<1>5. \A f \in Visible : key + 1 <= f => key <= f
  BY <1>1
<1>6. ASSUME NEW f \in Visible, key + 1 <= f, InIter!Newest(InIter!UserKey(f)) < key + 1
      PROVE  skipping /\ InIter!UserKey(f) <= saved
  <2>1. CASE InIter!Newest(InIter!UserKey(f)) = key
    BY <1>1, <2>1
  <2>2. CASE InIter!Newest(InIter!UserKey(f)) # key
    <3>1. InIter!Newest(InIter!UserKey(f)) < key
      BY <1>1, <1>6, <2>2
    <3> QED BY <1>5, <1>6, <3>1 DEF Forth
  <2> QED BY <2>1, <2>2
<1>7. \A j \in InIter!Shown : k = 0 \/ j < k => InIter!Newest(j) < key + 1 \/ (skipping /\ j <= saved)
  BY <1>3 DEF Forth
<1>8. skipping => \A f \in Visible : key + 1 <= f => saved <= InIter!UserKey(f)
  BY <1>5 DEF Forth
<1> QED BY <1>4, <1>6, <1>7, <1>8 DEF Forth

(* Behind a deletion its key is skipped.                                   *)
LEMMA FindNextSkips ==
  ASSUME ChildrenRight, NEW key \in Visible, key \in deletions,
         NEW skipping \in BOOLEAN, NEW saved \in Int, NEW k \in InIter!Shown \cup {0},
         Forth(key, skipping, saved, k)
  PROVE  Forth(key + 1, TRUE, InIter!UserKey(key), k)
<1> DEFINE u == InIter!UserKey(key)
<1>0. \A e \in InIter!All, f \in InIter!All : e < f => InIter!UserKey(e) <= InIter!UserKey(f)
  BY EntriesAre
<1>1. key \in InIter!All /\ key \in Int /\ u \in Int /\ InIter!Newest(u) \in Int /\ InIter!Newest(u) <= key
  BY EntriesAre, NewestIs
<1>2. \A f \in Visible : /\ f \in Int /\ f \in InIter!All /\ InIter!UserKey(f) \in Int
                         /\ InIter!Newest(InIter!UserKey(f)) \in InIter!All
                         /\ InIter!Newest(InIter!UserKey(f)) \in Int
                         /\ InIter!UserKey(InIter!Newest(InIter!UserKey(f))) = InIter!UserKey(f)
  BY EntriesAre, NewestIs
<1>3. \A j \in InIter!Shown : /\ InIter!Newest(j) \in Int /\ j \in Int /\ InIter!Newest(j) \in InIter!All
                              /\ InIter!UserKey(InIter!Newest(j)) = j /\ InIter!Newest(j) # key
  BY ShownAre, EntriesAre
<1> HIDE DEF u
<1>4. ASSUME NEW j \in InIter!Shown, k = 0 \/ j < k
      PROVE  InIter!Newest(j) < key + 1 \/ j <= u
  <2>1. InIter!Newest(j) < key \/ (skipping /\ j <= saved)
    BY <1>4 DEF Forth
  <2>2. CASE InIter!Newest(j) < key
    BY <1>1, <1>3, <2>2
  <2>3. CASE skipping /\ j <= saved
    <3>1. key <= key
      BY <1>1
    <3>2. saved <= u
      BY <2>3, <3>1 DEF Forth, u
    <3> QED BY <1>1, <1>3, <2>3, <3>2
  <2> QED BY <2>1, <2>2, <2>3
<1>5. k # 0 => key + 1 <= InIter!Newest(k) /\ ~(k <= u)
  <2> SUFFICES ASSUME k # 0 PROVE key + 1 <= InIter!Newest(k) /\ ~(k <= u)
    OBVIOUS
  <2>1. key < InIter!Newest(k) /\ k \in InIter!Shown
    BY <1>1, <1>3 DEF Forth
  <2>2. u <= k
    BY <1>0, <1>1, <1>3, <2>1 DEF u
  <2>3. k # u
    BY <1>1, <1>3, <2>1
  <2> QED BY <1>1, <1>3, <2>1, <2>2, <2>3
<1>6. \A f \in Visible : InIter!Newest(InIter!UserKey(f)) < key + 1 => InIter!UserKey(f) <= u
  <2> SUFFICES ASSUME NEW f \in Visible, InIter!Newest(InIter!UserKey(f)) < key + 1
               PROVE  InIter!UserKey(f) <= u
    OBVIOUS
  <2>1. InIter!Newest(InIter!UserKey(f)) < key \/ InIter!Newest(InIter!UserKey(f)) = key
    BY <1>1, <1>2
  <2>2. CASE InIter!Newest(InIter!UserKey(f)) < key
    BY <1>0, <1>1, <1>2, <2>2 DEF u
  <2>3. CASE InIter!Newest(InIter!UserKey(f)) = key
    <3>1. InIter!UserKey(f) = u
      BY <1>2, <2>3 DEF u
    <3> QED BY <1>1, <3>1
  <2> QED BY <2>1, <2>2, <2>3
<1>7. \A f \in Visible : key + 1 <= f => u <= InIter!UserKey(f)
  <2> SUFFICES ASSUME NEW f \in Visible, key + 1 <= f PROVE u <= InIter!UserKey(f)
    OBVIOUS
  <2>1. key < f
    BY <1>1, <1>2
  <2> QED BY <1>0, <1>1, <1>2, <2>1 DEF u
<1> QED BY <1>4, <1>5, <1>6, <1>7 DEF Forth, u

LEMMA FindNextKeeps ==
  ASSUME IterInv, InIter!FindNextUserEntry
  PROVE  Position(merged', dbIter', shown')
<1> DEFINE key == InIter!Key(merged)
           u == InIter!UserKey(key)
           k == shown
           skipping == dbIter.skipping
           saved == dbIter.saved
<1>1. /\ ChildrenRight /\ Stands(merged) /\ dbIter \in DBIter /\ k \in InIter!Shown \cup {0}
      /\ dbIter.pc = "next" /\ shown' = k
      /\ InIter!Valid(merged) /\ merged.forward /\ dbIter.forward
      /\ Forth(key, skipping, saved, k)
  BY DEF IterInv, Position, Forwards, InIter!FindNextUserEntry
<1>2. key \in InIter!All /\ key \in Int /\ u \in Int /\ u \in InIter!UserKeys
  BY <1>1, KeyIsEntry, EntriesAre
<1>3. InIter!Seq(key) <= sequence <=> key \in Visible
  BY <1>2 DEF Visible
<1>4. skipping \in BOOLEAN /\ saved \in InIter!UserKeys \cup {0} /\ saved \in Int
  BY <1>1, IterConstants DEF DBIter
<1>5. ReachedForward(InIter!MergedNext, key + 1) /\ key + 1 \in Int
  BY <1>1, <1>2, MergedNextIs
<1> DEFINE shows == key \in Visible /\ key \notin deletions /\ ~(skipping /\ u <= saved)
<1>6. CASE shows
  <2>1. /\ dbIter' = [dbIter EXCEPT !.pc = "rest", !.valid = TRUE, !.saved = 0]
        /\ merged' = merged
    BY <1>3, <1>6 DEF InIter!FindNextUserEntry, InIter!None
  <2>2. /\ dbIter' \in DBIter /\ dbIter'.pc = "rest" /\ dbIter'.valid = TRUE
        /\ dbIter'.forward = dbIter.forward
    BY <1>1, <2>1 DEF DBIter
  <2>3. key \in Visible \ deletions /\ ~(skipping /\ InIter!UserKey(key) <= saved)
    BY <1>6
  <2> HIDE DEF key, k, skipping, saved
  <2>4. k # 0 /\ key = InIter!Newest(k)
    BY <1>1, <1>4, <2>3, FindNextShows
  <2>5. RestForward(merged', shown')
    BY <1>1, <2>1, <2>4 DEF RestForward, key
  <2> QED BY <1>1, <2>1, <2>2, <2>5 DEF Position, AtRest, Forwards, Turns, Backwards, k
<1>7. CASE ~shows /\ key \in Visible /\ key \in deletions
  <2>1. InIter!ToNext(InIter!MergedNext, u, TRUE)
    BY <1>3, <1>7 DEF InIter!FindNextUserEntry
  <2> HIDE DEF k, skipping, saved
  <2>2. Forth(key + 1, TRUE, u, k)
    BY <1>1, <1>4, <1>7, FindNextSkips
  <2> HIDE DEF key, u
  <2> QED BY <1>1, <1>2, <1>5, <2>1, <2>2, Entered
<1>8. CASE ~shows /\ ~(key \in Visible /\ key \in deletions)
  <2>1. InIter!ToNext(InIter!MergedNext, saved, skipping)
    BY <1>3, <1>8 DEF InIter!FindNextUserEntry
  <2>2. key \in Visible => key \notin deletions /\ skipping /\ InIter!UserKey(key) <= saved
    BY <1>8
  <2> HIDE DEF key, k, skipping, saved
  <2>3. Forth(key + 1, skipping, saved, k)
    BY <1>1, <1>2, <1>4, <2>2, FindNextPasses
  <2> QED BY <1>1, <1>4, <1>5, <2>1, <2>3, Entered
<1> QED BY <1>6, <1>7, <1>8

-----------------------------------------------------------------------------
(* The way back.                                                           *)
LEMMA BackMoves ==
  ASSUME ChildrenRight, NEW t \in Nat, NEW m, ReachedBackward(m, t),
         NEW deleted \in BOOLEAN, NEW saved, NEW value, NEW k \in InIter!Shown \cup {0},
         Back(t, deleted, saved, value, k)
  PROVE  Back(Reach(m), deleted, saved, value, k)
<1> DEFINE r == Reach(m)
<1>1. \A f \in Visible : f \in Int /\ ~(f <= 0)
  BY EntriesAre
<1>2. r \in Int /\ r <= t /\ \A f \in Visible : f <= t <=> f <= r
  <2>1. CASE InIter!Valid(m)
    <3>1. r = InIter!Key(m) /\ r \in InIter!All /\ r \in Int /\ r <= t
      BY <2>1, EntriesAre DEF ReachedBackward, Reach
    <3>2. \A f \in Visible : f <= t => f <= r
      BY <3>1 DEF ReachedBackward
    <3> HIDE DEF r
    <3> QED BY <1>1, <3>1, <3>2
  <2>2. CASE ~InIter!Valid(m)
    <3>1. r = 0
      BY <2>2 DEF Reach
    <3>2. \A f \in Visible : ~(f <= t)
      BY <2>2 DEF ReachedBackward
    <3> QED BY <1>1, <3>1, <3>2
  <2> QED BY <2>1, <2>2
<1>3. \A j \in InIter!Shown : InIter!Newest(j) \in Visible
  BY ShownAre
<1> HIDE DEF r
<1>4. k # 0 => InIter!Newest(k) <= r \/ (~deleted /\ saved = k /\ value = InIter!Newest(k))
  BY <1>2, <1>3 DEF Back
<1>5. \A j \in InIter!Shown : InIter!Newest(j) <= r \/ (~deleted /\ saved = j) => k # 0 /\ j <= k
  BY <1>2, <1>3 DEF Back
<1>6. ASSUME ~deleted
      PROVE  /\ saved # 0 /\ value \in Visible \ deletions
             /\ InIter!UserKey(value) = saved /\ r < value
             /\ \A f \in Visible : f < value => f <= r
  <2>1. /\ saved # 0 /\ value \in Visible \ deletions
        /\ InIter!UserKey(value) = saved /\ t < value
        /\ \A f \in Visible : f < value => f <= t
    BY <1>6 DEF Back
  <2>2. r < value
    BY <1>1, <1>2, <2>1
  <2> QED BY <1>2, <2>1, <2>2
<1> QED BY <1>4, <1>5, <1>6 DEF Back, r

(* FindPrevUserEntry is entered, or goes on.                               *)
LEMMA BackEntered ==
  ASSUME ChildrenRight, NEW m, Stands(m), ~m.forward, NEW i, i \in DBIter, i.pc = "prev",
         ~i.forward, NEW k \in InIter!Shown \cup {0},
         Back(Reach(m), i.deleted, i.saved, i.value, k)
  PROVE  Position(m, i, k)
BY DEF Position, AtRest, Forwards, Turns, Backwards

LEMMA SeekToLastKeeps ==
  ASSUME IterInv, InIter!SeekToLast
  PROVE  Position(merged', dbIter', shown')
<1>1. ChildrenRight /\ Stands(merged) /\ dbIter \in DBIter
  BY DEF IterInv, Position
<1> DEFINE k == InIter!Last(InIter!Shown)
           m == InIter!MergedLast
<1>2. k \in InIter!Shown \cup {0} /\ k \in Int /\ \A j \in InIter!Shown : k # 0 /\ j <= k
  BY <1>1, LastShown
<1>3. /\ shown' = k /\ merged' = m
      /\ dbIter' = [dbIter EXCEPT !.pc = "prev", !.forward = FALSE, !.deleted = TRUE]
  BY DEF InIter!SeekToLast
<1> HIDE DEF k, m
<1>4. ReachedBackward(m, Bound) /\ Bound \in Nat
  BY <1>1, MergedLastIs, EntriesAre DEF m
<1>5. /\ dbIter' \in DBIter /\ dbIter'.pc = "prev" /\ dbIter'.forward = FALSE
      /\ dbIter'.deleted = TRUE
  BY <1>1, <1>3 DEF DBIter
<1>6. Back(Bound, TRUE, dbIter'.saved, dbIter'.value, k)
  <2>1. \A j \in InIter!Shown : InIter!Newest(j) <= Bound
    BY <1>1, <1>4, ShownAre
  <2> QED BY <1>2, <2>1 DEF Back
<1>7. Back(Reach(m), TRUE, dbIter'.saved, dbIter'.value, k)
  BY <1>1, <1>2, <1>4, <1>6, BackMoves
<1>8. Stands(m) /\ ~m.forward
  BY <1>4 DEF ReachedBackward
<1> QED BY <1>1, <1>2, <1>3, <1>5, <1>7, <1>8, BackEntered

LEMMA IterPrevKeeps ==
  ASSUME IterInv, InIter!IterPrev
  PROVE  Position(merged', dbIter', shown')
<1> DEFINE g == shown
           S == {j \in InIter!Shown : j < g}
           k == shown'
           key == InIter!Key(merged)
<1>1. /\ ChildrenRight /\ Stands(merged) /\ dbIter \in DBIter /\ g \in InIter!Shown \cup {0}
      /\ dbIter.pc = "rest" /\ dbIter.valid /\ k = InIter!Last(S) /\ merged' = merged
      /\ IF dbIter.forward THEN RestForward(merged, g) ELSE RestBackward(merged, dbIter, g)
  BY DEF IterInv, Position, AtRest, InIter!IterPrev, InIter!Resting
<1>2. k \in S \cup {0} /\ k \in Int /\ \A j \in S : k # 0 /\ j <= k
  BY <1>1, LastShown
<1>3. g \in InIter!Shown /\ g \in InIter!UserKeys /\ g \in Int
  BY <1>1, ShownAre, IterConstants DEF RestForward, RestBackward
<1>4. CASE dbIter.forward
  <2>1. InIter!Valid(merged) /\ InIter!UserKey(key) = g
    BY <1>1, <1>3, <1>4, ShownAre DEF RestForward
  <2>2. dbIter' = [dbIter EXCEPT !.pc = "turn", !.saved = g]
    BY <1>4, <2>1 DEF InIter!IterPrev
  <2>3. dbIter' \in DBIter /\ dbIter'.pc = "turn" /\ dbIter'.saved = g
    BY <1>1, <1>3, <2>2 DEF DBIter
  <2>4. g # 0 /\ g <= InIter!UserKey(key)
    BY <1>3, <2>1, IterConstants
  <2>5. Turns(merged', dbIter', k)
    BY <1>1, <2>1, <2>3, <2>4 DEF Turns
  <2> QED BY <1>1, <1>2, <2>3, <2>5 DEF Position, AtRest, Forwards, Backwards
<1>5. CASE ~dbIter.forward
  <2>1. /\ InIter!Valid(merged) => InIter!UserKey(key) < g
        /\ \A f \in Visible : Reach(merged) < f => g <= InIter!UserKey(f)
    BY <1>1, <1>5 DEF RestBackward
  <2>0. ~merged.forward
    BY <1>1, <1>5 DEF RestBackward
  <2>2. dbIter' = [dbIter EXCEPT !.pc = "prev", !.deleted = TRUE]
    BY <1>5 DEF InIter!IterPrev
  <2>3. /\ dbIter' \in DBIter /\ dbIter'.pc = "prev" /\ ~dbIter'.forward
        /\ dbIter'.deleted = TRUE
    BY <1>1, <1>5, <2>2 DEF DBIter
  <2> DEFINE r == Reach(merged)
  <2>4. \A f \in Visible : f \in Int /\ f \in InIter!All /\ ~(f <= 0) /\ InIter!UserKey(f) \in Int
    BY <1>1, EntriesAre
  <2>5. r \in Int /\ \A f \in Visible : f <= r => InIter!UserKey(f) < g
    <3>1. CASE InIter!Valid(merged)
      <4>1. r = key /\ key \in InIter!All /\ key \in Int /\ InIter!UserKey(key) \in Int
        BY <1>1, <3>1, KeyIsEntry, EntriesAre DEF Reach
      <4>2. \A f \in Visible : f <= key => InIter!UserKey(f) <= InIter!UserKey(key)
        BY <1>1, <2>4, <4>1, EntriesAre
      <4>3. InIter!UserKey(key) < g
        BY <2>1, <3>1
      <4> QED BY <1>3, <2>4, <4>1, <4>2, <4>3
    <3>2. CASE ~InIter!Valid(merged)
      <4>1. r = 0
        BY <3>2 DEF Reach
      <4> QED BY <2>4, <4>1
    <3> QED BY <3>1, <3>2
  <2>6. \A j \in InIter!Shown : /\ j \in Int /\ InIter!Newest(j) \in Visible /\ InIter!Newest(j) \in Int
                                /\ InIter!UserKey(InIter!Newest(j)) = j
    BY <1>1, ShownAre
  <2>7. Back(r, TRUE, dbIter'.saved, dbIter'.value, k)
    <3>1. k # 0 => InIter!Newest(k) <= r
      <4> SUFFICES ASSUME k # 0 PROVE InIter!Newest(k) <= r
        OBVIOUS
      <4>1. k \in InIter!Shown /\ k < g
        BY <1>2
      <4>2. ~(r < InIter!Newest(k))
        BY <1>3, <2>1, <2>6, <4>1
      <4> HIDE DEF r
      <4> QED BY <2>5, <2>6, <4>1, <4>2
    <3>2. ASSUME NEW j \in InIter!Shown, InIter!Newest(j) <= r PROVE k # 0 /\ j <= k
      <4>1. j < g
        BY <2>5, <2>6, <3>2
      <4> QED BY <1>2, <4>1
    <3> HIDE DEF r
    <3> QED BY <3>1, <3>2 DEF Back
  <2> QED BY <1>1, <1>2, <2>0, <2>3, <2>7, BackEntered
<1> QED BY <1>4, <1>5

LEMMA ScanBackwardsKeeps ==
  ASSUME IterInv, InIter!ScanBackwards
  PROVE  Position(merged', dbIter', shown')
<1> DEFINE m == InIter!MergedPrev
           key == InIter!Key(merged)
           s == dbIter.saved
           S == {j \in InIter!Shown : j < s}
           k == shown
<1>1. /\ ChildrenRight /\ Stands(merged) /\ dbIter \in DBIter /\ k \in InIter!Shown \cup {0}
      /\ dbIter.pc = "turn" /\ merged' = m /\ shown' = k
      /\ InIter!Valid(merged) /\ s # 0 /\ s <= InIter!UserKey(key) /\ k = InIter!Last(S)
  BY DEF IterInv, Position, Turns, InIter!ScanBackwards
<1>2. k \in S \cup {0} /\ k \in Int /\ \A j \in S : k # 0 /\ j <= k
  BY <1>1, LastShown
<1>3. key \in InIter!All /\ key \in Int /\ InIter!UserKey(key) \in Int
  BY <1>1, KeyIsEntry, EntriesAre
<1>4. ReachedBackward(m, key - 1)
  BY <1>1, MergedPrevIs
<1>5. s \in Int /\ s \in InIter!UserKeys \cup {0}
  BY <1>1, IterConstants DEF DBIter
<1>6a. Stands(m) /\ ~m.forward
  BY <1>4 DEF ReachedBackward
<1>6b. InIter!Valid(m) => InIter!Key(m) \in InIter!All /\ InIter!Key(m) \in Int /\ InIter!UserKey(InIter!Key(m)) \in Int
  BY <1>1, <1>4, EntriesAre DEF ReachedBackward
<1>6c. \A f \in Visible : f <= key - 1 => InIter!Valid(m) /\ f <= InIter!Key(m)
  BY <1>4 DEF ReachedBackward
<1>7. \A j \in InIter!Shown : /\ j \in Int /\ InIter!Newest(j) \in Visible /\ InIter!Newest(j) \in Int
                              /\ InIter!UserKey(InIter!Newest(j)) = j /\ InIter!Newest(j) \in InIter!All
  BY <1>1, ShownAre, EntriesAre
<1>8. k # 0 => InIter!Valid(m) /\ InIter!Newest(k) <= InIter!Key(m)
  <2> SUFFICES ASSUME k # 0 PROVE InIter!Valid(m) /\ InIter!Newest(k) <= InIter!Key(m)
    OBVIOUS
  <2>1. k \in InIter!Shown /\ k < s
    BY <1>2
  <2>2. k < InIter!UserKey(key)
    BY <1>1, <1>2, <1>3, <1>5, <2>1
  <2>3. InIter!Newest(k) < key
    BY <1>1, <1>3, <1>7, <2>1, <2>2, EntriesAre
  <2>4. InIter!Newest(k) <= key - 1
    BY <1>3, <1>7, <2>1, <2>3
  <2> QED BY <1>6c, <1>7, <2>1, <2>4
<1>9. CASE ~InIter!Valid(m)
  <2>1. dbIter' = [dbIter EXCEPT !.pc = "rest", !.valid = FALSE, !.saved = 0]
    BY <1>9 DEF InIter!ScanBackwards, InIter!None
  <2>2. dbIter' \in DBIter /\ dbIter'.pc = "rest" /\ dbIter'.valid = FALSE
    BY <1>1, <2>1 DEF DBIter
  <2>3. k = 0
    BY <1>8, <1>9
  <2> QED BY <1>1, <1>6a, <2>2, <2>3 DEF Position, AtRest, Forwards, Turns, Backwards
<1>10. CASE InIter!Valid(m) /\ InIter!UserKey(InIter!Key(m)) < s
  <2>1. dbIter' = [dbIter EXCEPT !.pc = "prev", !.forward = FALSE, !.deleted = TRUE]
    BY <1>10 DEF InIter!ScanBackwards
  <2>2. /\ dbIter' \in DBIter /\ dbIter'.pc = "prev" /\ ~dbIter'.forward
        /\ dbIter'.deleted = TRUE
    BY <1>1, <2>1 DEF DBIter
  <2>3. Reach(m) = InIter!Key(m)
    BY <1>10 DEF Reach
  <2> DEFINE r == InIter!Key(m)
  <2>4. \A e \in InIter!All : e <= r => InIter!UserKey(e) <= InIter!UserKey(r)
    BY <1>1, <1>6b, <1>10, EntriesAre
  <2>5. ASSUME NEW j \in InIter!Shown, InIter!Newest(j) <= r
        PROVE  k # 0 /\ j <= k
    <3>1. j <= InIter!UserKey(r)
      BY <1>7, <2>4, <2>5
    <3>2. j < s
      BY <1>5, <1>6b, <1>7, <1>10, <3>1
    <3> QED BY <1>2, <3>2
  <2>6. Back(r, TRUE, dbIter'.saved, dbIter'.value, k)
    BY <1>8, <2>5 DEF Back
  <2> QED BY <1>1, <1>6a, <2>2, <2>3, <2>6, BackEntered
<1>11. CASE InIter!Valid(m) /\ ~(InIter!UserKey(InIter!Key(m)) < s)
  <2>1. dbIter' = dbIter
    BY <1>11 DEF InIter!ScanBackwards
  <2>2. s <= InIter!UserKey(InIter!Key(m))
    BY <1>5, <1>6b, <1>11
  <2>3. Turns(m, dbIter, k)
    BY <1>1, <1>11, <2>2 DEF Turns
  <2> QED BY <1>1, <1>6a, <2>1, <2>3 DEF Position, AtRest, Forwards, Backwards
<1> QED BY <1>9, <1>10, <1>11

(* FindPrevUserEntry: another key's entry comes, or the entries end.       *)
LEMMA BackStops ==
  ASSUME ChildrenRight, NEW t \in Int, NEW saved, NEW value, NEW k \in InIter!Shown \cup {0},
         Back(t, FALSE, saved, value, k),
         \A f \in Visible : f <= t => InIter!UserKey(f) < saved
  PROVE  /\ k # 0 /\ saved = k /\ value = InIter!Newest(k)
         /\ \A f \in Visible : t < f => k <= InIter!UserKey(f)
<1>1. /\ value \in Visible \ deletions /\ InIter!UserKey(value) = saved /\ t < value
      /\ \A f \in Visible : f < value => f <= t
  BY DEF Back
<1>2. \A f \in Visible : /\ f \in Int /\ f \in InIter!All /\ InIter!UserKey(f) \in Int
                         /\ InIter!Newest(InIter!UserKey(f)) \in Visible
                         /\ InIter!Newest(InIter!UserKey(f)) <= f
                         /\ InIter!UserKey(InIter!Newest(InIter!UserKey(f))) = InIter!UserKey(f)
  BY EntriesAre, NewestIs
<1>3. saved \in Int /\ value \in Int
  BY <1>1, <1>2
<1>4. InIter!Newest(saved) = value
  <2>1. InIter!Newest(saved) \in Visible /\ InIter!Newest(saved) <= value
        /\ InIter!UserKey(InIter!Newest(saved)) = saved
    BY <1>1, <1>2
  <2>2. ~(InIter!Newest(saved) < value)
    <3> SUFFICES ASSUME InIter!Newest(saved) < value PROVE FALSE
      OBVIOUS
    <3>1. InIter!Newest(saved) <= t
      BY <1>1, <2>1
    <3> QED BY <1>3, <2>1, <3>1
  <2> QED BY <1>2, <1>3, <2>1, <2>2
<1>5. saved \in InIter!Shown
  BY <1>1, <1>4, ShownAre
<1>6. k # 0 /\ saved <= k /\ k \in InIter!Shown /\ k \in Int
  BY <1>5, ShownAre DEF Back
<1>7. ~(InIter!Newest(k) <= t)
  <2> SUFFICES ASSUME InIter!Newest(k) <= t PROVE FALSE
    OBVIOUS
  <2>1. InIter!Newest(k) \in Visible /\ InIter!UserKey(InIter!Newest(k)) = k
    BY <1>6, ShownAre
  <2> QED BY <1>3, <1>6, <2>1
<1>8. saved = k /\ value = InIter!Newest(k)
  BY <1>6, <1>7 DEF Back
<1>9. ASSUME NEW f \in Visible, t < f PROVE k <= InIter!UserKey(f)
  <2>1. ~(f < value)
    BY <1>1, <1>2, <1>9
  <2>2. f = value \/ value < f
    BY <1>2, <1>3, <2>1
  <2>3. InIter!UserKey(value) <= InIter!UserKey(f)
    BY <1>1, <1>2, <1>3, <2>2, EntriesAre
  <2> QED BY <1>1, <1>8, <2>3
<1> QED BY <1>6, <1>8, <1>9

LEMMA BackPasses ==
  ASSUME ChildrenRight, NEW key \in InIter!All, key \notin Visible,
         NEW deleted \in BOOLEAN, NEW saved, NEW value, NEW k \in InIter!Shown \cup {0},
         Back(key, deleted, saved, value, k)
  PROVE  Back(key - 1, deleted, saved, value, k)
<1>1. key \in Int /\ \A f \in Visible : f \in Int /\ (f <= key <=> f <= key - 1)
  <2>1. key \in Int /\ \A f \in Visible : f \in Int
    BY EntriesAre
  <2> SUFFICES ASSUME NEW f \in Visible PROVE f <= key <=> f <= key - 1
    BY <2>1
  <2>2. f # key
    OBVIOUS
  <2> QED BY <2>1, <2>2
<1>2. \A j \in InIter!Shown : InIter!Newest(j) \in Visible
  BY ShownAre
<1>3. k # 0 => InIter!Newest(k) <= key - 1 \/ (~deleted /\ saved = k /\ value = InIter!Newest(k))
  BY <1>1, <1>2 DEF Back
<1>4. \A j \in InIter!Shown :
        InIter!Newest(j) <= key - 1 \/ (~deleted /\ saved = j) => k # 0 /\ j <= k
  BY <1>1, <1>2 DEF Back
<1>5. ~deleted => /\ saved # 0 /\ value \in Visible \ deletions
                  /\ InIter!UserKey(value) = saved /\ key - 1 < value
                  /\ \A f \in Visible : f < value => f <= key - 1
  <2> SUFFICES ASSUME ~deleted
               PROVE  /\ saved # 0 /\ value \in Visible \ deletions
                      /\ InIter!UserKey(value) = saved /\ key - 1 < value
                      /\ \A f \in Visible : f < value => f <= key - 1
    OBVIOUS
  <2>1. /\ saved # 0 /\ value \in Visible \ deletions
        /\ InIter!UserKey(value) = saved /\ key < value
        /\ \A f \in Visible : f < value => f <= key
    BY DEF Back
  <2> QED BY <1>1, <2>1
<1> QED BY <1>3, <1>4, <1>5 DEF Back

(* An entry of the saved key, or of any when none is saved, takes its      *)
(* place: the key to show is that one or ahead.                            *)
LEMMA StillAhead ==
  ASSUME ChildrenRight, NEW key \in Visible, NEW deleted \in BOOLEAN, NEW saved, NEW value,
         NEW k \in InIter!Shown, Back(key, deleted, saved, value, k), k # 0,
         deleted \/ ~(InIter!UserKey(key) < saved)
  PROVE  InIter!Newest(k) <= key
<1> SUFFICES ASSUME ~deleted, saved = k, value = InIter!Newest(k) PROVE FALSE
  BY DEF Back
<1>1. value \in Visible /\ InIter!UserKey(value) = k /\ key < value
  BY DEF Back
<1>2. key \in Int /\ value \in Int /\ InIter!UserKey(key) \in Int /\ k \in Int
      /\ InIter!UserKey(key) <= k
  BY <1>1, EntriesAre
<1>3. InIter!UserKey(key) = k
  BY <1>2
<1>4. InIter!Newest(k) <= key
  BY <1>3, NewestIs
<1> QED BY <1>1, <1>2, <1>4

LEMMA BackDrops ==
  ASSUME ChildrenRight, NEW key \in Visible, key \in deletions,
         NEW deleted \in BOOLEAN, NEW saved, NEW value, NEW k \in InIter!Shown \cup {0},
         Back(key, deleted, saved, value, k), deleted \/ ~(InIter!UserKey(key) < saved),
         NEW other, NEW none
  PROVE  Back(key - 1, TRUE, other, none, k)
<1>1. key \in Int
  BY EntriesAre
<1>2. \A j \in InIter!Shown : InIter!Newest(j) \in Int /\ InIter!Newest(j) # key
  BY ShownAre
<1>3. k # 0 => InIter!Newest(k) <= key
  BY StillAhead
<1>4. k # 0 => InIter!Newest(k) <= key - 1
  BY <1>1, <1>2, <1>3
<1>5. \A j \in InIter!Shown : InIter!Newest(j) <= key - 1 => InIter!Newest(j) <= key
  BY <1>1, <1>2
<1>6. \A j \in InIter!Shown : InIter!Newest(j) <= key - 1 => k # 0 /\ j <= k
  BY <1>5 DEF Back
<1> QED BY <1>4, <1>6 DEF Back

LEMMA BackSaves ==
  ASSUME ChildrenRight, NEW key \in Visible \ deletions,
         NEW deleted \in BOOLEAN, NEW saved, NEW value, NEW k \in InIter!Shown \cup {0},
         Back(key, deleted, saved, value, k), deleted \/ ~(InIter!UserKey(key) < saved)
  PROVE  Back(key - 1, FALSE, InIter!UserKey(key), key, k)
<1> DEFINE u == InIter!UserKey(key)
<1>1. key \in Int /\ \A f \in Visible : f \in Int
  BY EntriesAre
<1>2. \A j \in InIter!Shown : InIter!Newest(j) \in Int /\ InIter!UserKey(InIter!Newest(j)) = j
  BY ShownAre
<1>3. k # 0 => InIter!Newest(k) <= key
  BY StillAhead
<1>4. k # 0 => InIter!Newest(k) <= key - 1 \/ (u = k /\ key = InIter!Newest(k))
  <2> SUFFICES ASSUME k # 0, ~(InIter!Newest(k) <= key - 1) PROVE u = k /\ key = InIter!Newest(k)
    OBVIOUS
  <2>1. InIter!Newest(k) = key
    BY <1>1, <1>2, <1>3
  <2> QED BY <1>2, <2>1
<1>5. \A j \in InIter!Shown : InIter!Newest(j) <= key - 1 \/ u = j => InIter!Newest(j) <= key
  <2> SUFFICES ASSUME NEW j \in InIter!Shown, InIter!Newest(j) <= key - 1 \/ u = j
               PROVE  InIter!Newest(j) <= key
    OBVIOUS
  <2>1. u = j => InIter!Newest(j) <= key
    BY NewestIs
  <2> HIDE DEF u
  <2> QED BY <1>1, <1>2, <2>1
<1>6. \A j \in InIter!Shown : InIter!Newest(j) <= key - 1 \/ u = j => k # 0 /\ j <= k
  BY <1>5 DEF Back
<1>7. u # 0 /\ key - 1 < key /\ \A f \in Visible : f < key => f <= key - 1
  <2>1. u \in 1 .. LastIterKey
    BY EntriesAre
  <2> QED BY <1>1, <2>1
<1> HIDE DEF u
<1>8. InIter!UserKey(key) = u
  BY DEF u
<1> QED BY <1>4, <1>6, <1>7, <1>8 DEF Back

LEMMA FindPrevKeeps ==
  ASSUME IterInv, InIter!FindPrevUserEntry
  PROVE  Position(merged', dbIter', shown')
<1> DEFINE key == InIter!Key(merged)
           u == InIter!UserKey(key)
           m == InIter!MergedPrev
           k == shown
           deleted == dbIter.deleted
           saved == dbIter.saved
           value == dbIter.value
           seen == InIter!Valid(merged) /\ InIter!Seq(key) <= sequence
           stops == ~InIter!Valid(merged) \/ (seen /\ ~deleted /\ u < saved)
           t == Reach(merged)
<1>1. /\ ChildrenRight /\ Stands(merged) /\ dbIter \in DBIter /\ k \in InIter!Shown \cup {0}
      /\ dbIter.pc = "prev" /\ shown' = k
      /\ ~merged.forward /\ ~dbIter.forward
      /\ Back(t, deleted, saved, value, k)
  BY DEF IterInv, Position, Backwards, InIter!FindPrevUserEntry
<1>2. deleted \in BOOLEAN /\ saved \in InIter!UserKeys \cup {0} /\ saved \in Int
  BY <1>1, IterConstants DEF DBIter
<1>3. \A f \in Visible : f \in Int /\ f \in InIter!All /\ ~(f <= 0) /\ InIter!UserKey(f) \in Int
  BY <1>1, EntriesAre
<1>4. InIter!Valid(merged) => key \in InIter!All /\ key \in Int /\ u \in Int /\ u \in InIter!UserKeys /\ t = key
  BY <1>1, KeyIsEntry, EntriesAre DEF Reach
<1>5. ~InIter!Valid(merged) => t = 0
  BY DEF Reach
<1>6. InIter!Valid(merged) => (seen <=> key \in Visible)
  BY <1>4 DEF Visible
<1>7. CASE stops
  <2>1. /\ merged' = merged
        /\ dbIter' = [dbIter EXCEPT !.pc = "rest", !.valid = ~deleted, !.forward = deleted,
                                    !.saved = IF deleted THEN 0 ELSE @]
    BY <1>7 DEF InIter!FindPrevUserEntry, InIter!None
  <2>2. /\ dbIter' \in DBIter /\ dbIter'.pc = "rest" /\ dbIter'.valid = ~deleted
        /\ dbIter'.forward = deleted /\ dbIter'.value = value
        /\ ~deleted => dbIter'.saved = saved
    BY <1>1, <2>1 DEF DBIter
  <2>3. CASE deleted
    <3>1. k = 0
      <4> SUFFICES ASSUME k # 0 PROVE FALSE
        OBVIOUS
      <4>1. ~InIter!Valid(merged)
        BY <1>7, <2>3
      <4>2. InIter!Newest(k) <= 0 /\ InIter!Newest(k) \in Visible
        BY <1>1, <1>5, <2>3, <4>1, ShownAre DEF Back
      <4> QED BY <1>3, <4>2
    <3> QED BY <1>1, <2>1, <2>2, <2>3, <3>1 DEF Position, AtRest, Forwards, Turns,
         Backwards
  <2>4. CASE ~deleted
    <3>1. t \in Int
      BY <1>4, <1>5
    <3>2. \A f \in Visible : f <= t => InIter!UserKey(f) < saved
      <4>1. CASE ~InIter!Valid(merged)
        BY <1>3, <1>5, <4>1
      <4>2. CASE InIter!Valid(merged)
        <5>1. u < saved /\ t = key /\ key \in InIter!All /\ key \in Int /\ u \in Int
          BY <1>4, <1>7, <4>2
        <5>2. \A f \in Visible : f <= key => InIter!UserKey(f) <= u
          BY <1>1, <1>3, <5>1, EntriesAre
        <5> HIDE DEF key, u, saved, t
        <5> QED BY <1>2, <1>3, <5>1, <5>2
      <4> QED BY <4>1, <4>2
    <3>3. Back(t, FALSE, saved, value, k)
      <4>1. deleted = FALSE
        BY <1>2, <2>4
      <4> QED BY <1>1, <4>1
    <3>4. InIter!Valid(merged) => InIter!UserKey(key) < k
      <4> SUFFICES ASSUME InIter!Valid(merged) PROVE InIter!UserKey(key) < k
        OBVIOUS
      <4>1. u < saved
        BY <1>7
      <4>2. saved = k
        BY <1>1, <3>1, <3>2, <3>3, BackStops
      <4> QED BY <4>1, <4>2
    <3> HIDE DEF t
    <3>5. /\ k # 0 /\ saved = k /\ value = InIter!Newest(k)
          /\ \A f \in Visible : t < f => k <= InIter!UserKey(f)
      BY <1>1, <3>1, <3>2, <3>3, BackStops
    <3>6. RestBackward(merged', dbIter', k)
      BY <1>1, <2>1, <2>2, <2>4, <3>4, <3>5 DEF RestBackward, t
    <3> QED BY <1>1, <2>1, <2>2, <2>4, <3>6 DEF Position, AtRest, Forwards, Turns,
         Backwards
  <2> QED BY <2>3, <2>4
<1>8. CASE ~stops
  <2>1. InIter!Valid(merged) /\ merged' = m /\ t = key /\ key \in InIter!All /\ key \in Int
        /\ (seen <=> key \in Visible) /\ u \in InIter!UserKeys
    BY <1>4, <1>6, <1>8 DEF InIter!FindPrevUserEntry
  <2>2. ReachedBackward(m, key - 1) /\ key - 1 \in Nat
    BY <1>1, <2>1, MergedPrevIs, EntriesAre
  <2>3. Stands(m) /\ ~m.forward
    BY <2>2 DEF ReachedBackward
  <2>4. Back(key, deleted, saved, value, k)
    BY <1>1, <2>1
  <2>5. CASE key \notin Visible
    <3>1. dbIter' = dbIter
      BY <1>8, <2>1, <2>5 DEF InIter!FindPrevUserEntry
    <3>2. Back(key - 1, deleted, saved, value, k)
      BY <1>1, <1>2, <2>1, <2>4, <2>5, BackPasses
    <3>3. Back(Reach(m), deleted, saved, value, k)
      BY <1>1, <1>2, <2>2, <3>2, BackMoves
    <3> QED BY <1>1, <2>1, <2>3, <3>1, <3>3, BackEntered
  <2>6. CASE key \in Visible /\ key \in deletions
    <3>1. dbIter' = [dbIter EXCEPT !.deleted = TRUE, !.saved = 0, !.value = 0]
      BY <1>8, <2>1, <2>6 DEF InIter!FindPrevUserEntry, InIter!None
    <3>0. PICK none \in InIter!UserKeys \cup {0} : none = 0 /\ none \in Int
      OBVIOUS
    <3>a. dbIter' = [dbIter EXCEPT !.deleted = TRUE, !.saved = none, !.value = none]
      BY <3>0, <3>1
    <3>2. /\ dbIter' \in DBIter /\ dbIter'.pc = "prev" /\ ~dbIter'.forward
          /\ dbIter'.deleted = TRUE /\ dbIter'.saved = 0 /\ dbIter'.value = 0
      BY <1>1, <3>0, <3>a DEF DBIter
    <3>3. deleted \/ ~(u < saved)
      BY <1>8, <2>1, <2>6
    <3>4. Back(key - 1, TRUE, 0, 0, k)
      BY <1>1, <1>2, <2>4, <2>6, <3>3, BackDrops
    <3>5. Back(Reach(m), TRUE, 0, 0, k)
      BY <1>1, <2>2, <3>4, BackMoves
    <3> QED BY <1>1, <2>1, <2>3, <3>2, <3>5, BackEntered
  <2>7. CASE key \in Visible /\ key \notin deletions
    <3>a. (key \in deletions) = FALSE
      BY <2>7
    <3>b. dbIter' = [dbIter EXCEPT !.deleted = key \in deletions,
                       !.saved = IF key \in deletions THEN 0 ELSE u,
                       !.value = IF key \in deletions THEN 0 ELSE key]
      BY <1>8, <2>1, <2>7 DEF InIter!FindPrevUserEntry, InIter!None
    <3>1. dbIter' = [dbIter EXCEPT !.deleted = FALSE, !.saved = u, !.value = key]
      BY <3>a, <3>b
    <3>2. /\ dbIter' \in DBIter /\ dbIter'.pc = "prev" /\ ~dbIter'.forward
          /\ dbIter'.deleted = FALSE /\ dbIter'.saved = u /\ dbIter'.value = key
      BY <1>1, <2>1, <3>1 DEF DBIter
    <3>3. deleted \/ ~(u < saved)
      BY <1>8, <2>1, <2>7
    <3>4. Back(key - 1, FALSE, u, key, k)
      BY <1>1, <1>2, <2>4, <2>7, <3>3, BackSaves
    <3>5. Back(Reach(m), FALSE, u, key, k)
      BY <1>1, <2>2, <3>4, BackMoves
    <3> QED BY <1>1, <2>1, <2>3, <3>2, <3>5, BackEntered
  <2> QED BY <2>5, <2>6, <2>7
<1> QED BY <1>7, <1>8

-----------------------------------------------------------------------------
(* What can be seen, and what is to be shown, stays the same.              *)
SeesTheSame ==
  /\ Visible' = Visible /\ deletions' = deletions /\ InIter!Shown' = InIter!Shown
  /\ \A k : (InIter!Newest(k))' = InIter!Newest(k)
  /\ \A c \in InIter!Child : /\ children[c] \subseteq children'[c]
                             /\ children'[c] \cap Visible = children[c] \cap Visible

LEMMA StandsStill ==
  ASSUME SeesTheSame, Stands(merged')
  PROVE  Stands(merged)'
<1>1. Children(merged)'
  BY DEF Stands, Children, SeesTheSame, InIter!Child
<1>2. AfterKey(merged') => AfterKey(merged)'
  BY DEF AfterKey, SeesTheSame, InIter!Child, InIter!Key
<1>3. BeforeKey(merged') => BeforeKey(merged)'
  BY DEF BeforeKey, SeesTheSame, InIter!Child, InIter!Key
<1> QED BY <1>1, <1>2, <1>3 DEF Stands, Merged, InIter!Child, InIter!Key, InIter!Valid

LEMMA PositionKept ==
  ASSUME SeesTheSame, Position(merged', dbIter', shown')
  PROVE  Position(merged, dbIter, shown)'
<1>0. /\ Visible' = Visible /\ deletions' = deletions /\ InIter!Shown' = InIter!Shown
      /\ \A k : (InIter!Newest(k))' = InIter!Newest(k)
  BY DEF SeesTheSame
<1>1. Stands(merged)'
  BY StandsStill DEF Position
<1>2. AtRest(merged, dbIter, shown)'
  BY <1>0 DEF Position, AtRest, RestForward, RestBackward, Reach, InIter!Key,
       InIter!Valid, InIter!UserKey, InIter!Width
<1>3. Forwards(merged, dbIter, shown)'
  BY <1>0 DEF Position, Forwards, Forth, InIter!Key, InIter!Valid, InIter!UserKey,
       InIter!Width
<1>4. Turns(merged, dbIter, shown)'
  BY <1>0 DEF Position, Turns, InIter!Key, InIter!Valid, InIter!UserKey, InIter!Width,
       InIter!Last, InIter!None
<1>5. Backwards(merged, dbIter, shown)'
  BY <1>0 DEF Position, Backwards, Back, Reach, InIter!Key, InIter!Valid,
       InIter!UserKey, InIter!Width
<1>6. dbIter' \in DBIter' /\ shown' \in InIter!Shown' \cup {0}
  BY <1>0 DEF Position, DBIter, InIter!UserKeys
<1> QED BY <1>1, <1>2, <1>3, <1>4, <1>5, <1>6 DEF Position

LEMMA DataUnchanged ==
  ASSUME UNCHANGED <<children, deletions, sequence>>
  PROVE  SeesTheSame /\ (ChildrenRight => ChildrenRight')
<1>1. InIter!All' = InIter!All
  BY DEF InIter!All, InIter!Child
<1>2. Visible' = Visible
  BY <1>1 DEF Visible, InIter!Seq, InIter!Width
<1>3. \A k : (InIter!Newest(k))' = InIter!Newest(k)
  BY <1>1 DEF InIter!Newest, InIter!First, InIter!Seq, InIter!UserKey, InIter!Width,
       InIter!None
<1>4. InIter!Shown' = InIter!Shown
  BY <1>3 DEF InIter!Shown, InIter!UserKeys, InIter!None
<1>5. ChildrenRight => ChildrenRight'
  BY <1>1 DEF ChildrenRight, InIter!Child, Bound, InIter!Width, InIter!Seq,
       InIter!UserKey, InIter!UserKeys, InIter!Written
<1> QED BY <1>2, <1>3, <1>4, <1>5 DEF SeesTheSame, InIter!Child

(* An entry inserted later is of no snapshot.                              *)
LEMMA IterInsertKeeps ==
  ASSUME IterInv, NEW u \in InIter!UserKeys, InIter!Insert(u)
  PROVE  IterInv'
<1> DEFINE w == InIter!Written
           x == InIter!InternalKey(u, w + 1)
<1>1. /\ ChildrenRight /\ Position(merged, dbIter, shown)
      /\ w < Entries + Inserts /\ children' = [children EXCEPT ![0] = @ \cup {x}]
      /\ deletions' = deletions /\ sequence' = sequence
      /\ merged' = merged /\ dbIter' = dbIter /\ shown' = shown
  BY DEF IterInv, InIter!Insert
<1>2. /\ children \in [InIter!Child -> SUBSET (1 .. Bound)]
      /\ \A c, d \in InIter!Child : c # d => children[c] \cap children[d] = {}
      /\ \A e \in InIter!All : InIter!UserKey(e) \in InIter!UserKeys /\ InIter!Seq(e) \in 1 .. w
      /\ IsFiniteSet(InIter!All) /\ Entries <= w /\ w = Cardinality(InIter!All)
      /\ deletions \subseteq InIter!All /\ sequence \in 1 .. Entries
  BY <1>1, IterConstants DEF ChildrenRight, InIter!Written
<1>3. Entries \in Nat /\ Inserts \in Nat /\ 0 \in InIter!Child /\ w \in Nat
  BY <1>2, IterConstants, FS_CardinalityType
<1>4. w + 1 \in 1 .. Entries + Inserts
  BY <1>1, <1>3
<1>5. x \in 1 .. Bound /\ InIter!UserKey(x) = u /\ InIter!Seq(x) = w + 1
  BY <1>4, InternalKeyIs
<1> HIDE DEF w, x
<1>6. x \notin InIter!All /\ x \notin Visible
  BY <1>2, <1>3, <1>5 DEF Visible
<1>7. \A c \in InIter!Child : children'[c] = IF c = 0 THEN children[c] \cup {x} ELSE children[c]
  BY <1>1, <1>2
<1>8. InIter!All' = InIter!All \cup {x}
  <2>1. InIter!All = UNION {children[c] : c \in InIter!Child}
    BY DEF InIter!All
  <2>2. InIter!All' = UNION {children'[c] : c \in InIter!Child}
    BY DEF InIter!All, InIter!Child
  <2> QED BY <1>3, <1>7, <2>1, <2>2
<1>9. IsFiniteSet(InIter!All') /\ Cardinality(InIter!All') = w + 1
  BY <1>2, <1>6, <1>8, FS_AddElement
<1>10. children' \in [InIter!Child -> SUBSET (1 .. Bound)]
  BY <1>1, <1>2, <1>5
<1>11. \A c, d \in InIter!Child : c # d => children'[c] \cap children'[d] = {}
  <2>1. \A c \in InIter!Child : x \notin children[c]
    BY <1>6 DEF InIter!All
  <2> QED BY <1>2, <1>7, <2>1
<1>12. \A e \in InIter!All' : InIter!UserKey(e) \in InIter!UserKeys /\ InIter!Seq(e) \in 1 .. w + 1
  BY <1>2, <1>3, <1>5, <1>8
<1>13. InIter!Written' = w + 1 /\ InIter!IsFiniteSet(InIter!All')
  BY <1>9, IterConstants DEF InIter!Written
<1>14. deletions' \subseteq InIter!All' /\ sequence' \in 1 .. Entries
  BY <1>1, <1>2, <1>8
<1>15. Entries <= w + 1 /\ w + 1 <= Entries + Inserts
  BY <1>2, <1>3, <1>4
<1>16. ChildrenRight'
  BY <1>10, <1>11, <1>12, <1>13, <1>14, <1>15
     DEF ChildrenRight, InIter!Child, Bound, InIter!Width, InIter!UserKey, InIter!UserKeys, InIter!Seq
<1>17. Visible' = Visible
  <2>1. Visible' = {e \in InIter!All' : InIter!Seq(e) <= sequence}
    BY <1>1 DEF Visible, InIter!Seq, InIter!Width
  <2>2. ~(InIter!Seq(x) <= sequence)
    BY <1>2, <1>3, <1>5
  <2> QED BY <1>8, <2>1, <2>2 DEF Visible
<1>18. \A k : (InIter!Newest(k))' = InIter!Newest(k)
  <2> SUFFICES ASSUME NEW k PROVE (InIter!Newest(k))' = InIter!Newest(k)
    OBVIOUS
  <2>1. (InIter!Newest(k))' = InIter!First({e \in Visible' : InIter!UserKey(e) = k})
    <3>1. (InIter!Newest(k))' = InIter!First({e \in InIter!All' : InIter!UserKey(e) = k /\ InIter!Seq(e) <= sequence'})
      BY DEF InIter!Newest, InIter!First, InIter!Seq, InIter!UserKey, InIter!Width,
           InIter!None
    <3>2. {e \in InIter!All' : InIter!UserKey(e) = k /\ InIter!Seq(e) <= sequence'}
            = {e \in Visible' : InIter!UserKey(e) = k}
      BY DEF Visible, InIter!Seq, InIter!Width
    <3> QED BY <3>1, <3>2
  <2>2. InIter!Newest(k) = InIter!First({e \in Visible : InIter!UserKey(e) = k})
    <3>1. {e \in InIter!All : InIter!UserKey(e) = k /\ InIter!Seq(e) <= sequence}
            = {e \in Visible : InIter!UserKey(e) = k}
      BY DEF Visible
    <3> QED BY <3>1 DEF InIter!Newest
  <2> QED BY <1>17, <2>1, <2>2
<1>19. InIter!Shown' = InIter!Shown
  BY <1>1, <1>18 DEF InIter!Shown, InIter!UserKeys, InIter!None
<1>20. SeesTheSame
  BY <1>1, <1>6, <1>7, <1>17, <1>18, <1>19 DEF SeesTheSame
<1>21. Position(merged', dbIter', shown')
  BY <1>1
<1>22. Position(merged, dbIter, shown)'
  BY <1>20, <1>21, PositionKept
<1> QED BY <1>16, <1>22 DEF IterInv

LEMMA IterInit ==
  ASSUME InIter!Init
  PROVE  IterInv
<1>1. PICK spot \in [1 .. Entries -> InIter!UserKeys \X InIter!Child], dels \in SUBSET (1 .. Entries) :
        /\ children = [c \in InIter!Child |->
             {InIter!InternalKey(spot[s][1], s) : s \in {r \in 1 .. Entries : spot[r][2] = c}}]
        /\ deletions = {InIter!InternalKey(spot[s][1], s) : s \in dels}
        /\ sequence \in {Entries - 1, Entries} \ {0}
        /\ merged = [at |-> [c \in InIter!Child |-> 0], current |-> -1, forward |-> TRUE]
        /\ dbIter = [pc |-> "rest", valid |-> FALSE, forward |-> TRUE, saved |-> 0,
                     value |-> 0, skipping |-> FALSE, deleted |-> FALSE]
        /\ shown = 0
  BY DEF InIter!Init, InIter!None
<1> DEFINE e(s) == InIter!InternalKey(spot[s][1], s)
<1>2. Entries \in Nat \ {0} /\ Inserts \in Nat /\ 1 .. Entries \subseteq 1 .. Entries + Inserts
  BY IterConstants
<1>3. ASSUME NEW s \in 1 .. Entries
      PROVE  e(s) \in 1 .. Bound /\ InIter!UserKey(e(s)) \in InIter!UserKeys /\ InIter!Seq(e(s)) = s
             /\ spot[s][2] \in InIter!Child
  <2>1. spot[s][1] \in InIter!UserKeys /\ spot[s][2] \in InIter!Child /\ s \in 1 .. Entries + Inserts
    BY <1>2
  <2> HIDE DEF e
  <2>2. e(s) = InIter!InternalKey(spot[s][1], s)
    BY DEF e
  <2> QED BY <2>1, <2>2, InternalKeyIs
<1>4. \A c \in InIter!Child : children[c] = {e(s) : s \in {r \in 1 .. Entries : spot[r][2] = c}}
  BY <1>1
<1>5. children \in [InIter!Child -> SUBSET (1 .. Bound)]
  <2>1. \A c \in InIter!Child : children[c] \in SUBSET (1 .. Bound)
    BY <1>3, <1>4
  <2>2. DOMAIN children = InIter!Child /\ children = [c \in InIter!Child |-> children[c]]
    BY <1>1
  <2> QED BY <2>1, <2>2
<1>6. InIter!All = {e(s) : s \in 1 .. Entries}
  <2>1. ASSUME NEW x \in InIter!All PROVE x \in {e(s) : s \in 1 .. Entries}
    <3>1. PICK c \in InIter!Child : x \in children[c]
      BY DEF InIter!All
    <3> QED BY <1>4, <3>1
  <2>2. ASSUME NEW s \in 1 .. Entries PROVE e(s) \in InIter!All
    <3>1. e(s) \in children[spot[s][2]]
      BY <1>3, <1>4
    <3> QED BY <1>3, <3>1 DEF InIter!All
  <2> QED BY <2>1, <2>2
<1> HIDE DEF e
<1>7. \A c, d \in InIter!Child : c # d => children[c] \cap children[d] = {}
  <2> SUFFICES ASSUME NEW c \in InIter!Child, NEW d \in InIter!Child, NEW x \in children[c], x \in children[d]
               PROVE  c = d
    OBVIOUS
  <2>1. PICK s \in 1 .. Entries : x = e(s) /\ spot[s][2] = c
    BY <1>4
  <2>2. PICK r \in 1 .. Entries : x = e(r) /\ spot[r][2] = d
    BY <1>4
  <2>3. r = s
    BY <1>3, <2>1, <2>2
  <2> QED BY <2>1, <2>2, <2>3
<1>8. IsFiniteSet(InIter!All) /\ Cardinality(InIter!All) = Entries
  <2> DEFINE f == [s \in 1 .. Entries |-> e(s)]
  <2>1. f \in [1 .. Entries -> InIter!All]
    BY <1>6
  <2>2. \A s, r \in 1 .. Entries : f[s] = f[r] => s = r
    BY <1>3
  <2>3. \A x \in InIter!All : \E s \in 1 .. Entries : f[s] = x
    BY <1>6
  <2>4. f \in Injection(1 .. Entries, InIter!All)
    BY <2>1, <2>2 DEF Injection, IsInjective
  <2>5. f \in Surjection(1 .. Entries, InIter!All)
    BY <2>1, <2>3 DEF Surjection
  <2>6. ExistsBijection(1 .. Entries, InIter!All)
    BY <2>4, <2>5 DEF Bijection, ExistsBijection
  <2> QED BY <1>2, <2>6, FS_NatBijection, FS_CountingElements
<1>9. InIter!Written = Entries /\ InIter!IsFiniteSet(InIter!All)
  BY <1>8, IterConstants DEF InIter!Written
<1>10. \A x \in InIter!All : InIter!UserKey(x) \in InIter!UserKeys /\ InIter!Seq(x) \in 1 .. Entries
  BY <1>3, <1>6
<1>11. deletions \subseteq InIter!All
  BY <1>1, <1>6 DEF e
<1>12. sequence \in 1 .. Entries
  BY <1>1, <1>2
<1>13. ChildrenRight
  BY <1>2, <1>5, <1>7, <1>9, <1>10, <1>11, <1>12 DEF ChildrenRight
<1>14. merged \in Merged /\ merged.current = -1 /\ \A c \in InIter!Child : merged.at[c] = 0
  BY <1>1 DEF Merged
<1>15. Stands(merged)
  BY <1>14 DEF Stands, Children, InIter!Valid
<1>16. dbIter \in DBIter /\ dbIter.pc = "rest" /\ dbIter.valid = FALSE
  BY <1>1 DEF DBIter
<1>17. Position(merged, dbIter, shown)
  BY <1>1, <1>15, <1>16 DEF Position, AtRest, Forwards, Turns, Backwards
<1> QED BY <1>13, <1>17 DEF IterInv

LEMMA MoveKeepsIter ==
  ASSUME IterInv, UNCHANGED <<children, deletions, sequence>>,
         Position(merged', dbIter', shown')
  PROVE  IterInv'
BY DataUnchanged, PositionKept DEF IterInv

LEMMA IterNextStep ==
  ASSUME IterInv, InIter!Next
  PROVE  IterInv'
<1>1. ASSUME NEW k \in InIter!UserKeys, InIter!Insert(k) PROVE IterInv'
  BY <1>1, IterInsertKeeps
<1>2. ASSUME NEW k \in InIter!UserKeys, InIter!Seek(k) PROVE IterInv'
  <2>1. UNCHANGED <<children, deletions, sequence>>
    BY <1>2 DEF InIter!Seek, InIter!Data
  <2> QED BY <1>2, <2>1, SeekKeeps, MoveKeepsIter
<1>3. CASE InIter!SeekToFirst
  <2>1. UNCHANGED <<children, deletions, sequence>>
    BY <1>3 DEF InIter!SeekToFirst, InIter!Data
  <2> QED BY <1>3, <2>1, SeekToFirstKeeps, MoveKeepsIter
<1>4. CASE InIter!SeekToLast
  <2>1. UNCHANGED <<children, deletions, sequence>>
    BY <1>4 DEF InIter!SeekToLast, InIter!Data
  <2> QED BY <1>4, <2>1, SeekToLastKeeps, MoveKeepsIter
<1>5. CASE InIter!IterNext
  <2>1. UNCHANGED <<children, deletions, sequence>>
    BY <1>5 DEF InIter!IterNext, InIter!Data
  <2> QED BY <1>5, <2>1, IterNextKeeps, MoveKeepsIter
<1>6. CASE InIter!IterPrev
  <2>1. UNCHANGED <<children, deletions, sequence>>
    BY <1>6 DEF InIter!IterPrev, InIter!Data
  <2> QED BY <1>6, <2>1, IterPrevKeeps, MoveKeepsIter
<1>7. CASE InIter!FindNextUserEntry
  <2>1. UNCHANGED <<children, deletions, sequence>>
    BY <1>7 DEF InIter!FindNextUserEntry, InIter!Data
  <2> QED BY <1>7, <2>1, FindNextKeeps, MoveKeepsIter
<1>8. CASE InIter!ScanBackwards
  <2>1. UNCHANGED <<children, deletions, sequence>>
    BY <1>8 DEF InIter!ScanBackwards, InIter!Data
  <2> QED BY <1>8, <2>1, ScanBackwardsKeeps, MoveKeepsIter
<1>9. CASE InIter!FindPrevUserEntry
  <2>1. UNCHANGED <<children, deletions, sequence>>
    BY <1>9 DEF InIter!FindPrevUserEntry, InIter!Data
  <2> QED BY <1>9, <2>1, FindPrevKeeps, MoveKeepsIter
<1> QED BY <1>1, <1>2, <1>3, <1>4, <1>5, <1>6, <1>7, <1>8, <1>9 DEF InIter!Next

LEMMA IterStutters ==
  ASSUME IterInv, UNCHANGED inIter
  PROVE  IterInv'
<1>1. /\ UNCHANGED <<children, deletions, sequence>>
      /\ merged' = merged /\ dbIter' = dbIter /\ shown' = shown
  BY DEF inIter
<1>2. Position(merged', dbIter', shown')
  BY <1>1 DEF IterInv
<1> QED BY <1>1, <1>2, MoveKeepsIter

LEMMA IterInvShows ==
  ASSUME IterInv
  PROVE  InIter!IteratorShowsSnapshot
<1> SUFFICES ASSUME dbIter.pc = "rest"
             PROVE  /\ dbIter.valid <=> shown # 0
                    /\ dbIter.valid => IF dbIter.forward THEN InIter!Key(merged) = InIter!Newest(shown)
                         ELSE dbIter.saved = shown /\ dbIter.value = InIter!Newest(shown)
  BY DEF InIter!IteratorShowsSnapshot, InIter!Resting, InIter!None
<1>1. IF dbIter.valid THEN IF dbIter.forward THEN RestForward(merged, shown)
                           ELSE RestBackward(merged, dbIter, shown)
      ELSE shown = 0
  BY DEF IterInv, Position, AtRest
<1> QED BY <1>1 DEF RestForward, RestBackward

LEMMA IterInStorage ==
  ASSUME [Next]_vars
  PROVE  InIter!Next \/ UNCHANGED inIter
BY DEF Next, vars

(* IterInv is inductive: every move of the iterator, and every insertion   *)
(* between two of them, keeps it.                                          *)
THEOREM IterInvHolds == Spec => []IterInv
<1>1. Init => IterInv
  BY IterInit DEF Init
<1>2. IterInv /\ [Next]_vars => IterInv'
  BY IterInStorage, IterNextStep, IterStutters
<1> QED BY <1>1, <1>2, PTL DEF Spec

(* Whatever moves and turns brought it there, and whatever was written     *)
(* meanwhile, the iterator shows the key that a sorted list of the values  *)
(* of its snapshot would show, with its newest value then, or is at an end *)
(* when that is, for any number of keys, entries, insertions and tables.   *)
THEOREM IteratorStaysRight == Spec => []IteratorShowsSnapshot
<1>1. IterInv => IteratorShowsSnapshot
  BY IterInvShows DEF IteratorShowsSnapshot
<1> QED BY <1>1, IterInvHolds, PTL
==============================================================================
