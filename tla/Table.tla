-------------------------------- MODULE Table ----------------------------------
(***************************************************************************)
(* LevelDB's table files: how a TableBuilder (table_builder.cc,            *)
(* block_builder.cc, filter_block.cc) lays out sorted keys, and how Get    *)
(* (table.cc) and an iterator (two_level_iterator.cc, block.cc) find them  *)
(* again: keys lose the prefix they share with the one before, but at      *)
(* restart points; an index holds for each block a short key that divides  *)
(* it from the next; a filter tells which blocks cannot hold a key.        *)
(*                                                                         *)
(* An internal key is its user key's bytes and one cell for the sequence   *)
(* number.  An offset in a block counts its entries.  When a block is full *)
(* is left open.                                                           *)
(***************************************************************************)
EXTENDS Integers, Sequences, SequencesExt, FiniteSets, FiniteSetsExt

CONSTANTS
  UserKeys, MaxByte,   \* user keys, of bytes 0 .. MaxByte, the last 0xff
  MaxSeq,              \* kMaxSequenceNumber; entries have less
  RestartInterval, FilterBase,
  MaxEntries           \* bound of the model: entries of a table

TableAssumption ==
  /\ UserKeys \subseteq Seq(0 .. MaxByte) \ {<<>>}
  /\ MaxByte \in Nat /\ MaxSeq \in Nat
  /\ RestartInterval \in Nat \ {0} /\ FilterBase \in Nat \ {0}

VARIABLES
  keys,      \* the keys added, in order
  table,     \* the file as the builder has it
  iter,      \* an iterator of the finished table
  goal       \* the place in keys it is to be at, 0 for none

vars == <<keys, table, iter, goal>>

-----------------------------------------------------------------------------
(* Comparators.                                                            *)

SharedPrefix(a, b) ==
  LET n == Min({Len(a), Len(b)}) IN
  Max({i \in 0 .. n : \A j \in 1 .. i : a[j] = b[j]})
BytesBefore(a, b) ==
  LET n == SharedPrefix(a, b) IN
  IF n = Len(a) THEN n < Len(b) ELSE n < Len(b) /\ a[n + 1] < b[n + 1]

InternalKey(user, s) == Append(user, s)
ExtractUserKey(k) == Front(k)
(* By user key, then the newest first.                                     *)
Before(a, b) ==
  \/ BytesBefore(ExtractUserKey(a), ExtractUserKey(b))
  \/ ExtractUserKey(a) = ExtractUserKey(b) /\ Last(a) > Last(b)

(* Slip: the byte is raised although it reaches the next key's.            *)
SeparatorByTwo(a, b) ==
  LET n == SharedPrefix(a, b) IN
  IF n < Min({Len(a), Len(b)}) /\ a[n + 1] < MaxByte
  THEN Append(SubSeq(a, 1, n), a[n + 1] + 1) ELSE a

(* A short string from a up to below b, and one from a up.                 *)
BytesSeparator(a, b) ==
  LET n == SharedPrefix(a, b) IN
  IF n < Min({Len(a), Len(b)}) /\ a[n + 1] < MaxByte /\ a[n + 1] + 1 < b[n + 1]
  THEN Append(SubSeq(a, 1, n), a[n + 1] + 1) ELSE a
BytesSuccessor(a) ==
  LET low == {i \in DOMAIN a : a[i] # MaxByte} IN
  IF low = {} THEN a ELSE Append(SubSeq(a, 1, Min(low) - 1), a[Min(low)] + 1)

(* Of the internal keys: the short user key with the earliest number, if   *)
(* it got shorter and later.                                               *)
Shortened(k, user) ==
  IF Len(user) < Len(ExtractUserKey(k)) /\ BytesBefore(ExtractUserKey(k), user)
  THEN InternalKey(user, MaxSeq) ELSE k
FindShortestSeparator(k, limit) ==
  Shortened(k, BytesSeparator(ExtractUserKey(k), ExtractUserKey(limit)))
FindShortSuccessor(k) == Shortened(k, BytesSuccessor(ExtractUserKey(k)))

-----------------------------------------------------------------------------
(* BlockBuilder.                                                           *)

NoBlock == [entries |-> <<>>, restarts |-> <<1>>, counter |-> 0, last |-> <<>>]

(* Block::Iter: where it is, and the key it has put together.              *)
End(b) == Len(b.entries) + 1
NumRestarts(b) == Len(b.restarts)
Position(at, restart, key) == [at |-> at, restart |-> restart, key |-> key]
Invalid(b) == Position(End(b), NumRestarts(b) + 1, <<>>)
Unplaced == [block |-> NoBlock, index |-> Invalid(NoBlock), data |-> Invalid(NoBlock)]

AddTo(b, k, value, interval) ==
  LET restart == b.counter >= interval
      shared  == IF restart THEN 0 ELSE SharedPrefix(b.last, k)
      entry   == [shared |-> shared, rest |-> SubSeq(k, shared + 1, Len(k)), value |-> value]
  IN [entries  |-> Append(b.entries, entry),
      restarts |-> IF restart THEN Append(b.restarts, Len(b.entries) + 1) ELSE b.restarts,
      counter  |-> IF restart THEN 1 ELSE b.counter + 1,
      last     |-> k]

-----------------------------------------------------------------------------
(* TableBuilder, with its FilterBlockBuilder.  A block's offset is the     *)
(* number of entries before it.                                            *)

Init ==
  /\ keys = <<>>
  /\ table = [data |-> NoBlock, index |-> NoBlock, blocks |-> <<>>, offsets |-> <<>>,
              pending |-> FALSE, filters |-> <<>>, filterKeys |-> {}, closed |-> FALSE]
  /\ iter = Unplaced /\ goal = 0

(* GenerateFilter until there is one for each range before the offset's.   *)
StartBlock(t, offset) ==
  LET missing == (offset \div FilterBase) - Len(t.filters) IN
  IF missing <= 0 THEN t
  ELSE [t EXCEPT !.filters = @ \o <<t.filterKeys>> \o [i \in 1 .. missing - 1 |-> {}],
                 !.filterKeys = {}]

AddIndex(t, k) ==
  IF t.pending
  THEN [t EXCEPT !.index = AddTo(@, k, Len(t.blocks), 1), !.pending = FALSE] ELSE t

Flush(t) ==
  IF t.data.entries = <<>> THEN t
  ELSE StartBlock([t EXCEPT !.blocks = Append(@, t.data), !.data = NoBlock, !.pending = TRUE,
                            !.offsets = Append(@, Len(keys') - Len(t.data.entries))],
                  Len(keys'))

Add(k) ==
  /\ ~table.closed /\ Len(keys) < MaxEntries
  /\ keys # <<>> => Before(Last(keys), k)
  /\ keys' = Append(keys, k)
  /\ LET indexed == IF keys = <<>> THEN table
                    ELSE AddIndex(table, FindShortestSeparator(Last(keys), k))
         added   == [indexed EXCEPT !.data = AddTo(@, k, Len(keys'), RestartInterval),
                                    !.filterKeys = @ \cup {ExtractUserKey(k)}]
     IN table' = added \/ table' = Flush(added)
  /\ UNCHANGED <<iter, goal>>

Finish ==
  /\ ~table.closed /\ keys # <<>> /\ UNCHANGED keys
  /\ LET flushed == Flush(table)
         filtered == IF flushed.filterKeys = {} THEN flushed
                     ELSE [flushed EXCEPT !.filters = Append(@, flushed.filterKeys),
                                          !.filterKeys = {}]
     IN table' = [AddIndex(filtered, FindShortSuccessor(Last(keys))) EXCEPT !.closed = TRUE]
  /\ UNCHANGED <<iter, goal>>

-----------------------------------------------------------------------------
(* Block::Iter.                                                            *)

Valid(b, it) == it.at < End(b)

Parsed(key, entry) == SubSeq(key, 1, entry.shared) \o entry.rest
(* From a restart point to entry i, the key of each from the one before.   *)
KeyFrom(b, r, i) ==
  LET key[j \in 0 .. i] ==
        IF j < b.restarts[r] THEN <<>> ELSE Parsed(key[j - 1], b.entries[j])
  IN key[i]
(* ParseNextKey moves the restart index on, but not onto the entry itself. *)
RestartOf(b, r, i) == Max({r} \cup {q \in 1 .. NumRestarts(b) : b.restarts[q] < i})
ParseFrom(b, r, i) ==
  IF i >= End(b) THEN Invalid(b) ELSE Position(i, RestartOf(b, r, i), KeyFrom(b, r, i))

NextIn(b, it) ==
  IF it.at + 1 >= End(b) THEN Invalid(b)
  ELSE Position(it.at + 1, RestartOf(b, it.restart, it.at + 1),
                Parsed(it.key, b.entries[it.at + 1]))

PrevIn(b, it) ==
  LET before == {r \in 1 .. it.restart : b.restarts[r] < it.at} IN
  IF before = {} THEN Invalid(b) ELSE ParseFrom(b, Max(before), it.at - 1)

(* The last restart point with a key before the target, or the first.      *)
RestartBefore(b, target) ==
  LET search[p \in [left : 1 .. NumRestarts(b), right : 0 .. NumRestarts(b)]] ==
        LET mid == (p.left + p.right + 1) \div 2 IN
        IF p.left >= p.right THEN p.left
        ELSE IF Before(b.entries[b.restarts[mid]].rest, target)
             THEN search[[p EXCEPT !.left = mid]] ELSE search[[p EXCEPT !.right = mid - 1]]
  IN search[[left |-> 1, right |-> NumRestarts(b)]]

SeekIn(b, target) ==
  LET r == RestartBefore(b, target)
      reached == {i \in b.restarts[r] .. Len(b.entries) : ~Before(KeyFrom(b, r, i), target)}
  IN ParseFrom(b, r, Min(reached \cup {End(b)}))
FirstIn(b) == ParseFrom(b, 1, 1)
LastIn(b)  == ParseFrom(b, NumRestarts(b), Len(b.entries))

-----------------------------------------------------------------------------
(* TwoLevelIterator, over the index and the block it points to.            *)

Index == table.index
BlockAt(it) == table.blocks[Index.entries[it.at].value]
(* The first block from an index position on, forwards or backwards, where *)
(* there is an entry: no block is empty, so the next one if need be.       *)
SkipForward(it, block, data) ==
  IF Valid(block, data) THEN [block |-> block, index |-> it, data |-> data]
  ELSE LET next == NextIn(Index, it) IN
       IF ~Valid(Index, next) THEN [block |-> NoBlock, index |-> next, data |-> Invalid(NoBlock)]
       ELSE [block |-> BlockAt(next), index |-> next, data |-> FirstIn(BlockAt(next))]
SkipBackward(it, block, data) ==
  IF Valid(block, data) THEN [block |-> block, index |-> it, data |-> data]
  ELSE LET prev == PrevIn(Index, it) IN
       IF ~Valid(Index, prev) THEN [block |-> NoBlock, index |-> prev, data |-> Invalid(NoBlock)]
       ELSE [block |-> BlockAt(prev), index |-> prev, data |-> LastIn(BlockAt(prev))]

(* The file and the iterator are well formed: every block has an index     *)
(* entry but a last one that is pending, and none is empty.                *)
TypeOK ==
  /\ ToSet(keys) \subseteq {InternalKey(u, s) : u \in UserKeys, s \in 1 .. MaxSeq - 1}
  /\ Len(table.offsets) = Len(table.blocks)
  /\ Len(Index.entries) = Len(table.blocks) - IF table.pending THEN 1 ELSE 0
  /\ \A b \in ToSet(table.blocks) : b.entries # <<>> /\ Len(b.restarts) <= Len(b.entries)
  /\ table.filters \in Seq(SUBSET UserKeys)
  /\ goal \in 0 .. Len(keys) /\ iter.index.at \in 1 .. End(Index)

Moved(to, place) == /\ iter' = to /\ goal' = place /\ UNCHANGED <<keys, table>>
AtEntry == table.closed /\ goal # 0

Targets == {InternalKey(u, s) : u \in UserKeys, s \in 1 .. MaxSeq}
FirstFrom(target) ==
  LET from == {i \in DOMAIN keys : ~Before(keys[i], target)} IN
  IF from = {} THEN 0 ELSE Min(from)

Seek(target) ==
  /\ table.closed
  /\ LET it == SeekIn(Index, target) IN
     Moved(IF Valid(Index, it) THEN SkipForward(it, BlockAt(it), SeekIn(BlockAt(it), target))
           ELSE [block |-> NoBlock, index |-> it, data |-> Invalid(NoBlock)],
           FirstFrom(target))
SeekToFirst ==
  /\ table.closed
  /\ LET it == FirstIn(Index) IN Moved(SkipForward(it, BlockAt(it), FirstIn(BlockAt(it))), 1)
SeekToLast ==
  /\ table.closed
  /\ LET it == LastIn(Index) IN
     Moved(SkipBackward(it, BlockAt(it), LastIn(BlockAt(it))), Len(keys))
IterNext ==
  /\ AtEntry
  /\ Moved(SkipForward(iter.index, iter.block, NextIn(iter.block, iter.data)),
           IF goal = Len(keys) THEN 0 ELSE goal + 1)
IterPrev ==
  /\ AtEntry
  /\ Moved(SkipBackward(iter.index, iter.block, PrevIn(iter.block, iter.data)), goal - 1)

Next ==
  \/ \E u \in UserKeys, s \in 1 .. MaxSeq - 1 : Add(InternalKey(u, s))
  \/ Finish
  \/ \E target \in Targets : Seek(target)
  \/ SeekToFirst \/ SeekToLast \/ IterNext \/ IterPrev

Spec == Init /\ [][Next]_vars

-----------------------------------------------------------------------------
(* Table::InternalGet: the entry given to the saver, 0 for none.           *)
KeyMayMatch(offset, user) ==
  LET f == offset \div FilterBase IN
  f < Len(table.filters) => user \in table.filters[f + 1]
InternalGet(target) ==
  LET it == SeekIn(Index, target) IN
  IF ~Valid(Index, it) THEN 0
  ELSE LET n == Index.entries[it.at].value
           b == table.blocks[n] IN
       IF ~KeyMayMatch(table.offsets[n], ExtractUserKey(target)) \/ ~Valid(b, SeekIn(b, target))
       THEN 0 ELSE b.entries[SeekIn(b, target).at].value

(* Get gives the entry a sorted list would, whenever it is of the key that *)
(* is looked for; the iterator is where a place in the list would be.      *)
TableIsItsKeys ==
  table.closed =>
    /\ \A target \in Targets :
         LET i == FirstFrom(target) IN
         i # 0 /\ ExtractUserKey(keys[i]) = ExtractUserKey(target) => InternalGet(target) = i
    /\ goal # 0 <=> Valid(iter.block, iter.data)
    /\ goal # 0 => iter.data.key = keys[goal]
================================================================================
