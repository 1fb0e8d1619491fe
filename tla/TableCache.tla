------------------------------ MODULE TableCache -------------------------------
(***************************************************************************)
(* LevelDB's cache of open tables (table_cache.cc) on its LRU cache        *)
(* (cache.cc): entries are shared by handles, replaced by a second Insert  *)
(* of their key, erased, and evicted from the old end of a list of those   *)
(* nobody holds.  Each call of the cache is one step, under its mutex;     *)
(* between the Lookup that misses and the Insert, FindTable opens the file *)
(* without it.                                                             *)
(***************************************************************************)
EXTENDS Integers, Sequences, SequencesExt, FiniteSets, FiniteSetsExt

CONSTANTS
  Clients,     \* threads, each with a Get or an iterator
  Tables,      \* file numbers
  Capacities,  \* of the cache, in entries; 0 for none
  MaxEntries   \* bound of the model: entries in memory at once

TableCacheAssumption ==
  /\ IsFiniteSet(Clients) /\ Tables \subseteq Nat \ {0} /\ Capacities \subseteq Nat
  /\ MaxEntries \in Nat /\ MaxEntries > Cardinality(Clients)

VARIABLES
  capacity,    \* capacity_
  cache,       \* the entries, the lists lru and inUse, the table, usage
  client       \* what each thread does, and the handle it holds

vars == <<capacity, cache, client>>

None == 0
Ids  == 1 .. MaxEntries
Free == [table |-> None, refs |-> 0, inCache |-> FALSE]
Idle == [pc |-> "idle", table |-> None, handle |-> None]

TypeOK ==
  /\ capacity \in Capacities
  /\ cache.entries \in [Ids -> [table : Tables \cup {None}, refs : 0 .. Cardinality(Clients) + 1,
                                inCache : BOOLEAN]]
  /\ ToSet(cache.lru) \subseteq Ids /\ cache.inUse \subseteq Ids
  /\ cache.hash \in [Tables -> Ids \cup {None}] /\ cache.usage \in Nat
  /\ client \in [Clients -> [pc : {"idle", "opening", "using"}, table : Tables \cup {None},
                             handle : Ids \cup {None}]]

Init ==
  /\ capacity \in Capacities
  /\ cache = [entries |-> [e \in Ids |-> Free], lru |-> <<>>, inUse |-> {},
              hash |-> [t \in Tables |-> None], usage |-> 0]
  /\ client = [p \in Clients |-> Idle]

-----------------------------------------------------------------------------
(* LRUCache.                                                               *)

LRURemove(c, e) == [c EXCEPT !.lru = RemoveFirst(@, e), !.inUse = @ \ {e}]

Ref(c, e) ==
  LET d == IF c.entries[e].refs = 1 /\ c.entries[e].inCache
           THEN [LRURemove(c, e) EXCEPT !.inUse = @ \cup {e}] ELSE c
  IN [d EXCEPT !.entries[e].refs = @ + 1]

(* The last reference frees the entry; the last but the cache's makes it   *)
(* the newest of the lru list.                                             *)
Unref(c, e) ==
  LET left == c.entries[e].refs - 1 IN
  IF left = 0 THEN [c EXCEPT !.entries[e] = Free]
  ELSE IF c.entries[e].inCache /\ left = 1
  THEN [LRURemove(c, e) EXCEPT !.lru = Append(@, e), !.entries[e].refs = left]
  ELSE [c EXCEPT !.entries[e].refs = left]

(* Slip: what leaves the cache is freed with it.                           *)
FinishFree(c, e) ==
  IF e = None THEN c
  ELSE [LRURemove(c, e) EXCEPT !.entries[e] = Free, !.usage = @ - 1]

(* e was taken out of the hash table, or none was there.                   *)
FinishErase(c, e) ==
  IF e = None THEN c
  ELSE Unref([LRURemove(c, e) EXCEPT !.entries[e].inCache = FALSE, !.usage = @ - 1], e)

Erase(c, t) == FinishErase([c EXCEPT !.hash[t] = None], c.hash[t])

(* The n oldest entries that nobody holds are erased.  Each, as the code   *)
(* asserts, has one reference, the cache's, and is the entry of its key.   *)
EraseOldest(c, n) ==
  LET gone == {c.lru[i] : i \in 1 .. n}
      keys == {c.entries[e].table : e \in gone}
  IN
  [c EXCEPT !.entries = [e \in Ids |-> IF e \in gone THEN Free ELSE c.entries[e]],
            !.hash = [t \in Tables |-> IF t \in keys THEN None ELSE c.hash[t]],
            !.lru = SubSeq(@, n + 1, Len(@)), !.usage = @ - n]

(* As many as it takes, or as there are.                                   *)
Evicted(c) ==
  LET over == c.usage - capacity IN
  IF over <= 0 THEN c
  ELSE EraseOldest(c, IF over < Len(c.lru) THEN over ELSE Len(c.lru))

(* A new entry e, held by the caller and, if there is room at all, by the  *)
(* cache, where it replaces an earlier one.                                *)
Insert(c, e, t) ==
  LET alone  == [c EXCEPT !.entries[e] = [table |-> t, refs |-> 1, inCache |-> FALSE]]
      cached == [alone EXCEPT !.entries[e].refs = 2, !.entries[e].inCache = TRUE,
                              !.inUse = @ \cup {e}, !.usage = @ + 1, !.hash[t] = e]
  IN Evicted(IF capacity > 0 THEN FinishErase(cached, c.hash[t]) ELSE alone)

-----------------------------------------------------------------------------
(* TableCache.                                                             *)

(* FindTable up to the file's opening.                                     *)
FindTable(p, t) ==
  /\ client[p].pc = "idle"
  /\ IF cache.hash[t] # None
     THEN /\ cache' = Ref(cache, cache.hash[t])
          /\ client' = [client EXCEPT ![p] = [pc |-> "using", table |-> t,
                                              handle |-> cache.hash[t]]]
     ELSE /\ client' = [client EXCEPT ![p] = [pc |-> "opening", table |-> t,
                                              handle |-> None]]
          /\ UNCHANGED cache
  /\ UNCHANGED capacity

Opened(p) ==
  /\ client[p].pc = "opening"
  /\ \E e \in Ids :
       /\ cache.entries[e] = Free /\ \A d \in 1 .. e - 1 : cache.entries[d] # Free
       /\ cache' = Insert(cache, e, client[p].table)
       /\ client' = [client EXCEPT ![p].pc = "using", ![p].handle = e]
  /\ UNCHANGED capacity

(* Errors are not cached.                                                  *)
NotOpened(p) ==
  /\ client[p].pc = "opening"
  /\ client' = [client EXCEPT ![p] = Idle]
  /\ UNCHANGED <<capacity, cache>>

(* The end of Get, or UnrefEntry at the end of an iterator.                *)
Release(p) ==
  /\ client[p].pc = "using"
  /\ cache' = Unref(cache, client[p].handle)
  /\ client' = [client EXCEPT ![p] = Idle]
  /\ UNCHANGED capacity

Evict(t) ==
  /\ cache.hash[t] # None
  /\ cache' = Erase(cache, t)
  /\ UNCHANGED <<capacity, client>>

Prune ==
  /\ cache.lru # <<>>
  /\ cache' = EraseOldest(cache, Len(cache.lru))
  /\ UNCHANGED <<capacity, client>>

Next ==
  \/ \E p \in Clients : \/ \E t \in Tables : FindTable(p, t)
                        \/ Opened(p) \/ NotOpened(p) \/ Release(p)
  \/ \E t \in Tables : Evict(t)
  \/ Prune

Spec == Init /\ [][Next]_vars

-----------------------------------------------------------------------------
Holders(e) == {p \in Clients : client[p].pc = "using" /\ client[p].handle = e}
InCache == {e \in Ids : cache.entries[e].inCache}

(* A handle is its holder's until it is released: not freed by an Evict, a *)
(* replacement or the second of two threads that open one table at once,   *)
(* nor turned into another table.  Nothing is leaked: an entry is held by  *)
(* a client or by the cache.  The lists tell which, and a lookup finds the *)
(* entry of its table.  A release does not evict, so the cache may be over *)
(* its capacity with nobody holding what is too much, but never by more    *)
(* than all were holding at once.                                          *)
CacheIsSound ==
  /\ \A p \in Clients : client[p].pc = "using" =>
       cache.entries[client[p].handle].table = client[p].table
  /\ \A e \in Ids :
       /\ cache.entries[e].refs = Cardinality(Holders(e)) + IF e \in InCache THEN 1 ELSE 0
       /\ e \in cache.inUse <=> e \in InCache /\ Holders(e) # {}
       /\ e \in ToSet(cache.lru) <=> e \in InCache /\ Holders(e) = {}
       /\ e \in InCache <=> \E t \in Tables : cache.hash[t] = e
  /\ \A t \in Tables : cache.hash[t] # None => cache.entries[cache.hash[t]].table = t
  /\ IsInjective(cache.lru)
  /\ cache.usage = Cardinality(InCache)
  /\ cache.usage <= Max({capacity, Cardinality(Clients)})
================================================================================
