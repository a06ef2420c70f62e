------------------------------- MODULE LRUCache ------------------------------
(***************************************************************************)
(* One shard of the cache (util/cache.cc), as functions on its state "c":  *)
(*   refs, in_cache, charge - the fields of each LRUHandle                 *)
(*   lru    - the entries no client uses, oldest first                     *)
(*   in_use - the entries in the cache that clients use                    *)
(*   table  - HandleTable: the handle of each key, or None                 *)
(*   usage                                                                 *)
(*   dead   - the handles whose deleter ran in this operation              *)
(* Each operation holds the shard's mutex from beginning to end, and the   *)
(* deleters run within it.                                                 *)
(***************************************************************************)
EXTENDS Integers, Sequences, SequencesExt, FiniteSetsExt

CONSTANTS CacheKeys, capacity_,
  MaxEntries   \* BOUND: entries of one key that are alive at a time

\* An entry is named by its key and a number; which number it has is seen nowhere.
Handles == CacheKeys \X (1..MaxEntries)
None == <<0, 0>>
Key(h) == h[1]

EmptyCache ==
  [refs |-> [h \in Handles |-> 0], in_cache |-> [h \in Handles |-> FALSE],
   charge |-> [h \in Handles |-> 0],
   lru |-> <<>>, in_use |-> {}, table |-> [k \in CacheKeys |-> None], usage |-> 0, dead |-> {}]

\* LRU_Remove: from whichever list it is on
LRU_Remove(c, h) ==
  [c EXCEPT !.lru = RemoveFirst(@, h), !.in_use = @ \ {h}]

RefInPlace(c, h) == [c EXCEPT !.refs[h] = @ + 1] \* mutant: the entry stays on its list

Ref(c, h) ==
  LET m == IF c.refs[h] = 1 /\ c.in_cache[h]
           THEN [LRU_Remove(c, h) EXCEPT !.in_use = @ \cup {h}] ELSE c
  IN  [m EXCEPT !.refs[h] = @ + 1]

Unref(c, h) ==
  LET d == [c EXCEPT !.refs[h] = @ - 1] IN
    CASE d.refs[h] = 0 -> [d EXCEPT !.dead = @ \cup {h}, !.charge[h] = 0]
      [] d.refs[h] = 1 /\ d.in_cache[h] -> [LRU_Remove(d, h) EXCEPT !.lru = Append(@, h)]
      [] OTHER -> d

\* FinishErase, after HandleTable::Remove or a replacing HandleTable::Insert
FinishErase(c, h) ==
  IF h = None THEN c
  ELSE Unref([LRU_Remove(c, h) EXCEPT !.in_cache[h] = FALSE, !.usage = @ - c.charge[h]], h)

TableRemove(c, k) == [c EXCEPT !.table[k] = None]

Erase(c, k) == FinishErase(TableRemove(c, k), c.table[k])

EvictOldest(c, h) == FinishErase(TableRemove(c, Key(h)), h)

NewHandle(c, k) == <<k, Min({i \in 1..MaxEntries : c.refs[<<k, i>>] = 0})>>
CanInsert(c, k) == \E i \in 1..MaxEntries : c.refs[<<k, i>>] = 0

Insert(c, k, charge) ==
  LET h == NewHandle(c, k)
      e == [c EXCEPT !.charge[h] = charge]
      i == IF capacity_ > 0
           THEN FinishErase([e EXCEPT !.refs[h] = 2, !.in_cache[h] = TRUE, !.in_use = @ \cup {h},
                                      !.usage = @ + charge, !.table[k] = h], c.table[k])
           ELSE [e EXCEPT !.refs[h] = 1, !.in_cache[h] = FALSE]
  IN  FoldLeft(LAMBDA d, old : IF d.usage > capacity_ THEN EvictOldest(d, old) ELSE d, i, i.lru)

\* The lists, the table and the usage agree with the entries' fields.
CacheIsExact(c) ==
  LET cached == {h \in Handles : c.in_cache[h]} IN
    /\ ToSet(c.lru) = {h \in cached : c.refs[h] = 1} /\ IsInjective(c.lru)
    /\ c.in_use = {h \in cached : c.refs[h] > 1}
    /\ \A k \in CacheKeys : c.table[k] # None => c.table[k] \in cached /\ Key(c.table[k]) = k
    /\ \A h \in cached : c.table[Key(h)] = h
    /\ c.usage = MapThenSumSet(LAMBDA h : c.charge[h], cached)
==============================================================================
