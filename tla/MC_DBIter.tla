------------------------------ MODULE MC_DBIter ------------------------------
(***************************************************************************)
(* Databases for the iterators: five or six older entries in the files of  *)
(* the deeper level, then three writes, two of them in a table of level 0  *)
(* and the last in the memory table.  The filter base is three units of    *)
(* the file, so the layouts differ in what a filter covers.                *)
(***************************************************************************)
EXTENDS DBIter

A == <<1>>
B == <<1, 2, 1>>
C == <<1, 4>>
E == <<2>>
MCUserKeys == {A, B, C, E}

V(u, s) == InternalKey(u, s, kTypeValue)
D(u, s) == InternalKey(u, s, kTypeDeletion)

\* "first" is the first of the three writes.
MCLayouts == {
  \* a block ends at a key that is a prefix of the next; a table at one shortened to <<2>>
  [block_size |-> 3, first |-> V(C, 7),
   level |-> << {V(A, 5), D(A, 2), V(A, 1), V(B, 4)}, {D(E, 6), V(E, 3)} >>],
  \* a block of five entries: the next one begins two filters on, and one is empty
  [block_size |-> 5, first |-> V(A, 7),
   level |-> << {V(B, 6), D(B, 5), V(B, 4), V(C, 3), V(C, 2), V(E, 1)} >>],
  \* blocks of one entry, two to the first filter: B is shortened to <<1, 3>> before C,
  \* C to nothing before another C or before E
  [block_size |-> 1, first |-> V(B, 7),
   level |-> << {V(A, 1)}, {V(B, 5), D(C, 6), V(C, 3), V(E, 2)} >>] }

Write(s) == {InternalKey(u, s, t) : u \in MCUserKeys, t \in {kTypeValue, kTypeDeletion}}

MCContents ==
  {[mem |-> {m}, level0 |-> <<{l.first, b}>>, level |-> l.level, block_size |-> l.block_size,
    snapshots |-> {9}] :
     b \in Write(8), m \in Write(9), l \in MCLayouts}
==============================================================================
