-------------------------------- MODULE Table --------------------------------
(***************************************************************************)
(* A table: how TableBuilder and FilterBlockBuilder lay it out             *)
(* (table/table_builder.cc, table/filter_block.cc), and Table::InternalGet *)
(* (table/table.cc).  An entry takes one unit of the file and a block's    *)
(* trailer one more; a filter is the set of user keys it was built from.   *)
(***************************************************************************)
EXTENDS Block

CONSTANTS
  RestartInterval,  \* options.block_restart_interval
  kFilterBase       \* one filter for so many units of the file

\* FilterBlockBuilder: [filters, keys]
GenerateFilter(f) == [filters |-> Append(f.filters, f.keys), keys |-> {}]

RECURSIVE StartBlockTooFar(_, _)
StartBlockTooFar(f, offset) == \* mutant: one filter more, without keys
  IF offset \div kFilterBase >= Len(f.filters) THEN StartBlockTooFar(GenerateFilter(f), offset) ELSE f

RECURSIVE StartBlock(_, _)
StartBlock(f, offset) ==
  IF offset \div kFilterBase > Len(f.filters) THEN StartBlock(GenerateFilter(f), offset) ELSE f

FinishFilters(f) == IF f.keys # {} THEN GenerateFilter(f).filters ELSE f.filters

\* FilterBlockReader::KeyMayMatch, with the exact filter: a Bloom filter may
\* also answer TRUE for other keys.
KeyMayMatch(filters, offset, key) ==
  LET i == offset \div kFilterBase IN
    i < Len(filters) => UserKey(key) \in filters[i + 1]

\* TableBuilder::Rep, with options.block_size in entries
NewTableBuilder(block_size) ==
  [block_size |-> block_size, data |-> EmptyBlock, index |-> EmptyBlock, blocks |-> <<>>, offset |-> 0,
   last |-> <<>>, pending |-> FALSE, handle |-> [block |-> 0, offset |-> 0],
   filter |-> [filters |-> <<>>, keys |-> {}]]

AddIndexEntry(r, key) ==
  [r EXCEPT !.index = AddToBlock(@, 1, key, r.handle), !.pending = FALSE]

Flush(r) ==
  IF r.data = EmptyBlock THEN r
  ELSE LET end == r.offset + Len(r.data.entries) + 1 IN
       [r EXCEPT !.blocks = Append(@, r.data), !.data = EmptyBlock, !.pending = TRUE,
                 !.handle = [block |-> Len(r.blocks) + 1, offset |-> r.offset],
                 !.offset = end, !.filter = StartBlock(@, end)]

\* TableBuilder::Add: the index entry of the block before waits for the first
\* key of the next one.
AddToTable(r, key) ==
  LET i == IF r.pending THEN AddIndexEntry(r, FindShortestSeparator(r.last, key)) ELSE r
      a == [i EXCEPT !.filter.keys = @ \cup {UserKey(key)}, !.last = key,
                     !.data = AddToBlock(@, RestartInterval, key, key)]
  IN  IF Len(a.data.entries) >= a.block_size THEN Flush(a) ELSE a

FinishTable(r) ==
  LET f == Flush(r)
      i == IF f.pending THEN AddIndexEntry(f, FindShortSuccessor(f.last)) ELSE f
  IN  [index |-> i.index, blocks |-> i.blocks, filters |-> FinishFilters(i.filter),
       largest |-> f.last]

\* BuildTable and a compaction's output: the keys in their order.
BuildTable(block_size, keys) == FinishTable(FoldLeft(AddToTable, NewTableBuilder(block_size), keys))

------------------------------------------------------------------------------
\* Table::InternalGet: the entry handed to the saver, or <<>>.
InternalGet(t, filtered, k) ==
  LET i == BlockMove(t.index, NewBlockIter(t.index), "seek", k) IN
    IF ~BlockIterValid(t.index, i) THEN <<>>
    ELSE LET h == BlockIterValue(t.index, i)
             b == t.blocks[h.block]
             d == BlockMove(b, NewBlockIter(b), "seek", k)
         IN  IF filtered /\ ~KeyMayMatch(t.filters, h.offset, k) THEN <<>>
             ELSE IF BlockIterValid(b, d) THEN d.key ELSE <<>>
==============================================================================
