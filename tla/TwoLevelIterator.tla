--------------------------- MODULE TwoLevelIterator --------------------------
(***************************************************************************)
(* An iterator over what the entries of an index lead to                   *)
(* (table/two_level_iterator.cc): over "blocks", where c is a table and    *)
(* the index its index block (table/table.cc), or over "files", where c is *)
(* the tables of a level and the index their largest keys, each file being *)
(* walked by an iterator over its blocks (db/version_set.cc).              *)
(***************************************************************************)
EXTENDS Table

NoData == <<>>

\* FindFile and Version::LevelFileNumIterator, whose index_ counts the files.
FindFile(files, key) ==
  Min({i \in 0..Len(files) : i = Len(files) \/ ~KeyLess(files[i + 1].largest, key)})

FilesMove(files, i, move, target) ==
  CASE move = "seek"  -> FindFile(files, target)
    [] move = "first" -> 0
    [] move = "last"  -> IF files = <<>> THEN 0 ELSE Len(files) - 1
    [] move = "next"  -> i + 1
    [] move = "prev"  -> IF i = 0 THEN Len(files) ELSE i - 1

NewIndex(over, c) == IF over = "blocks" THEN NewBlockIter(c.index) ELSE Len(c)
IndexMove(over, c, i, move, target) ==
  IF over = "blocks" THEN BlockMove(c.index, i, move, target) ELSE FilesMove(c, i, move, target)
IndexValid(over, c, i) == IF over = "blocks" THEN BlockIterValid(c.index, i) ELSE i < Len(c)
IndexValue(over, c, i) == IF over = "blocks" THEN BlockIterValue(c.index, i).block ELSE i + 1

\* [index, handle, data]: without a data iterator the handle is 0.
NewIterator(over, c) == [index |-> NewIndex(over, c), handle |-> 0, data |-> NoData]

\* block_function_: Table::BlockReader, GetFileIterator
NewData(over, c, h) ==
  IF over = "blocks" THEN NewBlockIter(c.blocks[h]) ELSE NewIterator("blocks", c[h])

RECURSIVE IterValid(_, _, _)
IterValid(over, c, it) ==
  /\ it.data # NoData
  /\ IF over = "blocks" THEN BlockIterValid(c.blocks[it.handle], it.data)
     ELSE IterValid("blocks", c[it.handle], it.data)

\* The data iterator is kept when the index still leads to its handle.
InitDataBlock(over, c, it) ==
  IF ~IndexValid(over, c, it.index) THEN [it EXCEPT !.data = NoData, !.handle = 0]
  ELSE LET h == IndexValue(over, c, it.index) IN
       IF it.data # NoData /\ h = it.handle THEN it
       ELSE [it EXCEPT !.data = NewData(over, c, h), !.handle = h]

MoveIndex(over, c, it, move, target) ==
  InitDataBlock(over, c, [it EXCEPT !.index = IndexMove(over, c, @, move, target)])

RECURSIVE IterMove(_, _, _, _, _), Skip(_, _, _, _, _)

MoveData(over, c, it, move, target) ==
  IF it.data = NoData THEN it
  ELSE [it EXCEPT !.data =
          IF over = "blocks" THEN BlockMove(c.blocks[it.handle], @, move, target)
          ELSE IterMove("blocks", c[it.handle], @, move, target)]

\* SkipEmptyDataBlocksForward and SkipEmptyDataBlocksBackward
Skip(over, c, it, step, end) ==
  IF IterValid(over, c, it) THEN it
  ELSE IF ~IndexValid(over, c, it.index) THEN [it EXCEPT !.data = NoData, !.handle = 0]
  ELSE Skip(over, c, MoveData(over, c, MoveIndex(over, c, it, step, 0), end, 0), step, end)

IterMove(over, c, it, move, target) ==
  LET there == IF move \in {"next", "prev"} THEN it ELSE MoveIndex(over, c, it, move, target)
      moved == MoveData(over, c, there, move, target)
  IN  IF move \in {"prev", "last"} THEN Skip(over, c, moved, "prev", "last")
      ELSE Skip(over, c, moved, "next", "first")
==============================================================================
