--------------------------- MODULE MergingIterator ---------------------------
(***************************************************************************)
(* The internal iterator of a database (DBImpl::NewInternalIterator,       *)
(* table/merger.cc): the memory table, which grows under it, the tables of *)
(* level 0 and the files of one deeper level.  The child of the memory     *)
(* table is the first, and its position is the key of its node.  A step    *)
(* ends before each call on that child but the first of a move: nothing    *)
(* else a move reads can change under it.                                  *)
(***************************************************************************)
EXTENDS TwoLevelIterator

VARIABLES
  mem,         \* the internal keys in the memory table
  level0,      \* the tables of level 0
  level,       \* the tables of the deeper level
  children_,   \* the state of each child
  current_,    \* the index of the current child, 0 for nullptr
  direction_,  \* "forward" or "reverse"
  half         \* the memory table's child has only been sought

mergeVars == <<mem, level0, level, children_, current_, direction_, half>>

NoNode == <<>>
Children == 1..(Len(level0) + 2)
Files(i) == IF i = Len(level0) + 2 THEN level ELSE <<level0[i - 1]>>

\* A table of level 0 is a child of its own; one file or many, the iterator
\* over files walks them in the same way.
ChildValid(i, s) == IF i = 1 THEN s # NoNode ELSE IterValid("files", Files(i), s)
ChildKey(i, s) == IF i = 1 THEN s ELSE s.data.data.key

First(S) == IF S = {} THEN NoNode ELSE CHOOSE k \in S : \A j \in S : j = k \/ KeyLess(k, j)
Final(S) == IF S = {} THEN NoNode ELSE CHOOSE k \in S : \A j \in S : j = k \/ KeyLess(j, k)

\* MemTableIterator: each move of it happens at one moment.
MemMove(node, move, target) ==
  CASE move = "first" -> First(mem)
    [] move = "last"  -> Final(mem)
    [] move = "next"  -> First({k \in mem : KeyLess(node, k)})
    [] move = "prev"  -> Final({k \in mem : KeyLess(k, node)})
    [] move = "seek"  -> First({k \in mem : ~KeyLess(k, target)})

ChildMove(i, s, move, target) ==
  IF i = 1 THEN MemMove(s, move, target) ELSE IterMove("files", Files(i), s, move, target)

MergeInit ==
  /\ children_ = [i \in Children |-> IF i = 1 THEN NoNode ELSE NewIterator("files", Files(i))]
  /\ current_ = 0
  /\ direction_ = "forward"
  /\ half = FALSE

Valid == current_ # 0
Key == ChildKey(current_, children_[current_])

\* FindSmallest and FindLargest: of equal keys the first child, the last child
FindSmallest(kids) ==
  LET live == {i \in Children : ChildValid(i, kids[i])}
      K(i) == ChildKey(i, kids[i])
  IN  IF live = {} THEN 0
      ELSE CHOOSE i \in live : \A j \in live \ {i} :
             KeyLess(K(i), K(j)) \/ (K(i) = K(j) /\ i < j)

FindLargest(kids) ==
  LET live == {i \in Children : ChildValid(i, kids[i])}
      K(i) == ChildKey(i, kids[i])
  IN  IF live = {} THEN 0
      ELSE CHOOSE i \in live : \A j \in live \ {i} :
             KeyLess(K(j), K(i)) \/ (K(i) = K(j) /\ i > j)

Finish(kids, direction) ==
  /\ children_' = kids
  /\ direction_' = direction
  /\ current_' = IF direction = "forward" THEN FindSmallest(kids) ELSE FindLargest(kids)
  /\ half' = FALSE

DirectionOf(move) == IF move \in {"prev", "last"} THEN "reverse" ELSE "forward"

SteppedIfValid(i, s, move) == \* mutant: Prev leaves an exhausted child where it is
  IF ChildValid(i, s) /\ (move = "prev" \/ ChildKey(i, s) = Key)
  THEN ChildMove(i, s, move, Key) ELSE s

\* Next or Prev after a move the other way: where a child that is not the
\* current one goes once it was sought to key().
Stepped(i, s, move) ==
  CASE move = "next" ->
         IF ChildValid(i, s) /\ ChildKey(i, s) = Key THEN ChildMove(i, s, "next", Key) ELSE s
    [] move = "prev" ->
         ChildMove(i, s, IF ChildValid(i, s) THEN "prev" ELSE "last", Key)

\* SeekToFirst, SeekToLast, Seek
MoveAll(move, target) ==
  /\ move \in {"first", "last", "seek"}
  /\ Finish([i \in Children |-> ChildMove(i, children_[i], move, target)], DirectionOf(move))

\* Next, Prev in the same direction
MoveCurrent(move) ==
  /\ move \in {"next", "prev"} /\ direction_ = DirectionOf(move)
  /\ Finish([children_ EXCEPT ![current_] = ChildMove(current_, @, move, Key)], direction_)

\* Next, Prev with a change of direction; first the memory table's child
SeekMemChild(move) ==
  /\ move \in {"next", "prev"} /\ direction_ # DirectionOf(move)
  /\ current_ # 1 /\ ~half
  /\ children_' = [children_ EXCEPT ![1] = MemMove(@, "seek", Key)]
  /\ half' = TRUE
  /\ UNCHANGED <<current_, direction_>>

TurnAround(move) ==
  /\ move \in {"next", "prev"} /\ direction_ # DirectionOf(move)
  /\ current_ = 1 \/ half
  /\ Finish([i \in Children |->
               IF i = current_ THEN ChildMove(i, children_[i], move, Key)
               ELSE Stepped(i, IF i = 1 THEN children_[1]
                               ELSE ChildMove(i, children_[i], "seek", Key), move)],
            DirectionOf(move))

\* A move of the merging iterator that ends, and the step of one that does not.
MoveEnds(move, target) == MoveAll(move, target) \/ MoveCurrent(move) \/ TurnAround(move)
==============================================================================
