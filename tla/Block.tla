-------------------------------- MODULE Block --------------------------------
(***************************************************************************)
(* A block of a table: how BlockBuilder writes its entries and restart     *)
(* points (table/block_builder.cc), and Block::Iter, which walks them      *)
(* (table/block.cc).  An entry takes one unit of the block whatever its    *)
(* length, so an offset is the number of entries before it.                *)
(***************************************************************************)
EXTENDS InternalKeys

EmptyBlock == [entries |-> <<>>, restarts |-> <<0>>, counter |-> 0, last |-> <<>>]

\* BlockBuilder::Add with options_->block_restart_interval
AddToBlock(b, interval, key, value) ==
  LET restart == b.counter >= interval
      shared == IF restart THEN 0 ELSE Shared(b.last, key)
  IN  [entries |-> Append(b.entries, [shared |-> shared, value |-> value,
                                      rest |-> SubSeq(key, shared + 1, Len(key))]),
       restarts |-> IF restart THEN Append(b.restarts, Len(b.entries)) ELSE b.restarts,
       counter |-> (IF restart THEN 0 ELSE b.counter) + 1,
       last |-> key]

------------------------------------------------------------------------------
\* Block::Iter: [current, restart, key, end]; "end" is NextEntryOffset().

restarts_(b) == Len(b.entries)
GetRestartPoint(b, i) == b.restarts[i + 1]
num_restarts_(b) == Len(b.restarts)

NewBlockIter(b) ==
  [current |-> restarts_(b), restart |-> num_restarts_(b), key |-> <<>>, end |-> 0]

BlockIterValid(b, it) == it.current < restarts_(b)
BlockIterValue(b, it) == b.entries[it.current + 1].value

Invalidate(b, it) == [it EXCEPT !.current = restarts_(b), !.restart = num_restarts_(b)]

SeekToRestartPoint(b, it, i) ==
  [it EXCEPT !.key = <<>>, !.restart = i, !.end = GetRestartPoint(b, i)]

ParseNextKey(b, it) ==
  IF it.end >= restarts_(b) THEN Invalidate(b, it)
  ELSE LET e == b.entries[it.end + 1] IN
       IF Len(it.key) < e.shared THEN [Invalidate(b, it) EXCEPT !.key = <<>>, !.end = 0]  \* CorruptionError
       ELSE [current |-> it.end, end |-> it.end + 1,
             key |-> SubSeq(it.key, 1, e.shared) \o e.rest,
             restart |-> Max({it.restart} \cup
               {i \in (it.restart + 1)..(num_restarts_(b) - 1) : GetRestartPoint(b, i) < it.end})]

\* Parse on until the end of the current entry reaches the offset.
RECURSIVE ParseUpTo(_, _, _)
ParseUpTo(b, it, offset) ==
  LET n == ParseNextKey(b, it) IN
    IF BlockIterValid(b, n) /\ n.end < offset THEN ParseUpTo(b, n, offset) ELSE n

\* Parse on to the first key at or after the target.
RECURSIVE ParseUntil(_, _, _)
ParseUntil(b, it, target) ==
  LET n == ParseNextKey(b, it) IN
    IF BlockIterValid(b, n) /\ KeyLess(n.key, target) THEN ParseUntil(b, n, target) ELSE n

BlockPrev(b, it) ==
  LET before == {i \in 0..it.restart : GetRestartPoint(b, i) < it.current} IN
    IF before = {} THEN Invalidate(b, it)
    ELSE ParseUpTo(b, SeekToRestartPoint(b, it, Max(before)), it.current)

\* The search starts from the entry the iterator is on; the binary search
\* ends at the last restart point of its range with a key < target.
BlockSeek(b, it, target) ==
  LET valid == BlockIterValid(b, it)
      ahead == valid /\ KeyLess(it.key, target)      \* current_key_compare < 0
      left == IF ahead THEN it.restart ELSE 0
      right == IF valid /\ ~ahead THEN it.restart ELSE num_restarts_(b) - 1
      found == Max({left} \cup {i \in (left + 1)..right :
                                  KeyLess(b.entries[GetRestartPoint(b, i) + 1].rest, target)})
      skip_seek == found = it.restart /\ ahead
  IN  IF valid /\ it.key = target THEN it
      ELSE ParseUntil(b, IF skip_seek THEN it ELSE SeekToRestartPoint(b, it, found), target)

BlockMove(b, it, move, target) ==
  CASE move = "first" -> ParseNextKey(b, SeekToRestartPoint(b, it, 0))
    [] move = "last"  -> ParseUpTo(b, SeekToRestartPoint(b, it, num_restarts_(b) - 1), restarts_(b))
    [] move = "next"  -> ParseNextKey(b, it)
    [] move = "prev"  -> BlockPrev(b, it)
    [] move = "seek"  -> BlockSeek(b, it, target)
==============================================================================
