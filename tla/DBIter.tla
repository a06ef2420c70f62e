------------------------------- MODULE DBIter --------------------------------
(***************************************************************************)
(* The iterator a client gets (db/db_iter.cc): it turns the entries of the *)
(* internal iterator, every version of every user key, into the user keys  *)
(* visible at sequence_, in both directions, while writers add entries to  *)
(* the memory table between any two of its calls on the internal iterator. *)
(***************************************************************************)
EXTENDS MergingIterator

CONSTANTS
  UserKeys,   \* strings
  Contents,   \* the databases to iterate over: [mem, level0, level, block_size, snapshots],
              \* the keys in each, the entries of a block, the iterator's sequences
  MaxInserts  \* BOUND: entries added while the iterator lives

VARIABLES
  sequence_,
  added,   \* entries added since the iterator was created
  it,      \* [pc, direction, valid, saved_key, saved_value, skipping, type, move, target]
  call,    \* the client's call: [move, target], target a user key
  view,    \* HISTORY: the key and the tag the client reads after its call: [key, tag]
  newest   \* HISTORY: the newest entry of each user key at sequence_, or <<>>

vars == <<mem, level0, level, children_, current_, direction_, half, sequence_, added, it, call, view, newest>>

NoCall == [move |-> "none", target |-> <<>>]
NoView == [key |-> <<>>, tag |-> 0]

Sorted(S) == [i \in 1..Cardinality(S) |->
                CHOOSE k \in S : Cardinality({j \in S : KeyLess(j, k)}) = i - 1]


Versions(S, u, s) == {k \in S : UserKey(k) = u /\ SequenceOf(k) <= s}
Newest(S) == IF S = {} THEN <<>> ELSE CHOOSE k \in S : \A j \in S : Tag(k) >= Tag(j)

Init ==
  /\ \E c \in Contents :
       /\ mem = c.mem
       /\ level0 = [i \in 1..Len(c.level0) |-> BuildTable(c.block_size, Sorted(c.level0[i]))]
       /\ level = [i \in 1..Len(c.level) |-> BuildTable(c.block_size, Sorted(c.level[i]))]
       /\ sequence_ \in c.snapshots
       /\ newest = [u \in UserKeys |->
            Newest(Versions(c.mem \cup UNION ToSet(c.level0 \o c.level), u, sequence_))]
  /\ MergeInit
  /\ added = 0
  /\ it = [pc |-> "idle", direction |-> "forward", valid |-> FALSE, saved_key |-> <<>>,
           saved_value |-> 0, skipping |-> FALSE, type |-> kTypeDeletion,
           move |-> "none", target |-> <<>>]
  /\ call = NoCall
  /\ view = NoView

------------------------------------------------------------------------------
\* A writer adds the next entry to the memory table.

LastSequence ==
  Max({sequence_} \cup {SequenceOf(k) : k \in mem})

Insert(u) ==
  /\ added < MaxInserts
  /\ added' = added + 1
  /\ mem' = mem \cup {InternalKey(u, LastSequence + 1, kTypeValue)}
  /\ UNCHANGED <<level0, level, children_, current_, direction_, half, sequence_, it, call, view, newest>>

------------------------------------------------------------------------------
\* The loops of DBIter, after a call on the internal iterator that left it
\* valid or not, at the entry k: what d becomes.

Ask(d, pc, move) == [d EXCEPT !.pc = pc, !.move = move]
Return(d) ==
  [d EXCEPT !.pc = "idle", !.move = "none", !.target = <<>>, !.skipping = FALSE, !.type = kTypeDeletion]
NotValid(d) == Return([d EXCEPT !.valid = FALSE, !.saved_key = <<>>])

Visible(k) == SequenceOf(k) <= sequence_

FindNextUserEntry(d, valid, k) ==
  CASE ~valid -> NotValid(d)
    [] valid /\ Visible(k) /\ TypeOf(k) = kTypeDeletion ->
         Ask([d EXCEPT !.saved_key = UserKey(k), !.skipping = TRUE], "findNext", "next")
    [] valid /\ Visible(k) /\ TypeOf(k) = kTypeValue
             /\ (d.skipping => BytesLess(d.saved_key, UserKey(k))) ->
         Return([d EXCEPT !.valid = TRUE, !.saved_key = <<>>])
    [] OTHER -> Ask(d, "findNext", "next")   \* hidden

\* The end of FindPrevUserEntry.
FoundPrev(d) ==
  IF d.type = kTypeDeletion
  THEN [NotValid(d) EXCEPT !.saved_value = 0, !.direction = "forward"]
  ELSE Return([d EXCEPT !.valid = TRUE])

FindFirstFromBehind(d, valid, k) == \* mutant: it stops at the oldest entry of a key
  CASE ~valid -> FoundPrev(d)
    [] valid /\ ~Visible(k) -> Ask(d, "findPrev", "prev")
    [] valid /\ Visible(k) /\ d.type # kTypeDeletion -> FoundPrev(d)
    [] OTHER -> Ask([d EXCEPT !.type = TypeOf(k), !.saved_key = UserKey(k),
                              !.saved_value = Tag(k)], "findPrev", "prev")

FindPrevUserEntry(d, valid, k) ==
  CASE ~valid -> FoundPrev(d)
    [] valid /\ ~Visible(k) -> Ask(d, "findPrev", "prev")
    [] valid /\ Visible(k) /\ d.type # kTypeDeletion /\ BytesLess(UserKey(k), d.saved_key) -> FoundPrev(d)
    [] OTHER ->
         LET value == TypeOf(k) = kTypeValue IN
         Ask([d EXCEPT !.type = TypeOf(k), !.saved_key = IF value THEN UserKey(k) ELSE <<>>,
                       !.saved_value = IF value THEN Tag(k) ELSE 0], "findPrev", "prev")

\* The loop of Prev that leaves the entries of the current user key.
ScanBack(d, valid, k) ==
  CASE ~valid -> [NotValid(d) EXCEPT !.saved_value = 0]
    [] valid /\ BytesLess(UserKey(k), d.saved_key) ->
         FindPrevUserEntry([d EXCEPT !.direction = "reverse"], valid, k)
    [] OTHER -> Ask(d, "scanBack", "prev")

Resume(d, valid, k) ==
  CASE d.pc = "findNext" -> FindNextUserEntry(d, valid, k)
    [] d.pc = "findPrev" -> FindPrevUserEntry(d, valid, k)
    [] d.pc = "scanBack" -> ScanBack(d, valid, k)

\* What each call does before its first call on the internal iterator.
Begin(d, move, target) ==
  CASE move = "seek" ->
         Ask([d EXCEPT !.direction = "forward", !.saved_value = 0,
                       !.target = LookupKey(target, sequence_)], "findNext", "seek")
    [] move = "first" ->
         Ask([d EXCEPT !.direction = "forward", !.saved_value = 0], "findNext", "first")
    [] move = "last" ->
         Ask([d EXCEPT !.direction = "reverse", !.saved_value = 0], "findPrev", "last")
    [] move = "next" /\ d.direction = "reverse" ->
         Ask([d EXCEPT !.direction = "forward", !.skipping = TRUE], "findNext",
             IF Valid THEN "next" ELSE "first")
    [] move = "next" /\ d.direction = "forward" ->
         Ask([d EXCEPT !.saved_key = UserKey(Key), !.skipping = TRUE], "findNext", "next")
    [] move = "prev" /\ d.direction = "forward" ->
         Ask([d EXCEPT !.saved_key = UserKey(Key)], "scanBack", "prev")
    [] move = "prev" /\ d.direction = "reverse" ->
         FindPrevUserEntry(d, Valid, IF Valid THEN Key ELSE <<>>)

\* Valid(), key() and value()
Look(d, k) ==
  IF ~d.valid THEN NoView
  ELSE IF d.direction = "forward" THEN [key |-> UserKey(k), tag |-> Tag(k)]
  ELSE [key |-> d.saved_key, tag |-> d.saved_value]

------------------------------------------------------------------------------
\* A client may call Next and Prev only on a valid iterator.

Call(move, target) ==
  /\ call = NoCall
  /\ move \in {"next", "prev"} => it.valid
  /\ call' = [move |-> move, target |-> IF move \in {"next", "prev"} THEN view.key ELSE target]
  /\ UNCHANGED <<mem, level0, level, children_, current_, direction_, half, sequence_, added, it, view, newest>>

\* The call ends when the loops of DBIter return.
Leave(d, k) ==
  /\ it' = d
  /\ call' = IF d.pc = "idle" THEN NoCall ELSE call
  /\ view' = IF d.pc = "idle" THEN Look(d, k) ELSE view

Start ==
  /\ call # NoCall /\ it.pc = "idle"
  /\ Leave(Begin(it, call.move, call.target), <<>>)
  /\ UNCHANGED <<mem, level0, level, children_, current_, direction_, half, sequence_, added, newest>>

\* A call on the internal iterator that returns, and what DBIter does after it.
InnerCall ==
  /\ it.pc # "idle"
  /\ MoveEnds(it.move, it.target)
  /\ LET k == IF Valid' THEN Key' ELSE <<>> IN Leave(Resume(it, Valid', k), k)
  /\ UNCHANGED <<mem, level0, level, sequence_, added, newest>>

InnerHalf ==
  /\ it.pc # "idle"
  /\ SeekMemChild(it.move)
  /\ UNCHANGED <<mem, level0, level, sequence_, added, it, call, view, newest>>

Next ==
  \/ \E u \in UserKeys : Insert(u)
  \/ \E u \in UserKeys : Call("seek", u)
  \/ \E move \in {"first", "last", "next", "prev"} : Call(move, <<>>)
  \/ Start
  \/ InnerCall
  \/ InnerHalf

Spec == Init /\ [][Next]_vars

------------------------------------------------------------------------------
BlockKeys(b) ==
  LET walk[n \in 0..Len(b.entries)] ==
        IF n = 0 THEN <<>> ELSE SubSeq(walk[n - 1], 1, b.entries[n].shared) \o b.entries[n].rest
  IN  [i \in 1..Len(b.entries) |-> walk[i]]

TableKeys(t) == UNION {ToSet(BlockKeys(b)) : b \in ToSet(t.blocks)}

\* The index key of a block is its last key, or a shorter user key between that one
\* and the next block's.
IndexSeparates(t) ==
  LET index == BlockKeys(t.index)
      keys(i) == BlockKeys(t.blocks[i])
  IN  \A i \in DOMAIN index :
        \/ index[i] = Last(keys(i))
        \/ /\ KeyLess(Last(keys(i)), index[i])
           /\ i < Len(index) => BytesLess(UserKey(index[i]), UserKey(Head(keys(i + 1))))

IsVisible(u) == newest[u] # <<>> /\ TypeOf(newest[u]) = kTypeValue

Rank(u) == Cardinality({v \in UserKeys : BytesLess(v, u)}) + 1
RankOrNone(u) == IF u = <<>> THEN 0 ELSE Rank(u)

abs == INSTANCE SortedSet WITH
  Keys <- 1..Cardinality(UserKeys), None <- 0,
  set <- {Rank(u) : u \in {v \in UserKeys : IsVisible(v)}},
  call <- [move |-> call.move, target |-> RankOrNone(call.target)],
  node <- RankOrNone(view.key)

\* The iterator is a cursor over the user keys that were visible when it was
\* created: every Seek, Next and Prev, in any order, lands on the right one,
\* whatever is added to the memory table between two of its steps.
ImplementsCursor == abs!Spec

\* The value the client reads is that of the newest entry of the key no newer
\* than the iterator's sequence, from either direction.
ValueIsNewest ==
  call = NoCall /\ it.valid => view.tag = Tag(newest[view.key])

\* Table::InternalGet finds the newest entry of a user key no newer than the
\* reader's sequence, when the table has one, through the index key the builder
\* shortened and the filter it laid out; else nothing of that user key.  And no
\* index key runs into the next block, which FindShortestSeparator asserts (at the
\* cost of the process) while it builds the table.
TableGetFindsNewest ==
  it.pc = "idle" /\ added = 0 /\ current_ = 0 =>
    \A t \in ToSet(level0) \cup ToSet(level) : LET keys == TableKeys(t) IN
      /\ IndexSeparates(t)
      /\ \A u \in UserKeys, s \in 1..sequence_, filtered \in BOOLEAN :
           LET S == Versions(keys, u, s)
               got == InternalGet(t, filtered, LookupKey(u, s))
           IN  IF S = {} THEN got = <<>> \/ UserKey(got) # u ELSE got = Newest(S)
==============================================================================
