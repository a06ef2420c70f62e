------------------------------ MODULE SkipList -------------------------------
(***************************************************************************)
(* The skip list under a memory table (db/skiplist.h): one writer links    *)
(* nodes level by level while a reader walks the list without a lock.  A   *)
(* step is one load or one store of a link.  Links are loaded with acquire *)
(* and stored with release, so one reader sees the writer's stores in      *)
(* order, each after its load's moment; max_height_ is relaxed, and a load *)
(* of it returns any value it has held.  Readers share nothing they write, *)
(* so one stands for all.  A node is its key.                              *)
(***************************************************************************)
EXTENDS Integers, FiniteSetsExt

CONSTANTS
  Keys,      \* the keys a node can have: positive integers
  kMaxHeight

head_ == 0
Null == Max(Keys) + 1   \* nullptr: "null n is considered infinite"
Uninit == -1            \* the memory of a link nobody has stored to
Nodes == Keys \cup {head_}
Levels == 0..(kMaxHeight - 1)

VARIABLES
  next_,       \* [node -> [level -> node, Null or Uninit]]
  max_height_, \* the values max_height_ has held
  w,           \* Insert: [pc, key, x, level, height, prev]
  r,           \* the reader's call: [move, target, x, level]
  node_        \* SkipList::Iterator::node_, Null when not valid

listVars == <<next_, max_height_, w, r, node_>>

Height == Max(max_height_)   \* what the writer, who stored it last, loads

\* The nodes a walk along level 0 meets.
Published == {next_[n][0] : n \in Nodes} \cap Keys

ReaderIdle == [move |-> "none", target |-> Null, x |-> head_, level |-> 0]
NoPrev == [l \in Levels |-> Uninit]
WriterIdle ==
  [pc |-> "idle", key |-> Null, x |-> head_, level |-> 0, height |-> 0, prev |-> NoPrev]

Init ==
  /\ next_ = [n \in Nodes |-> [l \in Levels |-> IF n = head_ THEN Null ELSE Uninit]]
  /\ max_height_ = {1}
  /\ w = WriterIdle
  /\ r = ReaderIdle
  /\ node_ = Null

------------------------------------------------------------------------------
\* Insert(key)

KeyIsAfterOrAt(key, n) == n # Null /\ n <= key \* mutant: the node with the key is passed
KeyIsAfterNode(key, n) == n # Null /\ n < key

StartInsert(key) ==
  /\ w.pc = "idle"
  /\ key \in Keys \ Published
  /\ w' = [WriterIdle EXCEPT !.pc = "search", !.key = key, !.level = Height - 1]
  /\ UNCHANGED <<next_, max_height_, r, node_>>

\* One turn of the loop of FindGreaterOrEqual(key, prev).
FindPrev ==
  /\ w.pc = "search"
  /\ LET n == next_[w.x][w.level] IN
       w' = IF KeyIsAfterNode(w.key, n) THEN [w EXCEPT !.x = n]
            ELSE [w EXCEPT !.prev[w.level] = w.x,
                           !.level = IF @ = 0 THEN 0 ELSE @ - 1,
                           !.pc = IF w.level = 0 THEN "height" ELSE "search"]
  /\ UNCHANGED <<next_, max_height_, r, node_>>

\* RandomHeight, the levels above the old height, max_height_.store, NewNode.
SetHeight ==
  /\ w.pc = "height"
  /\ \E h \in 1..kMaxHeight :
       /\ max_height_' = IF h > Height THEN max_height_ \cup {h} ELSE max_height_
       /\ w' = [w EXCEPT !.pc = "link", !.level = 0, !.height = h,
                         !.prev = [l \in Levels |-> IF l \in Height..(h - 1) THEN head_ ELSE @[l]]]
  /\ UNCHANGED <<next_, r, node_>>

LinkNodeForgotten == \* mutant: the node's own link is not set
  w.pc = "link" /\ w' = [w EXCEPT !.pc = "publish"] /\ UNCHANGED <<next_, max_height_, r, node_>>

\* x->NoBarrier_SetNext(i, prev[i]->NoBarrier_Next(i))
LinkNode ==
  /\ w.pc = "link"
  /\ next_' = [next_ EXCEPT ![w.key][w.level] = next_[w.prev[w.level]][w.level]]
  /\ w' = [w EXCEPT !.pc = "publish"]
  /\ UNCHANGED <<max_height_, r, node_>>

\* prev[i]->SetNext(i, x)
Publish ==
  /\ w.pc = "publish"
  /\ next_' = [next_ EXCEPT ![w.prev[w.level]][w.level] = w.key]
  /\ w' = IF w.level + 1 < w.height THEN [w EXCEPT !.pc = "link", !.level = @ + 1]
          ELSE WriterIdle
  /\ UNCHANGED <<max_height_, r, node_>>

Insert == FindPrev \/ SetHeight \/ LinkNode \/ Publish

------------------------------------------------------------------------------
\* The iterator: SeekToFirst and Next load one link of level 0; Seek, Prev and
\* SeekToLast walk down from the highest level.

OneLink == {"first", "next"}

Begin(move, target) ==
  /\ r.move = "none"
  /\ move \in {"next", "prev"} => node_ # Null /\ target = node_
  /\ \E h \in IF move \in OneLink THEN {1} ELSE max_height_ :
       r' = [move |-> move, target |-> target, level |-> h - 1,
             x |-> IF move = "next" THEN node_ ELSE head_]
  /\ UNCHANGED <<next_, max_height_, w, node_>>

GoesOnToTarget(n) == \* mutant: FindLessThan stops only behind the key
  CASE r.move = "seek" -> KeyIsAfterNode(r.target, n)
    [] r.move = "prev" -> ~(n = Null \/ n > r.target)
    [] r.move = "last" -> n # Null
    [] r.move \in OneLink -> FALSE

\* Does the walk go on along this level, past node n?  FindGreaterOrEqual,
\* FindLessThan (target: the key the iterator stands on), FindLast.
GoesOn(n) ==
  CASE r.move = "seek" -> KeyIsAfterNode(r.target, n)
    [] r.move = "prev" -> ~(n = Null \/ n >= r.target)
    [] r.move = "last" -> n # Null
    [] r.move \in OneLink -> FALSE

OrNull(n) == IF n = head_ THEN Null ELSE n

Load ==
  /\ r.move # "none"
  /\ LET n == next_[r.x][r.level] IN
     \/ /\ GoesOn(n)
        /\ r' = [r EXCEPT !.x = n]
        /\ UNCHANGED node_
     \/ /\ ~GoesOn(n) /\ r.level > 0
        /\ r' = [r EXCEPT !.level = @ - 1]
        /\ UNCHANGED node_
     \/ /\ ~GoesOn(n) /\ r.level = 0
        /\ node_' = IF r.move \in {"prev", "last"} THEN OrNull(r.x) ELSE n
        /\ r' = ReaderIdle
  /\ UNCHANGED <<next_, max_height_, w>>

------------------------------------------------------------------------------
\* The link a reader is about to load has been stored to: no node can be
\* reached on a level before its own link of that level is set, and a reader
\* that starts too high finds head_'s links there.
LinkIsStored == r.move # "none" => next_[r.x][r.level] # Uninit
==============================================================================
