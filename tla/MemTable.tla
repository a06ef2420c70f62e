------------------------------- MODULE MemTable ------------------------------
(***************************************************************************)
(* A memory table (db/memtable.cc): internal keys, a user key and the      *)
(* sequence of the write, in a skip list that orders the newest entry of a *)
(* user key first.  Add is called with growing sequences by one writer at a*)
(* time; Get and the iterators run beside it.  The value and its type are  *)
(* the entry itself.                                                       *)
(***************************************************************************)
EXTENDS Integers, FiniteSetsExt

CONSTANTS
  UserKeys,      \* 1..n
  kMaxHeight,
  MaxSequence    \* BOUND: entries added

ASSUME MemTableAssumption ==
  /\ UserKeys \subseteq Nat \ {0} /\ \E n \in UserKeys : \A u \in UserKeys : u <= n
  /\ kMaxHeight \in Nat \ {0} /\ MaxSequence \in Nat \ {0}

Sequences == 1..MaxSequence

\* The number of an internal key in InternalKeyComparator's order: by user key,
\* then by decreasing sequence.
InternalKey(u, s) == u * (MaxSequence + 1) - s

Keys == {InternalKey(u, s) : u \in UserKeys, s \in Sequences}

VARIABLES
  next_, max_height_, w, r, node_,
  last,     \* VersionSet::LastSequence: the entries a new reader must see
  written   \* HISTORY: the internal keys added

INSTANCE SkipList

memVars == <<next_, max_height_, w, r, node_, last, written>>

MemInit == Init /\ last = 0 /\ written = {}

\* MemTable::Add, from WriteBatch::InsertInto; the entry's sequence becomes
\* visible when the insertion is over and the writer holds the mutex again.
Add(u) ==
  /\ Cardinality(written) = last /\ last < MaxSequence
  /\ StartInsert(InternalKey(u, last + 1))
  /\ written' = written \cup {InternalKey(u, last + 1)}
  /\ UNCHANGED last

InsertStep == Insert /\ UNCHANGED <<last, written>>

SetLastSequence ==
  /\ w.pc = "idle" /\ last < Cardinality(written)
  /\ last' = last + 1
  /\ UNCHANGED <<next_, max_height_, w, r, node_, written>>

\* MemTable::Get and MemTableIterator::Seek: the first entry at or after
\* (u, s), for a sequence s that is visible.
Get(u, s) == s \in 0..last /\ Begin("seek", InternalKey(u, s)) /\ UNCHANGED <<last, written>>

\* MemTableIterator
Move(m) ==
  /\ Begin(m, IF m \in {"next", "prev"} THEN node_ ELSE Null)
  /\ UNCHANGED <<last, written>>

ReadStep == Load /\ UNCHANGED <<last, written>>

MemNext ==
  \/ \E u \in UserKeys : Add(u)
  \/ InsertStep
  \/ SetLastSequence
  \/ \E u \in UserKeys, s \in Sequences : Get(u, s)
  \/ \E m \in {"first", "next", "prev", "last"} : Move(m)
  \/ ReadStep

Spec == MemInit /\ [][MemNext]_memVars

abs == INSTANCE SortedSet WITH
  None <- Null, set <- Published, node <- node_,
  call <- [move |-> r.move, target |-> r.target]

\* Each move of the iterator happens at one moment between its call and its
\* return, in a set that already holds every key whose Insert returned: what
\* the comment of Insert about max_height_ claims, and what a Get and an
\* iterator of the database rely on while the memory table grows.
ImplementsSortedSet == abs!Spec

UserOf(k) == (k + MaxSequence) \div (MaxSequence + 1)

\* MemTable::Get answers for its snapshot whatever is inserted meanwhile: it
\* finds the newest entry of the user key that is no newer than the snapshot
\* exactly when there is one, and never one added after the call began.
GetFindsNewest ==
  [][r.move = "seek" /\ r'.move = "none" =>
       LET u == UserOf(r.target)
           seen == {k \in written : UserOf(k) = u /\ k >= r.target}
       IN  IF seen = {} THEN node_' = Null \/ UserOf(node_') # u ELSE node_' = Min(seen)]_memVars
==============================================================================
