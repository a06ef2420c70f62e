----------------------------- MODULE SortedSet ------------------------------
(***************************************************************************)
(* What the memory table's list promises its readers: a set of keys that   *)
(* only grows, and an iterator each of whose moves happens at one moment   *)
(* between its call and its return, as if the list stood still.            *)
(***************************************************************************)
EXTENDS Integers, FiniteSetsExt

CONSTANTS Keys, None

Moves == {"first", "next", "seek", "prev", "last"}

VARIABLES
  set,   \* the keys in the set
  call,  \* the move in progress: [move, target], or [move |-> "none", ...]
  node   \* where the iterator stands, None when it is not valid

setVars == <<set, call, node>>

Idle == [move |-> "none", target |-> None]

Least(S) == IF S = {} THEN None ELSE Min(S)
Greatest(S) == IF S = {} THEN None ELSE Max(S)

\* Where a move takes the iterator.
Answer(c) ==
  CASE c.move = "first" -> Least(set)
    [] c.move = "seek"  -> Least({k \in set : k >= c.target})
    [] c.move = "next"  -> Least({k \in set : k > c.target})
    [] c.move = "prev"  -> Greatest({k \in set : k < c.target})
    [] c.move = "last"  -> Greatest(set)

Init == set \subseteq Keys /\ call = Idle /\ node = None

Insert(k) == k \notin set /\ set' = set \cup {k} /\ UNCHANGED <<call, node>>

Begin(m, t) ==
  /\ call = Idle
  /\ m \in {"next", "prev"} => node # None /\ t = node
  /\ call' = [move |-> m, target |-> t]
  /\ UNCHANGED <<set, node>>

Return == call # Idle /\ node' = Answer(call) /\ call' = Idle /\ UNCHANGED set

Next ==
  \/ \E k \in Keys : Insert(k)
  \/ \E m \in Moves, t \in Keys \cup {None} : Begin(m, t)
  \/ Return

Spec == Init /\ [][Next]_setVars
==============================================================================
