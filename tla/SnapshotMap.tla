----------------------------- MODULE SnapshotMap -----------------------------
(***************************************************************************)
(* What a reader is promised (leveldb/db.h): a map from keys to values, of *)
(* which a snapshot keeps the state of one moment until it is released.    *)
(* The value of a key is the number of the write that gave it, or NotFound.*)
(* No files, no levels, no compactions.                                    *)
(***************************************************************************)
EXTENDS Integers, Sequences

CONSTANTS Keys, NotFound

VARIABLES map, last, snaps

mapVars == <<map, last, snaps>>

Init ==
  /\ map = [k \in Keys |-> NotFound]
  /\ last = 0
  /\ snaps = <<>>

Update(k) ==
  /\ last' = last + 1
  /\ \E v \in {last + 1, NotFound} : map' = [map EXCEPT ![k] = v]
  /\ UNCHANGED snaps

Take == snaps' = Append(snaps, map) /\ UNCHANGED <<map, last>>

Release(i) ==
  /\ snaps' = SubSeq(snaps, 1, i - 1) \o SubSeq(snaps, i + 1, Len(snaps))
  /\ UNCHANGED <<map, last>>

Next ==
  \/ \E k \in Keys : Update(k)
  \/ Take
  \/ \E i \in 1..Len(snaps) : Release(i)

Spec == Init /\ [][Next]_mapVars
==============================================================================
