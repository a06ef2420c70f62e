------------------------------ MODULE MC_DBImpl ------------------------------
(***************************************************************************)
(* The instances of DBImpl that TLC checks: each set of requests makes one *)
(* kind of interleaving happen.                                            *)
(***************************************************************************)
EXTENDS DBImpl, TLC

Put(count, bytes, sync) ==
  [kind |-> "write", count |-> count, bytes |-> bytes, sync |-> sync]
Compact == [kind |-> "compact", count |-> 0, bytes |-> 0, sync |-> FALSE]
Read == [kind |-> "get", count |-> 0, bytes |-> 0, sync |-> FALSE]

AllRequests == {Put(1, 1, TRUE), Put(1, 1, FALSE), Put(2, 2, FALSE), Compact, Read}
LiveRequests == {Put(1, 1, TRUE), Compact, Read}

Symmetry == Permutations(Threads)
==============================================================================
