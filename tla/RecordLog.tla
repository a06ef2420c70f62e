------------------------------ MODULE RecordLog ------------------------------
(***************************************************************************)
(* What a log file promises its users: a sequence of records, numbered in  *)
(* the order they are added, each there as a whole or not at all and from  *)
(* the moment it is acknowledged; a crash takes some of the last ones.     *)
(* Behind an unfinished record, or a failure, nothing is promised.         *)
(***************************************************************************)
EXTENDS Integers

VARIABLES records, acked, broken

logVars == <<records, acked, broken>>

Init == records = {} /\ acked = {} /\ broken = FALSE

Add ==
  \E r \in acked' \ acked :
    /\ acked' = acked \cup {r}
    /\ \A q \in acked : q < r
    /\ \/ records' = records \cup {r}
       \/ broken' /\ records' = records
    /\ broken => broken'

Lose ==
  /\ records' \subseteq records
  /\ \A r \in records', q \in records \ records' : r < q
  /\ UNCHANGED acked

Next == Add \/ Lose

Spec == Init /\ [][Next]_logVars
==============================================================================
