----------------------------- MODULE MC_Process ------------------------------
(***************************************************************************)
(* Three database objects in two processes.                                *)
(***************************************************************************)
EXTENDS Process, TLC

CONSTANTS p1, p2, d1, d2, t1, t2, t3

TwoAndOne == t1 :> p1 @@ t2 :> p1 @@ t3 :> p2

\* The two of one process on one directory; or one of each process on one.
Apart == {t1 :> d1 @@ t2 :> d1 @@ t3 :> d2, t1 :> d1 @@ t2 :> d2 @@ t3 :> d1}
\* All three on one
Together == {t1 :> d1 @@ t2 :> d1 @@ t3 :> d1}
==============================================================================
