---------------------------- MODULE DurableStore ----------------------------
(***************************************************************************)
(* What a database promises about crashes.  Its contents are a set of      *)
(* operations.  An operation is there from the moment it is acknowledged;  *)
(* one that is not acknowledged may or may not turn up.  Only a power      *)
(* failure takes something away, never what was acknowledged with sync,    *)
(* and what it has taken does not come back.                               *)
(***************************************************************************)
VARIABLES contents, acked, synced, losses

storeVars == <<contents, acked, synced, losses>>

Init == contents = {} /\ acked = {} /\ synced = {} /\ losses = 0

Next ==
  \E new \in {contents' \ contents}, lost \in {contents \ contents'} :
    /\ new \cap acked = {}
    /\ \/ /\ lost = {}
          /\ acked \subseteq acked' /\ synced \subseteq synced' /\ synced' \subseteq acked'
          /\ acked' \ acked \subseteq contents \cup new
          /\ UNCHANGED losses
       \/ /\ losses' # losses
          /\ lost \cap synced = {}
          /\ UNCHANGED <<acked, synced>>

Spec == Init /\ [][Next]_storeVars
==============================================================================
