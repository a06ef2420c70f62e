----------------------------- MODULE AtomicStore -----------------------------
(***************************************************************************)
(* What concurrent Writes promise their callers (leveldb/db.h, Write and   *)
(* WriteBatch): each call's updates take effect all at once, at one moment *)
(* between the call and its return, or never if it does not return OK; and *)
(* updates get consecutive sequence numbers, in the order they take effect.*)
(* Nothing here says how: no queue, no groups, no log, no memtable.        *)
(***************************************************************************)
EXTENDS Integers

CONSTANTS Threads, NoCall

VARIABLES
  contents, \* the updates that have taken effect: [seq, op, i]
  last,     \* the last sequence number used
  call,     \* the Write each thread is in, [op, count], or NoCall
  replied   \* the operations whose Write returned OK

storeVars == <<contents, last, call, replied>>

Init ==
  /\ contents = {} /\ last = 0
  /\ call = [t \in Threads |-> NoCall]
  /\ replied = {}

Applied(t) == \E e \in contents : e.op = call[t].op

Call(t) ==
  /\ call[t] = NoCall /\ call'[t] # NoCall
  /\ call' = [call EXCEPT ![t] = call'[t]]
  /\ \A e \in contents : e.op # call'[t].op
  /\ UNCHANGED <<contents, last, replied>>

\* The pending calls of the threads in S take effect: they share out the
\* numbers from last to last', each a run of its own and none left over.
Apply(S) ==
  /\ \A t \in S : call[t] # NoCall /\ ~Applied(t)
  /\ last' >= last
  /\ \E base \in [S -> last..last'] :
       LET run(t) == (base[t] + 1)..(base[t] + call[t].count)
       IN  /\ \A t, u \in S : t # u => run(t) \cap run(u) = {}
           /\ UNION {run(t) : t \in S} = (last + 1)..last'
           /\ contents' = contents \cup UNION
                {{[seq |-> s, op |-> call[t].op, i |-> s - base[t]] : s \in run(t)} : t \in S}
  /\ UNCHANGED <<call, replied>>

\* Numbers of calls that failed are used up.
Skip == last' > last /\ UNCHANGED <<contents, call, replied>>

\* OK exactly when the call took effect (a batch without updates has none to
\* show); otherwise it never will.
Return(t) ==
  /\ call[t] # NoCall
  /\ \/ (Applied(t) \/ call[t].count = 0) /\ replied' = replied \cup {call[t].op}
     \/ ~Applied(t) /\ replied' = replied
  /\ call' = [call EXCEPT ![t] = NoCall]
  /\ UNCHANGED <<contents, last>>

Next ==
  \/ \E t \in Threads : Call(t) \/ Return(t)
  \/ \E S \in (SUBSET Threads) \ {{}} : Apply(S)
  \/ Skip

Spec == Init /\ [][Next]_storeVars
==============================================================================
