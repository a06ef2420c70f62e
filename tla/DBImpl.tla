-------------------------------- MODULE DBImpl --------------------------------
(***************************************************************************)
(* One open DBImpl: its callers and its background thread together, and    *)
(* what must hold of them.                                                 *)
(***************************************************************************)
EXTENDS DBWriters, DBCompactions

Init == InitState
Next == (\E t \in Threads : Caller(t)) \/ BackgroundThread

(***************************************************************************)
(* Fairness.  A thread that runs keeps running; one that waits on a        *)
(* condition variable runs on only when it was signalled (spurious wakeups *)
(* happen but are not to be relied on).  The mutex is strongly fair: who   *)
(* finds it free again and again gets it.  New calls are never forced.     *)
(***************************************************************************)
MustRun(t) ==
  \/ RoomError(t) \/ RoomSlowdown(t) \/ RoomFound(t) \/ RoomWait(t)
  \/ RoomSwitch(t) \/ RoomSwitchFails(t) \/ GroupJoin(t) \/ GroupBuilt(t)
  \/ LogRecord(t) \/ SyncLog(t) \/ InsertEntry(t) \/ Commit(t) \/ Finish(t)
  \/ GetEnd(t)
  \/ pc[t] = "delay" /\ WakeRoom(t)
  \/ pc[t] = "flush" /\ FlushWait(t)
  \/ pc[t] = "manual" /\ ManualCompact(t)
  \/ t \in awake /\ (\/ WakeQueued(t) \/ WakeRoom(t) \/ FlushWait(t)
                     \/ ManualCompact(t) \/ Close(t))

Fairness ==
  /\ \A t \in Threads : SF_vars(MustRun(t))
  /\ SF_vars(BackgroundThread)

Spec == Init /\ [][Next]_vars
FairSpec == Spec /\ Fairness

(***************************************************************************)
(* Types.                                                                  *)
(***************************************************************************)
CallersOK ==
  /\ mutex \in Threads \cup {Null}
  /\ pc \in [Threads -> CallerPCs]
  /\ req \in [Threads -> RequestSpace]
  /\ opn \in [Threads -> Nat]
  /\ awake \subseteq Threads

QueueOK ==
  /\ writers \in Seq(Threads)
  /\ done \in [Threads -> BOOLEAN]
  /\ status \in [Threads -> BOOLEAN]
  /\ force \in [Threads -> BOOLEAN]
  /\ delay \in [Threads -> BOOLEAN]
  /\ group \in [Threads -> Group]

DataOK ==
  /\ lastSequence \in Nat
  /\ mem \subseteq Entry /\ imm \subseteq Entry /\ hasImm \in BOOLEAN
  /\ log \subseteq Entry /\ synced \subseteq Entry /\ tables \subseteq Entry

BackgroundOK ==
  /\ bgError \in {"ok", "bg", "sync"}
  /\ bgScheduled \in BOOLEAN
  /\ bg \in Background
  /\ level0 \in Nat /\ due \in BOOLEAN /\ fresh \subseteq Threads
  /\ manual \in Threads \cup {Null}
  /\ mdone \in [Threads -> BOOLEAN]
  /\ mlevels \in [Threads -> Nat]
  /\ mpieces \in [Threads -> Nat]
  /\ shuttingDown \in BOOLEAN
  /\ faults \in Nat /\ extra \in Nat
  /\ acked \subseteq [op : Op, count : Nat, sync : BOOLEAN]

\* Every variable of the model has its type: no level has a negative number
\* of files, no Writer a status nobody gave it.
TypeOK == CallersOK /\ QueueOK /\ DataOK /\ BackgroundOK

(***************************************************************************)
(* The writer queue and the critical sections.                             *)
(***************************************************************************)
Holding == {"room", "group", "finish"}
Leading == Holding \cup {"delay", "roomwait"} \cup Unlocked

\* "&w is currently responsible for logging and protects against concurrent
\* loggers and concurrent writes into mem_" (Write): whoever is past the
\* queue, unlocked or waiting for room included, is its first writer, so no
\* two threads use log_, logfile_, mem_ and tmp_batch_ at once.
LeaderIsHead ==
  \A t \in Threads : pc[t] \in Leading => writers # <<>> /\ Head(writers) = t

\* A thread waits in writers_ at most once, and it is there exactly while it
\* leads or is neither first nor done: nobody stays behind in the queue after
\* the return of its Write, and nobody is dropped from it without a status.
QueueMembers ==
  /\ \A i, j \in 1..Len(writers) : writers[i] = writers[j] => i = j
  /\ \A t \in Threads :
       (\E i \in 1..Len(writers) : writers[i] = t)
         <=> (pc[t] \in Leading \/ (pc[t] = "queued" /\ ~done[t]))

\* The strengthening that makes the above inductive: the mutex is held across
\* steps exactly where Write holds it, and a group is a prefix of the queue.
MutexOwner == \A t \in Threads : pc[t] \in Holding <=> mutex = t
Grouped == {"group", "finish"} \cup Unlocked
GroupFits == \A t \in Threads : pc[t] \in Grouped => group[t].size \in 1..Len(writers)

\* ... and so that the counters stay natural numbers: the compaction's inputs
\* are among level 0's files until it is installed, and a CompactRange call
\* has a level left to visit.
InputsFit == (bg.pc = "gc" /\ bg.kind # "memtable") \/ bg.inputs <= level0
LevelsLeft ==
  \A t \in Threads : pc[t] \notin {"idle", "get", "closed", "closewait"} => mlevels[t] > 0

\* Nobody sleeps through its turn: the first writer, and a writer whose group
\* is finished, have been signalled on their own condition variable.
NoLostSignal ==
  \A t \in Threads :
    pc[t] = "queued" /\ (done[t] \/ Head(writers) = t) => t \in awake

(***************************************************************************)
(* What a batch becomes.                                                   *)
(***************************************************************************)
\* No two updates share a sequence number, in the memtables, the tables or the
\* log, whatever fails: Write uses a failed group's numbers up.
SequencesUnique ==
  \A e, f \in Stored \cup log : e.seq = f.seq => e = f

\* What a read at a sequence number sees does not change afterwards: no write
\* goes below LastSequence(), and moving a memtable to a table loses nothing.
SnapshotStable ==
  [][{e \in Stored' : e.seq <= lastSequence} = Visible(lastSequence)]_vars

\* A sync Write returns OK only once its updates are in the log file and the
\* file has been fsynced, also when another thread wrote them for it.
AckedSynced ==
  \A a \in acked : a.sync => \A i \in 1..a.count :
    \E e \in synced : e.op = a.op /\ e.i = i

\* Write-ahead: what is in the memtable is in the current log file.
WriteAhead == mem \subseteq log

\* "So we force the DB into a mode where all future writes fail" (Write): once
\* a failed fsync left the log indeterminate nothing more is logged.
NoLogAfterSyncError == [][bgError = "sync" => log' = log]_vars

(***************************************************************************)
(* Background work.                                                        *)
(***************************************************************************)
\* Work that only the background thread can do is never left unscheduled: a
\* full memtable, a manual compaction or a level over its limit means that a
\* call is scheduled, unless an error or the shutdown stops background work.
WorkIsScheduled ==
  (hasImm \/ manual # Null \/ NeedsCompaction) /\ bgError = "ok" /\ ~shuttingDown
    /\ mutex = Null => bgScheduled

\* BackgroundCompaction tests manual_compaction_ once, gives up the mutex while
\* it compacts and writes the outcome through the pointer afterwards: while no
\* error is recorded the call it points to is still there, waiting, whatever
\* other CompactRange calls come and go.  (Once one is, TEST_CompactRange gives
\* up and clears the pointer under the compaction that still runs.)
ManualPointerValid ==
  bg.manual \/ bg.pc = "crashed" =>
    bgError # "ok" \/ (manual # Null /\ pc[manual] = "manualwait")

(***************************************************************************)
(* The queue, the groups, the log and the memtables implement AtomicStore: *)
(* a Write is in progress from its push on the queue to its return, and    *)
(* its updates have taken effect when LastSequence() covers them.          *)
(***************************************************************************)
InWrite(t) == req[t].kind = "write" /\ pc[t] \in Leading \cup {"queued"}

Atomic == INSTANCE AtomicStore WITH
  NoCall <- Null,
  contents <- Visible(lastSequence),
  last <- lastSequence,
  call <- [t \in Threads |-> IF InWrite(t)
                             THEN [op |-> <<t, opn[t]>>, count |-> req[t].count]
                             ELSE Null],
  replied <- {a.op : a \in acked}

\* Every interleaving of Writes, failed log records and syncs, flushes and
\* compactions looks like writes that take effect one after the other, each
\* at one moment, and return OK only if they did.
ImplementsAtomicStore == Atomic!Spec

\* Every call returns: Write, Get, CompactRange and the destructor, unless the
\* background thread dies of a null manual_compaction_ after an error.
EveryCallReturns ==
  \A t \in Threads :
    pc[t] # "idle" ~> pc[t] \in {"idle", "closed"} \/ bg.pc = "crashed"
==============================================================================
