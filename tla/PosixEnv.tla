------------------------------ MODULE PosixEnv -------------------------------
(***************************************************************************)
(* What PosixEnv (util/env_posix.cc) keeps for the databases of a process: *)
(* the queue of its one background thread, and the files it has locked.    *)
(* Each process has its own Env::Default(); the locks of fcntl belong to   *)
(* the kernel, are those of a process, and go when the process closes any  *)
(* descriptor of the file or ends.                                         *)
(***************************************************************************)
EXTENDS Naturals, Sequences

CONSTANTS
  Procs, Dirs,   \* a directory has one LOCK file
  Databases,     \* what a task is for
  Nobody

VARIABLES
  locked_files_,           \* PosixLockTable, of each process
  kernel,                  \* the process that holds the lock of fcntl
  background_work_queue_,
  thread                   \* the background thread: [pc, arg]

lockVars == <<locked_files_, kernel>>
queueVars == <<background_work_queue_, thread>>

\* pc "none": not started; "loop": before the test of the queue; "waiting";
\* "work": in the function it took.
NoThread == [pc |-> "none", arg |-> Nobody]

EnvInit ==
  /\ locked_files_ = [p \in Procs |-> {}]
  /\ kernel = [d \in Dirs |-> Nobody]
  /\ background_work_queue_ = [p \in Procs |-> <<>>]
  /\ thread = [p \in Procs |-> NoThread]

------------------------------------------------------------------------------
\* Schedule(db): what becomes of the thread, which is signalled only if it found
\* the queue empty.

Signalled(p) ==
  CASE thread[p].pc = "none" -> [NoThread EXCEPT !.pc = "loop"]
    [] thread[p].pc = "waiting" /\ background_work_queue_[p] = <<>> -> [NoThread EXCEPT !.pc = "loop"]
    [] OTHER -> thread[p]

Schedule(p, db) ==
  /\ thread' = [thread EXCEPT ![p] = Signalled(p)]
  /\ background_work_queue_' = [background_work_queue_ EXCEPT ![p] = Append(@, db)]

TakeWorkAfterSignal(p) == \* mutant: the thread waits without a look at the queue
  /\ thread[p].pc = "loop" /\ thread' = [thread EXCEPT ![p].pc = "waiting"]
  /\ UNCHANGED <<background_work_queue_, lockVars>>

\* BackgroundThreadMain, from one Lock to the Unlock or the Wait
TakeWork(p) ==
  /\ thread[p].pc = "loop"
  /\ IF background_work_queue_[p] = <<>>
     THEN /\ thread' = [thread EXCEPT ![p].pc = "waiting"]
          /\ UNCHANGED background_work_queue_
     ELSE /\ thread' = [thread EXCEPT ![p] = [pc |-> "work", arg |-> Head(background_work_queue_[p])]]
          /\ background_work_queue_' = [background_work_queue_ EXCEPT ![p] = Tail(@)]
  /\ UNCHANGED lockVars

SpuriousWakeup(p) ==
  /\ thread[p].pc = "waiting"
  /\ thread' = [thread EXCEPT ![p].pc = "loop"]
  /\ UNCHANGED <<background_work_queue_, lockVars>>

------------------------------------------------------------------------------
\* LockFile and UnlockFile, one call of the kernel or of the table at a time

\* PosixLockTable::Insert: whether it succeeds
CanInsertAlways(p, d) == TRUE \* mutant: the table is not asked
CanInsert(p, d) == d \notin locked_files_[p]
Insert(p, d) == locked_files_' = [locked_files_ EXCEPT ![p] = @ \cup {d}] /\ UNCHANGED kernel
Remove(p, d) == locked_files_' = [locked_files_ EXCEPT ![p] = @ \ {d}] /\ UNCHANGED kernel

\* fcntl(F_SETLK)
CanLock(p, d) == kernel[d] \in {Nobody, p}
Lock(p, d) == kernel' = [kernel EXCEPT ![d] = p] /\ UNCHANGED locked_files_
Unlock(p, d) ==
  /\ kernel' = [kernel EXCEPT ![d] = IF @ = p THEN Nobody ELSE @]
  /\ UNCHANGED locked_files_

\* close() drops the process's lock, whichever descriptor took it.
Close(p, d) == Unlock(p, d)

ProcessEnds(p) ==
  /\ locked_files_' = [locked_files_ EXCEPT ![p] = {}]
  /\ kernel' = [d \in Dirs |-> IF kernel[d] = p THEN Nobody ELSE kernel[d]]
  /\ background_work_queue_' = [background_work_queue_ EXCEPT ![p] = <<>>]
  /\ thread' = [thread EXCEPT ![p] = NoThread]
==============================================================================
