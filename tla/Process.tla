------------------------------- MODULE Process -------------------------------
(***************************************************************************)
(* The databases of several processes, from the DVECLevelDB object that    *)
(* opens one to its dealloc: which of them has a directory, which has the  *)
(* background thread, and which of the objects made for it still exist.    *)
(* What a database does while it is open is DBImpl's matter; here it       *)
(* schedules work and hands out snapshots and write batches.               *)
(***************************************************************************)
EXTENDS PosixEnv, FiniteSets

CONSTANTS
  ProcOf,       \* the process each database object lives in
  Places,       \* which directory each opens: one of these assignments
  MaxHandles    \* BOUND: handles of one database at a time

ASSUME ProcessAssumption ==
  ProcOf \in [Databases -> Procs] /\ Places \subseteq [Databases -> Dirs] /\ Nobody \notin Procs

VARIABLES
  place,
  db,           \* of each database: [pc, app, handles]
  scheduled     \* background_compaction_scheduled_

dbVars == <<place, db, scheduled>>
vars == <<dbVars, lockVars, queueVars>>

NoObject == [pc |-> "none", app |-> FALSE, handles |-> 0]

Init ==
  /\ EnvInit
  /\ place \in Places
  /\ db = [t \in Databases |-> NoObject]
  /\ scheduled = [t \in Databases |-> FALSE]

At(t, pc) == db[t].pc = pc
Goto(t, pc) == db' = [db EXCEPT ![t].pc = pc]
Step(t, from, to) == At(t, from) /\ Goto(t, to) /\ UNCHANGED <<place, scheduled, queueVars>>
Dir(t) == place[t]
Proc(t) == ProcOf[t]
shutting_down_(t) == At(t, "deleting")

------------------------------------------------------------------------------
\* initWithDirectoryURL, DB::Open

\* The comparator, the logger, the filter policy and the block cache that its
\* options refer to, new DBImpl, and LockFile's open()
InitDatabase(t) ==
  /\ At(t, "none")
  /\ db' = [db EXCEPT ![t] = [NoObject EXCEPT !.pc = "fd", !.app = TRUE]]
  /\ UNCHANGED <<place, scheduled, lockVars, queueVars>>

InsertLock(t) ==
  \/ CanInsert(Proc(t), Dir(t)) /\ Step(t, "fd", "inserted") /\ Insert(Proc(t), Dir(t))
  \/ ~CanInsert(Proc(t), Dir(t)) /\ Step(t, "fd", "held_by_process") /\ UNCHANGED lockVars

LockHeldByProcess(t) == Step(t, "held_by_process", "dealloc") /\ Close(Proc(t), Dir(t))

AcquireLock(t) ==
  \/ CanLock(Proc(t), Dir(t)) /\ Step(t, "inserted", "recovering") /\ Lock(Proc(t), Dir(t))
  \/ ~CanLock(Proc(t), Dir(t)) /\ Step(t, "inserted", "held_by_other") /\ UNCHANGED lockVars

LockHeldByOther(t) == Step(t, "held_by_other", "not_locked") /\ Close(Proc(t), Dir(t))
RemoveLock(t) == Step(t, "not_locked", "dealloc") /\ Remove(Proc(t), Dir(t))

\* MaybeScheduleCompaction where there is work
ScheduleWork(t) ==
  /\ ~scheduled[t] /\ ~shutting_down_(t)
  /\ scheduled' = [scheduled EXCEPT ![t] = TRUE]
  /\ Schedule(Proc(t), t)

Opened(t) ==
  /\ At(t, "recovering") /\ Goto(t, "open")
  /\ ScheduleWork(t) \/ UNCHANGED <<scheduled, queueVars>>
  /\ UNCHANGED <<place, lockVars>>

\* The rest of Recover or of Open fails: delete impl, which has the lock.
OpenFails(t) ==
  /\ At(t, "recovering") /\ Goto(t, "deleting")
  /\ UNCHANGED <<place, scheduled, lockVars, queueVars>>

------------------------------------------------------------------------------
\* While it is open

\* A write fills a memory table, or a read wears out a file.
WorkArises(t) == At(t, "open") /\ ScheduleWork(t) /\ UNCHANGED <<place, db, lockVars>>

\* DVECLevelDBSnapshot and DVECLevelDBWriteBatch keep the database.
Use(t, d) == At(t, "open") /\ db' = [db EXCEPT ![t] = d] /\ UNCHANGED <<place, scheduled, lockVars, queueVars>>

MakeHandle(t) == db[t].app /\ db[t].handles < MaxHandles /\ Use(t, [db[t] EXCEPT !.handles = @ + 1])

\* ARC: dealloc with the last reference; ~DBImpl sets shutting_down_
ReleasedByApp(d) == IF d.app THEN d ELSE [d EXCEPT !.pc = "deleting"] \* mutant: a handle does not keep the database
Released(d) == IF d.app \/ d.handles > 0 THEN d ELSE [d EXCEPT !.pc = "deleting"]
DropReference(t) == db[t].app /\ Use(t, Released([db[t] EXCEPT !.app = FALSE]))
DropHandle(t) == db[t].handles > 0 /\ Use(t, Released([db[t] EXCEPT !.handles = @ - 1]))

\* BackgroundCall for the task at hand, which keeps mutex_ but for the long work
BackgroundCall(p) ==
  /\ thread[p].pc = "work"
  /\ LET t == thread[p].arg IN
       /\ UNCHANGED <<place, db, lockVars>>
       /\ \/ \* Done, or shutting down, or bg_error_
             /\ scheduled' = [scheduled EXCEPT ![t] = FALSE]
             /\ thread' = [thread EXCEPT ![p] = [pc |-> "loop", arg |-> Nobody]]
             /\ UNCHANGED background_work_queue_
          \/ \* MaybeScheduleCompaction finds more
             /\ ~shutting_down_(t)
             /\ background_work_queue_' = [background_work_queue_ EXCEPT ![p] = Append(@, t)]
             /\ thread' = [thread EXCEPT ![p] = [pc |-> "loop", arg |-> Nobody]]
             /\ UNCHANGED scheduled

------------------------------------------------------------------------------
\* dealloc: ~DBImpl, then the native objects

\* The wait for background work, then UnlockFile
ReleaseLock(t) == ~scheduled[t] /\ Step(t, "deleting", "unlocked") /\ Unlock(Proc(t), Dir(t))
ForgetLock(t) == Step(t, "unlocked", "forgotten") /\ Remove(Proc(t), Dir(t))
CloseLock(t) == Step(t, "forgotten", "closed") /\ Close(Proc(t), Dir(t))

\* versions_, the memory tables, the log and table_cache_ go
DeleteVersions(t) == Step(t, "closed", "dealloc") /\ UNCHANGED lockVars

\* the objects of InitDatabase, which only this DBImpl used
DeleteNative(t) ==
  /\ At(t, "dealloc")
  /\ db' = [db EXCEPT ![t] = NoObject]
  /\ UNCHANGED <<place, scheduled, lockVars, queueVars>>

\* A process ends, however it does: everything in it is gone.
ProcessDies(p) ==
  /\ \E t \in Databases : Proc(t) = p /\ ~At(t, "none")
  /\ ProcessEnds(p)
  /\ db' = [t \in Databases |-> IF Proc(t) = p THEN NoObject ELSE db[t]]
  /\ scheduled' = [t \in Databases |-> Proc(t) # p /\ scheduled[t]]
  /\ UNCHANGED place

------------------------------------------------------------------------------
DeleteStep(t) ==
  ReleaseLock(t) \/ ForgetLock(t) \/ CloseLock(t) \/ DeleteVersions(t) \/ DeleteNative(t)
OpenStep(t) ==
  \/ InitDatabase(t) \/ InsertLock(t) \/ LockHeldByProcess(t) \/ AcquireLock(t) \/ LockHeldByOther(t)
  \/ RemoveLock(t) \/ Opened(t) \/ OpenFails(t)
UseStep(t) ==
  WorkArises(t) \/ MakeHandle(t) \/ DropReference(t) \/ DropHandle(t)
ThreadStep(p) == (TakeWork(p) /\ UNCHANGED dbVars) \/ BackgroundCall(p)

Next ==
  \/ \E t \in Databases : OpenStep(t) \/ UseStep(t) \/ DeleteStep(t)
  \/ \E p \in Procs : ThreadStep(p) \/ (SpuriousWakeup(p) /\ UNCHANGED dbVars) \/ ProcessDies(p)

Spec == Init /\ [][Next]_vars

\* The background thread and a thread in dealloc run on; nobody is obliged to
\* open, use or release a database.
FairSpec ==
  /\ Spec
  /\ \A p \in Procs : WF_vars(ThreadStep(p))
  /\ \A t \in Databases : WF_vars(DeleteStep(t))

------------------------------------------------------------------------------
\* Properties

Owns(t) == db[t].pc \in {"recovering", "open", "deleting"}

\* LockFile: "Used to prevent concurrent access to the same db by multiple
\* processes", and by two databases of one process: from Recover to the end of
\* the background work one database has the directory.
OneOwner == \A t, u \in Databases : t # u /\ Owns(t) /\ Owns(u) => Dir(t) # Dir(u)

\* dealloc, ARC and the wait of ~DBImpl: a database that somebody may still
\* call - through a snapshot, a write batch, or as the argument of a task that
\* runs or is queued - has its DBImpl and the objects that refers to.
UsesExist ==
  /\ \A t \in Databases : db[t].handles > 0 => At(t, "open")
  /\ \A p \in Procs : thread[p].pc = "work" => Owns(thread[p].arg)
  /\ \A p \in Procs : \A i \in 1..Len(background_work_queue_[p]) : Owns(background_work_queue_[p][i])

\* Schedule signals only when the queue is empty, and one thread serves all
\* databases of the process: every task still leaves the queue, and the
\* destructor that waits for its task ends.
Queued(t) == \E i \in 1..Len(background_work_queue_[Proc(t)]) : background_work_queue_[Proc(t)][i] = t
EveryTaskRuns ==
  \A t \in Databases : (Queued(t) ~> ~Queued(t)) /\ (At(t, "deleting") ~> At(t, "none"))
==============================================================================
