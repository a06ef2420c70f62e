----------------------------- MODULE ProcessProofs -----------------------------
(***************************************************************************)
(* Who has a directory and what still exists, for any number of processes, *)
(* directories, databases and handles.                                     *)
(***************************************************************************)
EXTENDS Process, SequenceTheorems, TLAPS

(***************************************************************************)
(* Types.                                                                  *)
(***************************************************************************)
DatabasePCs ==
  {"none", "fd", "inserted", "held_by_process", "held_by_other", "not_locked", "recovering",
   "open", "deleting", "unlocked", "forgotten", "closed", "dealloc"}
Object == [pc : DatabasePCs, app : BOOLEAN, handles : Nat]
Thread ==
  [pc : {"none", "loop", "waiting"}, arg : Databases \cup {Nobody}] \cup [pc : {"work"}, arg : Databases]

DbTyped ==
  place \in Places /\ db \in [Databases -> Object] /\ scheduled \in [Databases -> BOOLEAN]
LocksTyped ==
  /\ locked_files_ \in [Procs -> SUBSET Dirs]
  /\ kernel \in [Dirs -> Procs \cup {Nobody}]
QueueTyped ==
  /\ background_work_queue_ \in [Procs -> Seq(Databases)]
  /\ thread \in [Procs -> Thread]
Typed == DbTyped /\ LocksTyped /\ QueueTyped

LEMMA Constants ==
  ASSUME Typed, NEW t \in Databases
  PROVE  Proc(t) \in Procs /\ Dir(t) \in Dirs /\ Nobody \notin Procs
BY ProcessAssumption DEF Typed, DbTyped, Proc, Dir

\* A database step is of one object; the directories stay.
LEMMA DatabaseFrame ==
  ASSUME Typed, NEW t \in Databases, OpenStep(t) \/ UseStep(t) \/ DeleteStep(t)
  PROVE  place' = place /\ \A u \in Databases \ {t} : db'[u] = db[u]
<1>1. db \in [Databases -> Object]
  BY DEF Typed, DbTyped
<1>2. place' = place
  BY DEF OpenStep, InitDatabase, InsertLock, LockHeldByProcess, AcquireLock, LockHeldByOther,
     RemoveLock, Opened, OpenFails, UseStep, WorkArises, MakeHandle, DropReference, DropHandle,
     Use, DeleteStep, ReleaseLock, ForgetLock, CloseLock, DeleteVersions, DeleteNative, Step
<1>3. \A u \in Databases \ {t} : db'[u] = db[u]
  <2>1. db' = db \/ \E x : db' = [db EXCEPT ![t] = x]
    BY DEF OpenStep, InitDatabase, InsertLock, LockHeldByProcess, AcquireLock, LockHeldByOther,
       RemoveLock, Opened, OpenFails, UseStep, WorkArises, MakeHandle, DropReference, DropHandle,
       Use, DeleteStep, ReleaseLock, ForgetLock, CloseLock, DeleteVersions, DeleteNative, Step,
       Goto
  <2>2. QED  BY <1>1, <2>1
<1>4. QED  BY <1>2, <1>3

LEMMA TypedStep == Typed /\ [Next]_vars => Typed'
<1> SUFFICES ASSUME Typed, [Next]_vars PROVE Typed'
  OBVIOUS
<1> USE DEF Typed
<1>1. CASE UNCHANGED vars
  BY <1>1 DEF vars, dbVars, lockVars, queueVars, DbTyped, LocksTyped, QueueTyped
<1>2. ASSUME NEW t \in Databases, OpenStep(t) \/ UseStep(t) \/ DeleteStep(t) PROVE Typed'
  <2>1. Proc(t) \in Procs /\ Dir(t) \in Dirs
    BY Constants
  <2>2. DbTyped'
    <3>1. \A x \in DatabasePCs : [db[t] EXCEPT !.pc = x] \in Object
      BY DEF DbTyped, Object
    <3>2. NoObject \in Object /\ [[NoObject EXCEPT !.pc = "fd"] EXCEPT !.app = TRUE] \in Object
      BY DEF NoObject, Object, DatabasePCs
    <3>3. \/ db' = db \/ \E x \in Object : db' = [db EXCEPT ![t] = x]
      <4>1. CASE UseStep(t)
        <5>1. \A d \in Object : Released(d) \in Object
          BY DEF Released, Object, DatabasePCs
        <5>2. /\ [db[t] EXCEPT !.handles = @ + 1] \in Object
              /\ [db[t] EXCEPT !.app = FALSE] \in Object
              /\ db[t].handles > 0 => [db[t] EXCEPT !.handles = @ - 1] \in Object
          <6>1. db[t] \in Object
            BY DEF DbTyped
          <6>2. db[t].handles + 1 \in Nat /\ (db[t].handles > 0 => db[t].handles - 1 \in Nat)
            BY <6>1 DEF Object
          <6>3. ASSUME NEW n \in Nat PROVE [db[t] EXCEPT !.handles = n] \in Object
            BY <6>1 DEF Object
          <6>4. [db[t] EXCEPT !.app = FALSE] \in Object
            BY <6>1 DEF Object
          <6>5. QED  BY <6>2, <6>3, <6>4
        <5>3. CASE MakeHandle(t)
          BY <5>2, <5>3 DEF MakeHandle, Use
        <5>4. CASE DropReference(t)
          BY <5>1, <5>2, <5>4, Zenon DEF DropReference, Use
        <5>5. CASE DropHandle(t)
          BY <5>1, <5>2, <5>5, Zenon DEF DropHandle, Use
        <5>6. QED  BY <4>1, <5>3, <5>4, <5>5 DEF UseStep, WorkArises
      <4>2. CASE InitDatabase(t) \/ DeleteNative(t)
        BY <3>2, <4>2 DEF InitDatabase, DeleteNative
      <4>3. CASE ~UseStep(t) /\ ~InitDatabase(t) /\ ~DeleteNative(t)
        <5>1. \E x \in DatabasePCs : db' = [db EXCEPT ![t].pc = x]
          BY <1>2, <4>3 DEF OpenStep, InsertLock, LockHeldByProcess, AcquireLock,
             LockHeldByOther, RemoveLock, Opened, OpenFails, DeleteStep, ReleaseLock, ForgetLock,
             CloseLock, DeleteVersions, Step, Goto, DatabasePCs
        <5>2. QED  BY <3>1, <5>1
      <4>4. QED  BY <4>1, <4>2, <4>3
    <3>4. scheduled' \in [Databases -> BOOLEAN]
      BY <1>2 DEF DbTyped, OpenStep, InitDatabase, InsertLock, LockHeldByProcess, AcquireLock,
         LockHeldByOther, RemoveLock, Opened, OpenFails, UseStep, WorkArises, MakeHandle,
         DropReference, DropHandle, Use, DeleteStep, ReleaseLock, ForgetLock, CloseLock,
         DeleteVersions, DeleteNative, Step, ScheduleWork
    <3>5. QED  BY <1>2, <3>3, <3>4, DatabaseFrame DEF DbTyped
  <2>3. LocksTyped'
    <3>1. \/ UNCHANGED lockVars \/ Insert(Proc(t), Dir(t)) \/ Remove(Proc(t), Dir(t))
          \/ Lock(Proc(t), Dir(t)) \/ Unlock(Proc(t), Dir(t))
      BY <1>2 DEF OpenStep, InitDatabase, InsertLock, LockHeldByProcess, AcquireLock,
         LockHeldByOther, RemoveLock, Opened, OpenFails, UseStep, WorkArises, MakeHandle,
         DropReference, DropHandle, Use, DeleteStep, ReleaseLock, ForgetLock, CloseLock,
         DeleteVersions, DeleteNative, Close
    <3>2. QED  BY <2>1, <3>1 DEF LocksTyped, lockVars, Insert, Remove, Lock, Unlock
  <2>4. QueueTyped'
    <3>1. UNCHANGED queueVars \/ Schedule(Proc(t), t)
      BY <1>2 DEF OpenStep, InitDatabase, InsertLock, LockHeldByProcess, AcquireLock,
         LockHeldByOther, RemoveLock, Opened, OpenFails, UseStep, WorkArises, MakeHandle,
         DropReference, DropHandle, Use, DeleteStep, ReleaseLock, ForgetLock, CloseLock,
         DeleteVersions, DeleteNative, Step, ScheduleWork
    <3>2. Signalled(Proc(t)) \in Thread
      BY <2>1 DEF QueueTyped, Signalled, NoThread, Thread
    <3>3. Append(background_work_queue_[Proc(t)], t) \in Seq(Databases)
      BY <2>1 DEF QueueTyped
    <3>4. QED  BY <3>1, <3>2, <3>3 DEF QueueTyped, queueVars, Schedule
  <2>5. QED  BY <2>2, <2>3, <2>4
<1>3. ASSUME NEW p \in Procs, ThreadStep(p) \/ (SpuriousWakeup(p) /\ UNCHANGED dbVars)
      PROVE  Typed'
  <2>1. LocksTyped'
    BY <1>3 DEF ThreadStep, TakeWork, BackgroundCall, SpuriousWakeup, lockVars, LocksTyped
  <2>2. DbTyped'
    BY <1>3 DEF ThreadStep, BackgroundCall, dbVars, DbTyped
  <2>3. QueueTyped'
    <3>1. CASE TakeWork(p) \/ SpuriousWakeup(p)
      <4>1. background_work_queue_[p] \in Seq(Databases) /\ thread[p] \in Thread
        BY DEF QueueTyped
      <4>2. background_work_queue_[p] # <<>> =>
              /\ Head(background_work_queue_[p]) \in Databases
              /\ Tail(background_work_queue_[p]) \in Seq(Databases)
        BY <4>1
      <4>3. \A x \in {"waiting", "loop"} :
              thread[p].pc # "work" => [thread[p] EXCEPT !.pc = x] \in Thread
        BY <4>1 DEF Thread
      <4>4. \A d \in Databases : [pc |-> "work", arg |-> d] \in Thread
        BY DEF Thread
      <4>5. QED  BY <3>1, <4>2, <4>3, <4>4 DEF QueueTyped, TakeWork, SpuriousWakeup
    <3>2. CASE BackgroundCall(p)
      <4>1. thread[p].arg \in Databases /\ background_work_queue_[p] \in Seq(Databases)
        BY <3>2 DEF QueueTyped, Thread, BackgroundCall
      <4>2. Append(background_work_queue_[p], thread[p].arg) \in Seq(Databases)
        BY <4>1
      <4>3. [pc |-> "loop", arg |-> Nobody] \in Thread
        BY DEF Thread
      <4>4. QED  BY <3>2, <4>2, <4>3 DEF QueueTyped, BackgroundCall
    <3>3. QED  BY <1>3, <3>1, <3>2 DEF ThreadStep
  <2>4. QED  BY <2>1, <2>2, <2>3
<1>4. ASSUME NEW p \in Procs, ProcessDies(p) PROVE Typed'
  <2>1. NoObject \in Object /\ NoThread \in Thread /\ <<>> \in Seq(Databases)
    BY DEF NoObject, Object, DatabasePCs, NoThread, Thread
  <2>2. QED
    BY <1>4, <2>1 DEF ProcessDies, ProcessEnds, DbTyped, LocksTyped, QueueTyped
<1>5. QED  BY <1>1, <1>2, <1>3, <1>4 DEF Next

LEMMA TypesHold == Spec => []Typed
<1>1. Init => Typed
  <2> SUFFICES ASSUME Init PROVE Typed
    OBVIOUS
  <2>1. NoObject \in Object /\ NoThread \in Thread /\ <<>> \in Seq(Databases)
    BY DEF NoObject, Object, DatabasePCs, NoThread, Thread
  <2>2. QED  BY <2>1 DEF Init, EnvInit, Typed, DbTyped, LocksTyped, QueueTyped
<1>2. QED  BY <1>1, TypedStep, PTL DEF Spec

(***************************************************************************)
(* The lock of a directory.  PosixLockTable keeps the databases of one     *)
(* process apart; the lock of fcntl keeps the processes apart, as long as  *)
(* no other descriptor of the process that has it is closed.               *)
(***************************************************************************)
InTable ==
  {"inserted", "held_by_other", "not_locked", "recovering", "open", "deleting", "unlocked"}
Entered(t) == db[t].pc \in InTable

TableHolds == \A t \in Databases : Entered(t) => Dir(t) \in locked_files_[Proc(t)]
TableOne ==
  \A t, u \in Databases :
    t # u /\ Entered(t) /\ Entered(u) /\ Proc(t) = Proc(u) => Dir(t) # Dir(u)

\* The only database of its process on its directory.
Alone(t) == \A u \in Databases \ {t} : Dir(u) = Dir(t) => Proc(u) # Proc(t)
KernelHolds == \A t \in Databases : Owns(t) /\ Alone(t) => kernel[Dir(t)] = Proc(t)

LockInv == TableHolds /\ TableOne /\ KernelHolds

\* Each directory is opened by one process only, or at most once by each.
Separated ==
  \A f \in Places, d \in Dirs :
    \/ \A t, u \in Databases : f[t] = d /\ f[u] = d => ProcOf[t] = ProcOf[u]
    \/ \A t, u \in Databases : f[t] = d /\ f[u] = d /\ t # u => ProcOf[t] # ProcOf[u]

\* What a step of a database does to the locks.
LEMMA LockMoves ==
  ASSUME Typed, NEW t \in Databases, OpenStep(t) \/ UseStep(t) \/ DeleteStep(t)
  PROVE  \/ Insert(Proc(t), Dir(t)) /\ CanInsert(Proc(t), Dir(t)) /\ Entered(t)' /\ ~Owns(t)'
         \/ Remove(Proc(t), Dir(t)) /\ Entered(t) /\ ~Entered(t)'
         \/ Lock(Proc(t), Dir(t)) /\ CanLock(Proc(t), Dir(t)) /\ Entered(t)
         \/ Unlock(Proc(t), Dir(t)) /\ (Entered(t)' => Entered(t)) /\ ~Owns(t)'
         \/ UNCHANGED lockVars /\ (Entered(t)' => Entered(t)) /\ (Owns(t)' => Owns(t))
<1>1. db \in [Databases -> Object]
  BY DEF Typed, DbTyped
<1>2. ASSUME NEW from, NEW to, Step(t, from, to) PROVE db[t].pc = from /\ db'[t].pc = to
  BY <1>1, <1>2 DEF Step, At, Goto, Object
<1>3. CASE UseStep(t)
  <2>1. \A d : d.pc = "open" => Released(d).pc \in {"open", "deleting"}
    BY DEF Released
  <2>2. UNCHANGED lockVars /\ db[t].pc = "open"
    BY <1>3 DEF UseStep, WorkArises, MakeHandle, DropReference, DropHandle, Use, At
  <2>3. QED  BY <2>2 DEF Entered, InTable, Owns
<1>4. CASE InitDatabase(t) \/ DeleteNative(t)
  <2>1. NoObject.pc = "none" /\ [[NoObject EXCEPT !.pc = "fd"] EXCEPT !.app = TRUE].pc = "fd"
    BY DEF NoObject
  <2>2. db'[t].pc \in {"none", "fd"} /\ UNCHANGED lockVars
    BY <1>1, <1>4, <2>1 DEF InitDatabase, DeleteNative
  <2>3. QED  BY <2>2 DEF Entered, InTable, Owns
<1>5. CASE InsertLock(t)
  BY <1>2, <1>5 DEF InsertLock, Entered, InTable, Owns
<1>6. CASE AcquireLock(t)
  BY <1>2, <1>6 DEF AcquireLock, Entered, InTable, Owns
<1>7. CASE LockHeldByProcess(t) \/ LockHeldByOther(t) \/ ReleaseLock(t) \/ CloseLock(t)
  BY <1>2, <1>7 DEF LockHeldByProcess, LockHeldByOther, ReleaseLock, CloseLock, Close, Entered,
     InTable, Owns
<1>8. CASE RemoveLock(t) \/ ForgetLock(t)
  BY <1>2, <1>8 DEF RemoveLock, ForgetLock, Entered, InTable, Owns
<1>9. CASE DeleteVersions(t)
  BY <1>2, <1>9 DEF DeleteVersions, Entered, InTable, Owns
<1>10. CASE Opened(t) \/ OpenFails(t)
  <2>1. db[t].pc = "recovering" /\ db'[t].pc \in {"open", "deleting"} /\ UNCHANGED lockVars
    BY <1>1, <1>10 DEF Opened, OpenFails, At, Goto, Object
  <2>2. QED  BY <2>1 DEF Entered, InTable, Owns
<1>11. QED
  BY <1>3, <1>4, <1>5, <1>6, <1>7, <1>8, <1>9, <1>10 DEF OpenStep, DeleteStep

LEMMA LockStep == Typed /\ LockInv /\ [Next]_vars => LockInv'
<1> SUFFICES ASSUME Typed, LockInv, [Next]_vars PROVE LockInv'
  OBVIOUS
<1> USE DEF LockInv
<1>0. /\ db \in [Databases -> Object] /\ kernel \in [Dirs -> Procs \cup {Nobody}]
      /\ locked_files_ \in [Procs -> SUBSET Dirs] /\ place \in [Databases -> Dirs]
      /\ \A t \in Databases : Proc(t) \in Procs /\ Dir(t) \in Dirs /\ Proc(t) # Nobody
  BY Constants, ProcessAssumption DEF Typed, DbTyped, LocksTyped
<1>1. CASE UNCHANGED <<dbVars, lockVars>>
  BY <1>1 DEF dbVars, lockVars, TableHolds, TableOne, KernelHolds, Entered, Owns, Alone, Dir
<1>2. ASSUME NEW t \in Databases, OpenStep(t) \/ UseStep(t) \/ DeleteStep(t) PROVE LockInv'
  <2> DEFINE p == Proc(t)
             d == Dir(t)
  <2>1. /\ \A u \in Databases : Dir(u)' = Dir(u) /\ (Alone(u)' <=> Alone(u))
        /\ \A u \in Databases \ {t} : (Entered(u)' <=> Entered(u)) /\ (Owns(u)' <=> Owns(u))
    BY <1>2, DatabaseFrame DEF Dir, Alone, Entered, Owns
  <2>2. \A u \in Databases : Owns(u)' => Entered(u)'
    BY DEF Owns, Entered, InTable
  <2>3. CASE Insert(p, d) /\ CanInsert(p, d) /\ Entered(t)' /\ ~Owns(t)'
    <3>1. UNCHANGED kernel /\ locked_files_' = [locked_files_ EXCEPT ![p] = @ \cup {d}]
          /\ d \notin locked_files_[p]
      BY <2>3 DEF Insert, CanInsert
    <3>2. TableHolds'
      BY <1>0, <2>1, <3>1 DEF TableHolds
    <3>3. TableOne'
      BY <1>0, <2>1, <3>1 DEF TableOne, TableHolds
    <3>4. KernelHolds'
      BY <2>1, <2>3, <3>1 DEF KernelHolds
    <3>5. QED  BY <3>2, <3>3, <3>4
  <2>4. CASE Remove(p, d) /\ Entered(t) /\ ~Entered(t)'
    <3>1. UNCHANGED kernel /\ locked_files_' = [locked_files_ EXCEPT ![p] = @ \ {d}]
      BY <2>4 DEF Remove
    <3>2. TableHolds'
      BY <1>0, <2>1, <2>4, <3>1 DEF TableHolds, TableOne
    <3>3. TableOne'
      BY <2>1, <2>4 DEF TableOne
    <3>4. KernelHolds'
      BY <2>1, <2>2, <2>4, <3>1 DEF KernelHolds
    <3>5. QED  BY <3>2, <3>3, <3>4
  <2>5. CASE Lock(p, d) /\ CanLock(p, d) /\ Entered(t)
    <3>1. UNCHANGED locked_files_ /\ kernel' = [kernel EXCEPT ![d] = p]
          /\ kernel[d] \in {Nobody, p}
      BY <2>5 DEF Lock, CanLock
    <3>2. TableHolds' /\ TableOne'
      BY <2>1, <2>5, <3>1 DEF TableHolds, TableOne
    <3>3. KernelHolds'
      BY <1>0, <2>1, <3>1 DEF KernelHolds
    <3>4. QED  BY <3>2, <3>3
  <2>6. CASE Unlock(p, d) /\ (Entered(t)' => Entered(t)) /\ ~Owns(t)'
    <3>1. UNCHANGED locked_files_
          /\ kernel' = [kernel EXCEPT ![d] = IF @ = p THEN Nobody ELSE @]
      BY <2>6 DEF Unlock
    <3>2. TableHolds' /\ TableOne'
      BY <2>1, <2>6, <3>1 DEF TableHolds, TableOne
    <3>3. KernelHolds'
      <4> SUFFICES ASSUME NEW u \in Databases, Owns(u)', Alone(u)' PROVE kernel'[Dir(u)] = Proc(u)
        BY <2>1 DEF KernelHolds
      <4>1. u # t /\ kernel[Dir(u)] = Proc(u) /\ (Dir(u) = d => Proc(u) # p)
        BY <2>1, <2>6 DEF KernelHolds, Alone
      <4>2. QED  BY <1>0, <3>1, <4>1
    <3>4. QED  BY <3>2, <3>3
  <2>7. CASE UNCHANGED lockVars /\ (Entered(t)' => Entered(t)) /\ (Owns(t)' => Owns(t))
    BY <2>1, <2>7 DEF lockVars, TableHolds, TableOne, KernelHolds
  <2>8. QED  BY <1>2, <2>3, <2>4, <2>5, <2>6, <2>7, LockMoves
<1>3. ASSUME NEW p \in Procs, ProcessDies(p) PROVE LockInv'
  <2>1. /\ place' = place /\ locked_files_' = [locked_files_ EXCEPT ![p] = {}]
        /\ kernel' = [d \in Dirs |-> IF kernel[d] = p THEN Nobody ELSE kernel[d]]
        /\ db' = [t \in Databases |-> IF Proc(t) = p THEN NoObject ELSE db[t]]
    BY <1>3 DEF ProcessDies, ProcessEnds
  <2>2. \A t \in Databases : /\ Dir(t)' = Dir(t) /\ (Alone(t)' <=> Alone(t))
                             /\ Entered(t)' => Entered(t) /\ Proc(t) # p
                             /\ Owns(t)' => Owns(t) /\ Proc(t) # p
    BY <2>1 DEF Dir, Alone, Entered, InTable, Owns, NoObject
  <2>3. TableHolds' /\ TableOne'
    BY <1>0, <2>1, <2>2 DEF TableHolds, TableOne
  <2>4. KernelHolds'
    BY <1>0, <2>1, <2>2 DEF KernelHolds
  <2>5. QED  BY <2>3, <2>4
<1>4. ASSUME NEW p \in Procs, ThreadStep(p) \/ (SpuriousWakeup(p) /\ UNCHANGED dbVars)
      PROVE  LockInv'
  <2>1. UNCHANGED <<place, db, lockVars>>
    BY <1>4 DEF ThreadStep, TakeWork, BackgroundCall, SpuriousWakeup, dbVars
  <2>2. QED
    BY <2>1 DEF lockVars, TableHolds, TableOne, KernelHolds, Entered, Owns, Alone, Dir
<1>5. QED  BY <1>1, <1>2, <1>3, <1>4 DEF Next, vars

\* If no process opens a directory twice while another process opens it too,
\* a directory has one database from Recover to the end of its background
\* work, whatever opens fail, whoever dies and however the steps interleave.
\* Without the condition it is false: closing the descriptor of a refused open
\* drops the lock the process has.
THEOREM DirectoryOwned == ASSUME Separated PROVE Spec => []OneOwner
<1>1. Init => LockInv
  BY DEF Init, NoObject, LockInv, TableHolds, TableOne, KernelHolds, Entered, InTable, Owns
<1>2. Typed /\ LockInv => OneOwner
  <2> SUFFICES ASSUME Typed, LockInv, NEW t \in Databases, NEW u \in Databases, t # u,
                      Owns(t), Owns(u), Dir(t) = Dir(u)
               PROVE  FALSE
    BY DEF OneOwner
  <2>1. Entered(t) /\ Entered(u)
    BY DEF Owns, Entered, InTable
  <2>2. Proc(t) # Proc(u)
    BY <2>1 DEF LockInv, TableOne
  <2>3. Alone(t) /\ Alone(u)
    <3>1. place \in Places /\ Dir(t) \in Dirs
      BY Constants DEF Typed, DbTyped
    <3>2. \A v, w \in Databases : place[v] = Dir(t) /\ place[w] = Dir(t) /\ v # w => ProcOf[v] # ProcOf[w]
      BY <2>2, <3>1 DEF Separated, Proc, Dir
    <3>3. QED  BY <3>2 DEF Alone, Dir, Proc
  <2>4. kernel[Dir(t)] = Proc(t) /\ kernel[Dir(u)] = Proc(u)
    BY <2>3 DEF LockInv, KernelHolds
  <2>5. QED  BY <2>2, <2>4
<1>3. QED  BY <1>1, <1>2, TypesHold, LockStep, PTL DEF Spec

(***************************************************************************)
(* Tasks and handles.  A task is queued, or runs, once; scheduled_ is set  *)
(* for as long, so ~DBImpl, which waits for it, has not released the lock. *)
(***************************************************************************)
TaskSet(p) == {t \in Databases : Proc(t) = p /\ scheduled[t] /\ Owns(t)}

\* A queue q and a thread w have only tasks of S, each of them once.
EachOnce(q, w, S) ==
  /\ \A i \in 1..Len(q) : q[i] \in S
  /\ \A i, j \in 1..Len(q) : q[i] = q[j] => i = j
  /\ w.pc = "work" => w.arg \in S /\ \A i \in 1..Len(q) : q[i] # w.arg
TasksInv == \A p \in Procs : EachOnce(background_work_queue_[p], thread[p], TaskSet(p))
HandlesInv == \A t \in Databases : db[t].handles > 0 => At(t, "open")

\* What a step of a database does to its task.
LEMMA TaskMoves ==
  ASSUME Typed, NEW t \in Databases, OpenStep(t) \/ UseStep(t) \/ DeleteStep(t)
  PROVE  \/ UNCHANGED <<scheduled, queueVars>> /\ (Owns(t) => Owns(t)' \/ ~scheduled[t])
         \/ /\ ~scheduled[t] /\ scheduled' = [scheduled EXCEPT ![t] = TRUE] /\ Owns(t)'
            /\ Schedule(Proc(t), t)
<1>1. db \in [Databases -> Object]
  BY DEF Typed, DbTyped
<1>2. CASE UseStep(t)
  <2>1. \A d : d.pc = "open" => Released(d).pc \in {"open", "deleting"}
    BY DEF Released
  <2>2. CASE WorkArises(t)
    BY <1>1, <2>2 DEF WorkArises, ScheduleWork, Owns, At
  <2>3. CASE MakeHandle(t)
    BY <1>1, <2>3 DEF MakeHandle, Use, Owns, At, Object
  <2>4. CASE DropReference(t) \/ DropHandle(t)
    <3>1. db[t].pc = "open" /\ UNCHANGED <<scheduled, queueVars>>
      BY <2>4 DEF DropReference, DropHandle, Use, At
    <3>2. [db[t] EXCEPT !.app = FALSE].pc = "open" /\ [db[t] EXCEPT !.handles = @ - 1].pc = "open"
      BY <1>1, <3>1 DEF Object
    <3>3. db'[t].pc \in {"open", "deleting"}
      BY <1>1, <2>1, <2>4, <3>2 DEF DropReference, DropHandle, Use
    <3>4. QED  BY <3>1, <3>3 DEF Owns
  <2>5. QED  BY <1>2, <2>2, <2>3, <2>4 DEF UseStep
<1>3. CASE Opened(t) \/ OpenFails(t)
  <2>1. db'[t].pc \in {"open", "deleting"}
    BY <1>1, <1>3 DEF Opened, OpenFails, Goto, Object
  <2>2. QED  BY <1>3, <2>1 DEF Opened, OpenFails, ScheduleWork, Owns, queueVars
<1>4. CASE InitDatabase(t) \/ DeleteNative(t)
  BY <1>4 DEF InitDatabase, DeleteNative, At, Owns
<1>5. CASE ReleaseLock(t)
  BY <1>5 DEF ReleaseLock, Step
<1>6. CASE AcquireLock(t)
  BY <1>6 DEF AcquireLock, Step, At, Owns
<1>7. CASE \/ InsertLock(t) \/ LockHeldByProcess(t) \/ LockHeldByOther(t) \/ RemoveLock(t)
           \/ ForgetLock(t) \/ CloseLock(t) \/ DeleteVersions(t)
  BY <1>7 DEF InsertLock, LockHeldByProcess, LockHeldByOther, RemoveLock, ForgetLock, CloseLock,
     DeleteVersions, Step, At, Owns
<1>8. QED
  BY <1>2, <1>3, <1>4, <1>5, <1>6, <1>7 DEF OpenStep, DeleteStep

LEMMA OnceMore ==
  ASSUME NEW q, NEW w, NEW S, NEW w1, NEW S1, EachOnce(q, w, S),
         S \subseteq S1, w1.pc = "work" => w1 = w
  PROVE  EachOnce(q, w1, S1)
BY DEF EachOnce

LEMMA OnceAppended ==
  ASSUME NEW D, NEW q \in Seq(D), NEW w, NEW S, NEW w1, NEW S1, NEW t \in S1, EachOnce(q, w, S),
         S \subseteq S1, w1.pc = "work" => w1 = w /\ t # w.arg,
         \A i \in 1..Len(q) : q[i] # t, t \in D
  PROVE  EachOnce(Append(q, t), w1, S1)
<1> DEFINE longer == Append(q, t)
<1>1. /\ Len(longer) = Len(q) + 1 /\ Len(q) \in Nat /\ longer[Len(q) + 1] = t
      /\ \A i \in 1..Len(q) : longer[i] = q[i]
  OBVIOUS
<1> HIDE DEF longer
<1>2. \A i \in 1..Len(longer) : i \in 1..Len(q) \/ i = Len(q) + 1
  BY <1>1
<1>3. \A i \in 1..Len(longer) : longer[i] \in S1
  BY <1>1, <1>2 DEF EachOnce
<1>4. \A i, j \in 1..Len(longer) : longer[i] = longer[j] => i = j
  <2> SUFFICES ASSUME NEW i \in 1..Len(longer), NEW j \in 1..Len(longer), longer[i] = longer[j]
               PROVE  i = j
    OBVIOUS
  <2>1. CASE i \in 1..Len(q) /\ j \in 1..Len(q)
    BY <1>1, <2>1 DEF EachOnce
  <2>2. CASE i = Len(q) + 1 \/ j = Len(q) + 1
    BY <1>1, <1>2, <2>2
  <2>3. QED  BY <1>2, <2>1, <2>2
<1>5. w1.pc = "work" => w1.arg \in S1 /\ \A i \in 1..Len(longer) : longer[i] # w1.arg
  BY <1>1, <1>2 DEF EachOnce
<1>6. EachOnce(longer, w1, S1)
  BY <1>3, <1>4, <1>5 DEF EachOnce
<1>7. QED  BY <1>6 DEF longer

LEMMA OnceTaken ==
  ASSUME NEW D, NEW q \in Seq(D), NEW w, NEW S, EachOnce(q, w, S), q # <<>>
  PROVE  EachOnce(Tail(q), [pc |-> "work", arg |-> Head(q)], S)
<1> DEFINE rest == Tail(q)
<1>1. /\ Len(q) \in Nat /\ Len(q) > 0 /\ Len(rest) = Len(q) - 1 /\ Head(q) = q[1]
      /\ \A i \in 1..Len(rest) : rest[i] = q[i + 1]
  OBVIOUS
<1> HIDE DEF rest
<1>2. 1 \in 1..Len(q) /\ \A i \in 1..Len(rest) : i + 1 \in 1..Len(q) /\ i + 1 # 1
  BY <1>1
<1>3. /\ \A i \in 1..Len(rest) : rest[i] \in S /\ rest[i] # Head(q)
      /\ \A i, j \in 1..Len(rest) : rest[i] = rest[j] => i = j
      /\ Head(q) \in S
  BY <1>1, <1>2 DEF EachOnce
<1>4. EachOnce(rest, [pc |-> "work", arg |-> Head(q)], S)
  BY <1>3 DEF EachOnce
<1>5. QED  BY <1>4 DEF rest

LEMMA TasksStep == Typed /\ TasksInv /\ [Next]_vars => TasksInv'
<1> SUFFICES ASSUME Typed, TasksInv, [Next]_vars PROVE TasksInv'
  OBVIOUS
<1>0. /\ db \in [Databases -> Object] /\ scheduled \in [Databases -> BOOLEAN]
      /\ background_work_queue_ \in [Procs -> Seq(Databases)] /\ thread \in [Procs -> Thread]
      /\ \A t \in Databases : Proc(t) \in Procs
  BY Constants DEF Typed, DbTyped, QueueTyped
<1>1. CASE UNCHANGED <<db, scheduled, queueVars>>
  BY <1>1 DEF queueVars, TasksInv, TaskSet, Owns, Proc
<1>2. ASSUME NEW t \in Databases, OpenStep(t) \/ UseStep(t) \/ DeleteStep(t) PROVE TasksInv'
  <2>1. \A u \in Databases \ {t} : Owns(u)' <=> Owns(u)
    BY <1>2, DatabaseFrame DEF Owns
  <2>2. CASE UNCHANGED <<scheduled, queueVars>> /\ (Owns(t) => Owns(t)' \/ ~scheduled[t])
    <3>1. \A p \in Procs : TaskSet(p) \subseteq TaskSet(p)'
      BY <2>1, <2>2 DEF TaskSet, Proc
    <3>2. QED  BY <2>2, <3>1, OnceMore DEF queueVars, TasksInv
  <2>3. CASE /\ ~scheduled[t] /\ scheduled' = [scheduled EXCEPT ![t] = TRUE] /\ Owns(t)'
             /\ Schedule(Proc(t), t)
    <3> SUFFICES ASSUME NEW p \in Procs
                 PROVE  EachOnce(background_work_queue_'[p], thread'[p], TaskSet(p)')
      BY DEF TasksInv
    <3> DEFINE q == background_work_queue_[p]
    <3>1. q \in Seq(Databases) /\ EachOnce(q, thread[p], TaskSet(p))
      BY <1>0 DEF TasksInv
    <3>2. t \notin TaskSet(p) /\ TaskSet(p) \subseteq TaskSet(p)'
      BY <1>0, <2>1, <2>3 DEF TaskSet, Proc
    <3>3. thread'[p].pc = "work" => thread'[p] = thread[p]
      BY <1>0, <2>3 DEF Schedule, Signalled, NoThread
    <3>4. CASE p = Proc(t)
      <4>1. background_work_queue_'[p] = Append(q, t)
        BY <1>0, <2>3, <3>4 DEF Schedule
      <4>2. t \in TaskSet(p)'
        BY <1>0, <2>3, <3>4 DEF TaskSet, Proc
      <4>3. /\ thread'[p].pc = "work" => thread'[p] = thread[p] /\ t # thread[p].arg
            /\ \A i \in 1..Len(q) : q[i] # t
        BY <3>1, <3>2, <3>3 DEF EachOnce
      <4>4. EachOnce(Append(q, t), thread'[p], TaskSet(p)')
        BY <3>1, <3>2, <4>2, <4>3, OnceAppended
      <4>5. QED  BY <4>1, <4>4
    <3>5. CASE p # Proc(t)
      <4>1. background_work_queue_'[p] = q
        BY <1>0, <2>3, <3>5 DEF Schedule
      <4>2. QED  BY <3>1, <3>2, <3>3, <4>1, OnceMore
    <3>6. QED  BY <3>4, <3>5
  <2>4. QED  BY <1>2, <2>2, <2>3, TaskMoves
<1>3. ASSUME NEW p \in Procs, ThreadStep(p) \/ (SpuriousWakeup(p) /\ UNCHANGED dbVars)
      PROVE  TasksInv'
  <2> DEFINE q == background_work_queue_[p]
  <2>1. q \in Seq(Databases) /\ thread[p] \in Thread /\ EachOnce(q, thread[p], TaskSet(p))
    BY <1>0 DEF TasksInv
  <2>2. CASE TakeWork(p) /\ UNCHANGED dbVars
    <3>1. \A r \in Procs : TaskSet(r)' = TaskSet(r)
      BY <2>2 DEF dbVars, TaskSet, Owns, Proc
    <3>2. \A r \in Procs \ {p} : background_work_queue_'[r] = background_work_queue_[r] /\ thread'[r] = thread[r]
      BY <1>0, <2>2 DEF TakeWork
    <3>3. EachOnce(background_work_queue_'[p], thread'[p], TaskSet(p))
      <4>1. CASE q = <<>>
        <5>1. background_work_queue_'[p] = q /\ thread'[p].pc = "waiting"
          BY <1>0, <2>1, <2>2, <4>1 DEF TakeWork, Thread
        <5>2. QED  BY <2>1, <5>1, OnceMore
      <4>2. CASE q # <<>>
        <5>1. background_work_queue_'[p] = Tail(q) /\ thread'[p] = [pc |-> "work", arg |-> Head(q)]
          BY <1>0, <2>2, <4>2 DEF TakeWork
        <5>2. EachOnce(Tail(q), [pc |-> "work", arg |-> Head(q)], TaskSet(p))
          BY <2>1, <4>2, OnceTaken
        <5>3. QED  BY <5>1, <5>2
      <4>3. QED  BY <4>1, <4>2
    <3>4. QED  BY <3>1, <3>2, <3>3 DEF TasksInv
  <2>3. CASE SpuriousWakeup(p) /\ UNCHANGED dbVars
    <3>1. UNCHANGED background_work_queue_ /\ \A r \in Procs : thread'[r].pc = "work" => thread'[r] = thread[r]
      BY <1>0, <2>1, <2>3 DEF SpuriousWakeup, Thread
    <3>2. \A r \in Procs : TaskSet(r)' = TaskSet(r)
      BY <2>3 DEF dbVars, TaskSet, Owns, Proc
    <3>3. QED  BY <3>1, <3>2, OnceMore DEF TasksInv
  <2>4. CASE BackgroundCall(p)
    <3> DEFINE t == thread[p].arg
    <3>1. t \in TaskSet(p) /\ t \in Databases /\ \A i \in 1..Len(q) : q[i] # t
      BY <2>1, <2>4 DEF EachOnce, BackgroundCall, Thread
    <3>2. thread'[p].pc = "loop" /\ \A r \in Procs \ {p} : thread'[r] = thread[r]
      BY <1>0, <2>4 DEF BackgroundCall
    <3>3. ASSUME NEW r \in Procs \ {p}
          PROVE  EachOnce(background_work_queue_'[r], thread'[r], TaskSet(r)')
      <4>1. background_work_queue_'[r] = background_work_queue_[r]
        BY <1>0, <2>4 DEF BackgroundCall
      <4>2. TaskSet(r) \subseteq TaskSet(r)'
        BY <1>0, <2>4, <3>1 DEF BackgroundCall, TaskSet, Owns, Proc
      <4>3. QED  BY <3>2, <4>1, <4>2, OnceMore DEF TasksInv
    <3>4. EachOnce(background_work_queue_'[p], thread'[p], TaskSet(p)')
      <4>1. CASE UNCHANGED background_work_queue_
        <5>1. \A i \in 1..Len(q) : q[i] \in TaskSet(p) \ {t}
          BY <2>1, <3>1 DEF EachOnce
        <5>2. TaskSet(p) \ {t} \subseteq TaskSet(p)'
          BY <1>0, <2>4 DEF BackgroundCall, TaskSet, Owns, Proc
        <5>3. QED  BY <2>1, <3>1, <3>2, <4>1, <5>2 DEF EachOnce
      <4>2. CASE background_work_queue_' = [background_work_queue_ EXCEPT ![p] = Append(@, t)] /\ UNCHANGED scheduled
        <5>1. background_work_queue_'[p] = Append(q, t)
          BY <1>0, <4>2
        <5>2. TaskSet(p)' = TaskSet(p)
          BY <2>4, <4>2 DEF BackgroundCall, TaskSet, Owns, Proc
        <5>3. EachOnce(Append(q, t), thread'[p], TaskSet(p))
          BY <2>1, <3>1, <3>2, OnceAppended
        <5>4. QED  BY <5>1, <5>2, <5>3
      <4>3. QED  BY <2>4, <4>1, <4>2 DEF BackgroundCall
    <3>5. QED  BY <3>3, <3>4 DEF TasksInv
  <2>5. QED  BY <1>3, <2>2, <2>3, <2>4 DEF ThreadStep
<1>4. ASSUME NEW p \in Procs, ProcessDies(p) PROVE TasksInv'
  <2>1. ASSUME NEW r \in Procs \ {p}
        PROVE  EachOnce(background_work_queue_'[r], thread'[r], TaskSet(r)')
    <3>1. background_work_queue_'[r] = background_work_queue_[r] /\ thread'[r] = thread[r]
      BY <1>0, <1>4 DEF ProcessDies, ProcessEnds
    <3>2. TaskSet(r) \subseteq TaskSet(r)'
      BY <1>4 DEF ProcessDies, TaskSet, Owns, Proc
    <3>3. QED  BY <3>1, <3>2, OnceMore DEF TasksInv
  <2>2. EachOnce(background_work_queue_'[p], thread'[p], TaskSet(p)')
    <3>1. background_work_queue_'[p] = <<>> /\ thread'[p].pc = "none"
      BY <1>0, <1>4 DEF ProcessDies, ProcessEnds, NoThread
    <3>2. QED  BY <3>1 DEF EachOnce
  <2>3. QED  BY <2>1, <2>2 DEF TasksInv
<1>5. QED  BY <1>1, <1>2, <1>3, <1>4 DEF Next, vars, dbVars

LEMMA HandlesStep == Typed /\ HandlesInv /\ [Next]_vars => HandlesInv'
<1> SUFFICES ASSUME Typed, HandlesInv, [Next]_vars PROVE HandlesInv'
  OBVIOUS
<1>0. db \in [Databases -> Object]
  BY DEF Typed, DbTyped
<1>1. CASE UNCHANGED db
  BY <1>1 DEF HandlesInv, At
<1>2. ASSUME NEW t \in Databases, OpenStep(t) \/ UseStep(t) \/ DeleteStep(t) PROVE HandlesInv'
  <2>1. db'[t].handles > 0 => db'[t].pc = "open"
    <3>1. ASSUME NEW d \in Object, d.pc = "open"
          PROVE  Released(d).handles > 0 => Released(d).pc = "open"
      BY <3>1 DEF Released, Object
    <3>2. CASE UseStep(t)
      <4>1. CASE WorkArises(t)
        BY <4>1 DEF WorkArises, HandlesInv, At
      <4>2. CASE MakeHandle(t)
        BY <1>0, <4>2 DEF MakeHandle, Use, At, Object
      <4>3. CASE DropReference(t)
        <5> DEFINE d == [db[t] EXCEPT !.app = FALSE]
        <5>1. db[t] \in Object /\ db[t].pc = "open" /\ db' = [db EXCEPT ![t] = Released(d)]
          BY <1>0, <4>3 DEF DropReference, Use, At
        <5>2. d \in Object /\ d.pc = "open"
          BY <5>1 DEF Object
        <5> HIDE DEF d
        <5>3. QED  BY <1>0, <3>1, <5>1, <5>2
      <4>4. CASE DropHandle(t)
        <5> DEFINE d == [db[t] EXCEPT !.handles = @ - 1]
        <5>1. /\ db[t] \in Object /\ db[t].pc = "open" /\ db[t].handles > 0
              /\ db' = [db EXCEPT ![t] = Released(d)]
          BY <1>0, <4>4 DEF DropHandle, Use, At
        <5>2. db[t].handles - 1 \in Nat
          BY <5>1 DEF Object
        <5>3. d \in Object /\ d.pc = "open"
          BY <5>1, <5>2 DEF Object
        <5> HIDE DEF d
        <5>4. QED  BY <1>0, <3>1, <5>1, <5>3
      <4>5. QED  BY <3>2, <4>1, <4>2, <4>3, <4>4 DEF UseStep
    <3>3. CASE InitDatabase(t) \/ DeleteNative(t)
      <4>1. NoObject.handles = 0 /\ [[NoObject EXCEPT !.pc = "fd"] EXCEPT !.app = TRUE].handles = 0
        BY DEF NoObject
      <4>2. db'[t].handles = 0
        BY <1>0, <3>3, <4>1 DEF InitDatabase, DeleteNative
      <4>3. QED  BY <4>2
    <3>4. CASE ~UseStep(t) /\ ~InitDatabase(t) /\ ~DeleteNative(t)
      <4>1. db[t].pc # "open" /\ \E x : db' = [db EXCEPT ![t].pc = x]
        BY <1>2, <3>4 DEF OpenStep, InsertLock, LockHeldByProcess, AcquireLock, LockHeldByOther,
           RemoveLock, Opened, OpenFails, DeleteStep, ReleaseLock, ForgetLock, CloseLock,
           DeleteVersions, Step, At, Goto
      <4>2. db'[t].handles = db[t].handles
        BY <1>0, <4>1 DEF Object
      <4>3. QED  BY <4>1, <4>2 DEF HandlesInv, At
    <3>5. QED  BY <1>2, <3>2, <3>3, <3>4
  <2>2. QED  BY <1>2, <2>1, DatabaseFrame DEF HandlesInv, At
<1>3. ASSUME NEW p \in Procs, ProcessDies(p) PROVE HandlesInv'
  BY <1>3 DEF ProcessDies, NoObject, HandlesInv, At
<1>4. ASSUME NEW p \in Procs, ThreadStep(p) \/ (SpuriousWakeup(p) /\ UNCHANGED dbVars)
      PROVE  HandlesInv'
  BY <1>4, <1>1 DEF ThreadStep, BackgroundCall, dbVars
<1>5. QED  BY <1>1, <1>2, <1>3, <1>4 DEF Next, vars, dbVars

\* Nobody calls a database that is gone: not through a snapshot or a write
\* batch, which keep it from dealloc, and not as a task of the background
\* thread, which the destructor waits for - whichever databases of the process
\* the thread serves meanwhile, and whichever processes die.  (Iterators are not
\* in the model: DVECLevelDBIterator does not keep its database.)
THEOREM UsesHold == Spec => []UsesExist
<1>1. Init => TasksInv /\ HandlesInv
  BY DEF Init, EnvInit, NoThread, NoObject, TasksInv, EachOnce, HandlesInv
<1>2. Typed /\ TasksInv /\ HandlesInv => UsesExist
  <2> SUFFICES ASSUME Typed, TasksInv, HandlesInv PROVE UsesExist
    OBVIOUS
  <2>1. \A p \in Procs : \A i \in 1..Len(background_work_queue_[p]) : Owns(background_work_queue_[p][i])
    BY DEF TasksInv, EachOnce, TaskSet
  <2>2. \A p \in Procs : thread[p].pc = "work" => Owns(thread[p].arg)
    BY DEF TasksInv, EachOnce, TaskSet
  <2>3. QED  BY <2>1, <2>2 DEF UsesExist, HandlesInv
<1>3. QED  BY <1>1, <1>2, TypesHold, TasksStep, HandlesStep, PTL DEF Spec

===============================================================================
