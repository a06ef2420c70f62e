------------------------------- MODULE DBState -------------------------------
(***************************************************************************)
(* The state of one open DBImpl (db/db_impl.h, db/db_impl.cc) that its     *)
(* foreground threads and its one background thread share under mutex_.    *)
(*                                                                         *)
(* A critical section that runs from a lock to the next unlock or wait is  *)
(* one action.  The sections that loop while they hold the mutex (the body *)
(* of Write around MakeRoomForWrite) take several steps, and "mutex" names *)
(* the thread that is inside one; no other section may start meanwhile.    *)
(* The background thread's sections are single actions and never hold it.  *)
(***************************************************************************)
EXTENDS Integers, Sequences, FiniteSets

CONSTANTS
  Threads,        \* the callers: threads that use the DB
  Null,           \* nullptr, and "nobody holds the mutex"
  Requests,       \* the requests a thread may make (a set of records)
  MaxOps,         \* BOUND: requests per thread
  WriteBufferSize, \* options_.write_buffer_size, in entries
  CompactionTrigger, SlowdownTrigger, StopTrigger, \* config::kL0_*Trigger
  SmallBatch,     \* 128 << 10 in BuildBatchGroup
  MaxBatch,       \* 1 << 20 in BuildBatchGroup
  MaxFaults,      \* BOUND: I/O errors the environment injects
  MaxExtra,       \* BOUND: compactions due below level 0 or to seeks
  MaxPieces,      \* BOUND: steps of one manual compaction of one level
  MaxLevels       \* BOUND: levels a CompactRange call visits

(***************************************************************************)
(* A request: "write" (a WriteBatch of count updates and bytes bytes, sync *)
(* or not), "compact" (CompactRange) or "get".  CompactRange starts with a *)
(* write of a null batch: count and bytes are 0.                           *)
(***************************************************************************)
RequestSpace ==
  [kind : {"write", "compact", "get"}, count : Nat, bytes : Nat, sync : BOOLEAN]

ASSUME RequestsAssumption ==
  /\ Requests \subseteq RequestSpace
  /\ \A r \in Requests : r.kind # "write" => r.count = 0 /\ r.bytes = 0 /\ ~r.sync
ASSUME NumbersAssumption ==
  /\ MaxOps \in Nat /\ WriteBufferSize \in Nat /\ MaxFaults \in Nat
  /\ CompactionTrigger \in Nat /\ SlowdownTrigger \in Nat /\ StopTrigger \in Nat
  /\ SmallBatch \in Nat /\ MaxBatch \in Nat
  /\ MaxExtra \in Nat /\ MaxPieces \in Nat /\ MaxLevels \in Nat \ {0}
  /\ 0 < CompactionTrigger /\ CompactionTrigger <= StopTrigger

VARIABLES
  mutex,        \* the thread inside a multi-step section of mutex_, or Null
  pc, req, opn, \* each caller: where it is, its request, how many it has made
  awake,        \* waiting callers that a condition variable has signalled
  writers,      \* writers_, the queue of Writers (its threads)
  done, status, \* Writer::done and Writer::status (TRUE is OK) of each thread
  force, delay, \* force and allow_delay in MakeRoomForWrite
  group,        \* BuildBatchGroup's group: size, entries, sync, status
  lastSequence, \* versions_->LastSequence()
  mem, imm, hasImm, \* contents of mem_ and imm_, and imm_ != nullptr
  log, synced,  \* entries in the current log file, and entries fsynced so far
  tables,       \* entries stored in the table files of the current version
  bgError,      \* bg_error_: "ok", or what raised it: "bg" or "sync"
  bgScheduled,  \* background_compaction_scheduled_
  bg,           \* the background call: [pc, kind, manual, inputs]
  level0,       \* versions_->NumLevelFiles(0)
  due,          \* another reason for NeedsCompaction: score below L0, seeks
  fresh,        \* threads in Get whose captured version is still current
  manual,       \* manual_compaction_: the thread whose frame it points to
  mdone, mlevels, mpieces, \* ManualCompaction::done; levels and pieces left
  shuttingDown, \* shutting_down_
  faults, extra, \* faults injected and extra compactions made due (bounds)
  acked         \* HISTORY: the writes that returned OK

callerVars == <<pc, req, opn>>
queueVars  == <<writers, done, status, force, delay, group>>
dataVars   == <<lastSequence, mem, imm, hasImm, log, synced, tables>>
bgVars     == <<bgError, bgScheduled, bg, level0, due, fresh>>
manualVars == <<manual, mdone, mlevels, mpieces>>
boundVars  == <<faults, extra>>
vars == <<mutex, callerVars, awake, queueVars, dataVars, bgVars, manualVars,
          shuttingDown, boundVars, acked>>

(***************************************************************************)
(* Types.  An entry is the i-th update of operation op (thread and request *)
(* number) under the sequence number the log record gives it.              *)
(***************************************************************************)
Op == Threads \X Nat
Entry == [seq : Nat, op : Op, i : Nat]
ASSUME NullAssumption == Null \notin Threads \cup [op : Op, count : Nat]
Group == [size : Nat, bytes : Nat, entries : SUBSET Entry, end : Nat,
          sync : BOOLEAN, ok : BOOLEAN, synced : BOOLEAN]
BgKinds == {"memtable", "move", "tables"}
Background == [pc : {"none", "build", "install", "gc", "compact", "crashed"},
               kind : BgKinds, manual : BOOLEAN, nested : BOOLEAN, inputs : Nat]
Request0 == [kind |-> "get", count |-> 0, bytes |-> 0, sync |-> FALSE]
BgIdle == [pc |-> "none", kind |-> "memtable", manual |-> FALSE,
           nested |-> FALSE, inputs |-> 0]

\* Callers waiting on background_work_finished_signal_.
BgWaits == {"roomwait", "flushwait", "manualwait", "closewait"}
\* The leader of the write queue between BuildBatchGroup and taking the mutex back.
Unlocked == {"log", "sync", "insert", "commit"}
CallerPCs == {"idle", "queued", "room", "delay", "group", "finish", "flush", "manual",
              "get", "closed"} \cup BgWaits \cup Unlocked

InitState ==
  /\ mutex = Null
  /\ pc = [t \in Threads |-> "idle"]
  /\ req = [t \in Threads |-> Request0]
  /\ opn = [t \in Threads |-> 0]
  /\ awake = {}
  /\ writers = <<>>
  /\ done = [t \in Threads |-> FALSE]
  /\ status = [t \in Threads |-> TRUE]
  /\ force = [t \in Threads |-> FALSE]
  /\ delay = [t \in Threads |-> FALSE]
  /\ group = [t \in Threads |-> [size |-> 0, bytes |-> 0, entries |-> {}, end |-> 0,
                                 sync |-> FALSE, ok |-> TRUE, synced |-> TRUE]]
  /\ lastSequence = 0
  /\ mem = {} /\ imm = {} /\ hasImm = FALSE
  /\ log = {} /\ synced = {} /\ tables = {}
  /\ bgError = "ok" /\ bgScheduled = FALSE /\ bg = BgIdle
  /\ level0 = 0 /\ due = FALSE /\ fresh = {}
  /\ manual = Null
  /\ mdone = [t \in Threads |-> FALSE]
  /\ mlevels = [t \in Threads |-> 0]
  /\ mpieces = [t \in Threads |-> 0]
  /\ shuttingDown = FALSE
  /\ faults = 0 /\ extra = 0
  /\ acked = {}

(***************************************************************************)
(* Helpers of both sides.                                                  *)
(***************************************************************************)
Stored == mem \cup imm \cup tables
Visible(seq) == {e \in Stored : e.seq <= seq} \* what a reader at seq sees

NeedsCompaction == level0 >= CompactionTrigger \/ due

MaybeScheduleForFlush(scheduled) == \* mutant: NeedsCompaction() is not looked at
  bgScheduled' = \/ scheduled
                 \/ ~shuttingDown' /\ bgError' = "ok" /\ (hasImm' \/ manual' # Null)

\* MaybeScheduleCompaction(), called last in a section: it reads the state
\* the section leaves.  scheduled is background_compaction_scheduled_ before.
MaybeScheduleCompaction(scheduled) ==
  bgScheduled' = \/ scheduled
                 \/ /\ ~shuttingDown' /\ bgError' = "ok"
                    /\ hasImm' \/ manual' # Null \/ NeedsCompaction'

\* background_work_finished_signal_.SignalAll()
BgWaiters == {t \in Threads : pc[t] \in BgWaits}

\* RecordBackgroundError(s): the first error stays; the waiters are signalled.
RecordBackgroundError(cause) ==
  bgError' = IF bgError = "ok" THEN cause ELSE bgError
ErrorWaiters == IF bgError = "ok" THEN BgWaiters ELSE {}

\* An I/O call fails.
Fault == faults < MaxFaults /\ faults' = faults + 1
NoFault == faults' = faults
==============================================================================
