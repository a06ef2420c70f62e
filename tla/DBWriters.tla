------------------------------ MODULE DBWriters ------------------------------
(***************************************************************************)
(* The foreground side of DBImpl: the writer queue (Write,                 *)
(* BuildBatchGroup, MakeRoomForWrite), Get, CompactRange with its          *)
(* TEST_CompactMemTable and TEST_CompactRange, and the destructor.         *)
(***************************************************************************)
EXTENDS DBState

(***************************************************************************)
(* BuildBatchGroup: the leader starts with its own batch and takes writers *)
(* from the queue's front until a sync write would join a non-sync leader  *)
(* or the batch grows too big.  A group is [size: its writers, bytes,      *)
(* entries, end: its last sequence number, sync, ok: Status, synced].      *)
(***************************************************************************)
MaxGroupBytes(first) == IF first <= SmallBatch THEN first + SmallBatch ELSE MaxBatch

\* The updates of t's batch, numbered after base in order (SetSequence, Append
\* and InsertInto of WriteBatchInternal).
Updates(t, base) ==
  {[seq |-> base + j, op |-> <<t, opn[t]>>, i |-> j] : j \in 1..req[t].count}

FirstOfGroup(t, entries, end, ok) ==
  group' = [group EXCEPT ![t] =
    [size |-> 1, bytes |-> req[t].bytes, entries |-> entries, end |-> end,
     sync |-> req[t].sync, ok |-> ok, synced |-> TRUE]]

\* The group of a leader that writes nothing: itself.
LoneGroup(t, ok) == FirstOfGroup(t, {}, lastSequence, ok)

CanJoinAnySync(t, u) == \* mutant: a sync write joins a non-sync leader
  req[u].kind = "write" => group[t].bytes + req[u].bytes <= MaxGroupBytes(req[t].bytes)

CanJoin(t, u) ==
  /\ req[u].sync => req[t].sync
  /\ req[u].kind = "write" => group[t].bytes + req[u].bytes <= MaxGroupBytes(req[t].bytes)

JoinedFromBase(t, u) == \* mutant: each batch keeps the group's first number
  [size |-> group[t].size + 1, bytes |-> group[t].bytes + req[u].bytes,
   entries |-> group[t].entries \cup Updates(u, lastSequence),
   end |-> group[t].end + req[u].count,
   sync |-> group[t].sync, ok |-> group[t].ok, synced |-> group[t].synced]

Joined(t, u) ==
  [size |-> group[t].size + 1, bytes |-> group[t].bytes + req[u].bytes,
   entries |-> group[t].entries \cup Updates(u, group[t].end),
   end |-> group[t].end + req[u].count,
   sync |-> group[t].sync, ok |-> group[t].ok, synced |-> group[t].synced]

\* One iteration of BuildBatchGroup's loop, mutex held: the next writer joins,
\* or the group is complete and the leader unlocks.
GroupJoin(t) ==
  /\ pc[t] = "group" /\ mutex = t
  /\ group[t].size < Len(writers) /\ CanJoin(t, writers[group[t].size + 1])
  /\ group' = [group EXCEPT ![t] = Joined(t, writers[group[t].size + 1])]
  /\ UNCHANGED <<mutex, callerVars, awake, writers, done, status, force, delay,
                 dataVars, bgVars, manualVars, shuttingDown, boundVars, acked>>

GroupBuilt(t) ==
  /\ pc[t] = "group" /\ mutex = t
  /\ group[t].size < Len(writers) => ~CanJoin(t, writers[group[t].size + 1])
  /\ pc' = [pc EXCEPT ![t] = "log"]
  /\ mutex' = Null
  /\ UNCHANGED <<req, opn, awake, queueVars, dataVars, bgVars, manualVars,
                 shuttingDown, boundVars, acked>>

(***************************************************************************)
(* Write: push the Writer on the queue and wait to be first or done.       *)
(***************************************************************************)
EnterRoom(t, forced) ==
  /\ pc' = [pc EXCEPT ![t] = "room"]
  /\ mutex' = t
  /\ force' = [force EXCEPT ![t] = forced]
  /\ delay' = [delay EXCEPT ![t] = ~forced]

Enqueue(t) ==
  /\ pc[t] = "idle" /\ mutex = Null /\ ~shuttingDown /\ opn[t] < MaxOps
  /\ \E r \in Requests, levels \in 1..MaxLevels :
       /\ r.kind \in {"write", "compact"}
       /\ r.kind = "write" => levels = 1
       /\ req' = [req EXCEPT ![t] = r]
       /\ mlevels' = [mlevels EXCEPT ![t] = levels]
       /\ IF writers = <<>>
          THEN EnterRoom(t, r.kind = "compact")
          ELSE pc' = [pc EXCEPT ![t] = "queued"] /\ UNCHANGED <<mutex, force, delay>>
  /\ opn' = [opn EXCEPT ![t] = @ + 1]
  /\ done' = [done EXCEPT ![t] = FALSE]
  /\ writers' = Append(writers, t)
  /\ UNCHANGED <<awake, status, group, dataVars, bgVars, manual, mdone, mpieces,
                 shuttingDown, boundVars, acked>>

\* Write returns status to its caller; CompactRange goes on whatever it is,
\* after TEST_CompactMemTable has waited if it was OK.
Return(t, ok) ==
  /\ pc' = [pc EXCEPT ![t] = CASE req[t].kind = "write" -> "idle"
                               [] req[t].kind = "compact" /\ ok -> "flush"
                               [] OTHER -> "manual"]
  /\ acked' = IF ok /\ req[t].kind = "write"
              THEN acked \cup {[op |-> <<t, opn[t]>>, count |-> req[t].count,
                                sync |-> req[t].sync]}
              ELSE acked

IsFrontUntested(t) == TRUE \* mutant: the wait's condition is not re-tested
IsFront(t) == Head(writers) = t

\* The wait on w.cv ends by a signal or spuriously, and the loop re-tests.
WakeQueued(t) ==
  /\ pc[t] = "queued" /\ mutex = Null
  /\ awake' = awake \ {t}
  /\ \/ /\ done[t]
        /\ Return(t, status[t])
        /\ UNCHANGED <<mutex, force, delay>>
     \/ /\ ~done[t] /\ IsFront(t)
        /\ EnterRoom(t, req[t].kind = "compact")
        /\ UNCHANGED acked
     \/ /\ ~done[t] /\ ~IsFront(t)
        /\ UNCHANGED <<pc, mutex, force, delay, acked>>
  /\ UNCHANGED <<req, opn, writers, done, status, group, dataVars, bgVars,
                 manualVars, shuttingDown, boundVars>>

(***************************************************************************)
(* MakeRoomForWrite: the loop, one iteration per action, mutex held.       *)
(***************************************************************************)
InRoom(t) == pc[t] = "room" /\ mutex = t

\* The conditions of the loop's branches, in their order.
NeverErroneous == FALSE \* mutant: MakeRoomForWrite does not look at bg_error_
Erroneous == bgError # "ok"
Slow(t) == ~Erroneous /\ delay[t] /\ level0 >= SlowdownTrigger
Roomy(t) == ~Erroneous /\ ~Slow(t) /\ ~force[t] /\ Cardinality(mem) <= WriteBufferSize
Full(t) == ~Erroneous /\ ~Slow(t) /\ ~Roomy(t)

RoomError(t) ==
  /\ InRoom(t) /\ Erroneous
  /\ pc' = [pc EXCEPT ![t] = "finish"]
  /\ LoneGroup(t, FALSE)
  /\ UNCHANGED <<mutex, req, opn, awake, writers, done, status, force, delay,
                 dataVars, bgVars, manualVars, shuttingDown, boundVars, acked>>

RoomSlowdown(t) ==
  /\ InRoom(t) /\ Slow(t)
  /\ pc' = [pc EXCEPT ![t] = "delay"]
  /\ delay' = [delay EXCEPT ![t] = FALSE]
  /\ mutex' = Null
  /\ UNCHANGED <<req, opn, awake, writers, done, status, force, group, dataVars,
                 bgVars, manualVars, shuttingDown, boundVars, acked>>

\* There is room: a null batch is done, another starts its group.
RoomFound(t) ==
  /\ InRoom(t) /\ Roomy(t)
  /\ IF req[t].kind = "compact"
     THEN pc' = [pc EXCEPT ![t] = "finish"] /\ LoneGroup(t, TRUE)
     ELSE /\ pc' = [pc EXCEPT ![t] = "group"]
          /\ FirstOfGroup(t, Updates(t, lastSequence), lastSequence + req[t].count, TRUE)
  /\ UNCHANGED <<mutex, req, opn, awake, writers, done, status, force, delay, dataVars,
                 bgVars, manualVars, shuttingDown, boundVars, acked>>

\* The memtable is full but the previous one is still being compacted, or
\* there are too many level-0 files.
RoomWait(t) ==
  /\ InRoom(t) /\ Full(t)
  /\ hasImm \/ level0 >= StopTrigger
  /\ pc' = [pc EXCEPT ![t] = "roomwait"]
  /\ mutex' = Null
  /\ UNCHANGED <<req, opn, awake, queueVars, dataVars, bgVars, manualVars,
                 shuttingDown, boundVars, acked>>

\* Switch to a new memtable and a new log file, and schedule the compaction
\* of the old one; or fail to create the log file.
RoomSwitch(t) ==
  /\ InRoom(t) /\ Full(t) /\ ~hasImm /\ level0 < StopTrigger
  /\ NoFault
  /\ imm' = mem /\ hasImm' = TRUE
  /\ mem' = {} /\ log' = {}
  /\ force' = [force EXCEPT ![t] = FALSE]
  /\ UNCHANGED <<shuttingDown, bgError, manualVars, level0, due>>
  /\ MaybeScheduleCompaction(bgScheduled)
  /\ UNCHANGED <<mutex, callerVars, awake, writers, done, status, delay, group,
                 lastSequence, synced, tables, bg, fresh, extra, acked>>

RoomSwitchFails(t) ==
  /\ InRoom(t) /\ Full(t) /\ ~hasImm /\ level0 < StopTrigger
  /\ Fault
  /\ pc' = [pc EXCEPT ![t] = "finish"]
  /\ LoneGroup(t, FALSE)
  /\ UNCHANGED <<mutex, req, opn, awake, writers, done, status, force, delay,
                 dataVars, bgVars, manualVars, shuttingDown, extra, acked>>

\* The sleep, or the wait for background work, is over.
WakeRoom(t) ==
  /\ pc[t] \in {"delay", "roomwait"} /\ mutex = Null
  /\ pc' = [pc EXCEPT ![t] = "room"]
  /\ mutex' = t
  /\ awake' = awake \ {t}
  /\ UNCHANGED <<req, opn, queueVars, dataVars, bgVars, manualVars,
                 shuttingDown, boundVars, acked>>

(***************************************************************************)
(* The leader's unlocked phase: AddRecord, Sync, InsertInto.               *)
(***************************************************************************)
\* A failed AddRecord or Sync skips the rest.
NotSkipped == "insert" \* mutant: InsertInto runs whatever the log's status
Skipped == "commit"

UnlockedStep(t, from, to) == pc[t] = from /\ pc' = [pc EXCEPT ![t] = to]

LogRecord(t) ==
  /\ \/ /\ UnlockedStep(t, "log", IF group[t].sync THEN "sync" ELSE "insert")
        /\ NoFault
        /\ log' = log \cup group[t].entries
        /\ UNCHANGED group
     \/ /\ UnlockedStep(t, "log", Skipped)
        /\ Fault
        /\ group' = [group EXCEPT ![t].ok = FALSE]
        /\ UNCHANGED log
  /\ UNCHANGED <<mutex, req, opn, awake, writers, done, status, force, delay,
                 lastSequence, mem, imm, hasImm, synced, tables, bgVars,
                 manualVars, shuttingDown, extra, acked>>

SyncLog(t) ==
  /\ \/ /\ UnlockedStep(t, "sync", "insert")
        /\ NoFault
        /\ synced' = synced \cup log
        /\ UNCHANGED group
     \/ /\ UnlockedStep(t, "sync", Skipped)
        /\ Fault
        /\ group' = [group EXCEPT ![t].ok = FALSE, ![t].synced = FALSE]
        /\ UNCHANGED synced
  /\ UNCHANGED <<mutex, req, opn, awake, writers, done, status, force, delay,
                 lastSequence, mem, imm, hasImm, log, tables, bgVars,
                 manualVars, shuttingDown, extra, acked>>

\* MemTableInserter adds the group's entries one after the other.
InsertEntry(t) ==
  LET rest == group[t].entries \ mem
  IN  /\ \/ /\ pc[t] = "insert"
            /\ \E e \in rest : /\ \A f \in rest : e.seq <= f.seq
                             /\ mem' = mem \cup {e}
            /\ UNCHANGED pc
         \/ /\ rest = {}
            /\ UnlockedStep(t, "insert", "commit")
            /\ UNCHANGED mem
      /\ UNCHANGED <<mutex, req, opn, awake, queueVars, lastSequence, imm,
                     hasImm, log, synced, tables, bgVars, manualVars,
                     shuttingDown, boundVars, acked>>

\* Relock: a failed sync becomes the background error, and the group's
\* sequence numbers are used up whether or not it was written.
CommittedSequence(t) == group[t].end

Commit(t) ==
  /\ UnlockedStep(t, "commit", "finish")
  /\ mutex = Null /\ mutex' = t
  /\ IF group[t].synced
     THEN UNCHANGED <<bgError, awake>>
     ELSE RecordBackgroundError("sync") /\ awake' = awake \cup ErrorWaiters
  /\ lastSequence' = CommittedSequence(t)
  /\ UNCHANGED <<req, opn, queueVars, mem, imm, hasImm, log, synced, tables,
                 bgScheduled, bg, level0, due, fresh, manualVars, shuttingDown,
                 boundVars, acked>>

(***************************************************************************)
(* Pop the group off the queue, hand each member its status, signal it and *)
(* the queue's new head, unlock and return.                                *)
(***************************************************************************)
Members(t) == {writers[k] : k \in 1..group[t].size} \ {t}
RestKeepsLast(t) == SubSeq(writers, group[t].size, Len(writers)) \* mutant: off by one
Rest(t) == SubSeq(writers, group[t].size + 1, Len(writers))
MemberStatusOK(t) == TRUE \* mutant: followers are told OK
MemberStatus(t) == group[t].ok
NotifiedMembers(t) == Members(t) \* mutant: the new head is not signalled
Notified(t) == Members(t) \cup (IF Rest(t) = <<>> THEN {} ELSE {Head(Rest(t))})

Finish(t) ==
  /\ pc[t] = "finish" /\ mutex = t /\ mutex' = Null
  /\ writers' = Rest(t)
  /\ done' = [u \in Threads |-> done[u] \/ u \in Members(t)]
  /\ status' = [u \in Threads |-> IF u \in Members(t) THEN MemberStatus(t) ELSE status[u]]
  /\ awake' = awake \cup Notified(t)
  /\ Return(t, group[t].ok)
  /\ UNCHANGED <<req, opn, force, delay, group, dataVars, bgVars, manualVars,
                 shuttingDown, boundVars>>

(***************************************************************************)
(* Get: it references the current version under the mutex, reads unlocked, *)
(* and may charge a seek to a file of that version, which makes a          *)
(* compaction due if the version is still current.                         *)
(***************************************************************************)
GetBegin(t) ==
  /\ pc[t] = "idle" /\ mutex = Null /\ ~shuttingDown /\ opn[t] < MaxOps
  /\ \E r \in Requests : r.kind = "get" /\ req' = [req EXCEPT ![t] = r]
  /\ opn' = [opn EXCEPT ![t] = @ + 1]
  /\ pc' = [pc EXCEPT ![t] = "get"]
  /\ fresh' = fresh \cup {t}
  /\ UNCHANGED <<mutex, awake, queueVars, dataVars, bgError, bgScheduled, bg,
                 level0, due, manualVars, shuttingDown, boundVars, acked>>

GetEnd(t) ==
  /\ pc[t] = "get" /\ mutex = Null
  /\ pc' = [pc EXCEPT ![t] = "idle"]
  /\ fresh' = fresh \ {t}
  /\ UNCHANGED <<shuttingDown, bgError, hasImm, manualVars, level0>>
  /\ \/ UNCHANGED <<due, extra, bgScheduled>>
     \/ /\ tables # {} /\ extra < MaxExtra
        /\ extra' = extra + 1
        /\ due' = (due \/ t \in fresh)
        /\ MaybeScheduleCompaction(bgScheduled)
  /\ UNCHANGED <<mutex, req, opn, awake, queueVars, lastSequence, mem, imm, log,
                 synced, tables, bg, faults, acked>>

(***************************************************************************)
(* The rest of CompactRange: TEST_CompactMemTable's wait for the memtable, *)
(* then TEST_CompactRange once per level.                                  *)
(***************************************************************************)
FlushWait(t) ==
  /\ pc[t] \in {"flush", "flushwait"} /\ mutex = Null
  /\ awake' = awake \ {t}
  /\ IF hasImm /\ bgError = "ok"
     THEN pc' = [pc EXCEPT ![t] = "flushwait"]
     ELSE pc' = [pc EXCEPT ![t] = "manual"]
  /\ UNCHANGED <<mutex, req, opn, queueVars, dataVars, bgVars, manualVars,
                 shuttingDown, boundVars, acked>>

\* A caller that leaves cancels its own manual compaction if it is registered.
CancelledAny(t) == Null \* mutant: cancels another caller's compaction too
Cancelled(t) == IF manual = t THEN Null ELSE manual

\* One section of TEST_CompactRange's loop, up to its next wait or its end.
ManualCompact(t) ==
  /\ pc[t] \in {"manual", "manualwait"} /\ mutex = Null
  /\ awake' = awake \ {t}
  /\ UNCHANGED <<shuttingDown, bgError, hasImm, level0, due>>
  /\ \/ /\ ~mdone[t] /\ ~shuttingDown /\ bgError = "ok"
        /\ manual' = IF manual = Null THEN t ELSE manual
        /\ IF manual = Null THEN MaybeScheduleCompaction(bgScheduled)
                            ELSE UNCHANGED bgScheduled
        /\ IF pc[t] = "manual" THEN mpieces' = [mpieces EXCEPT ![t] = MaxPieces]
                               ELSE UNCHANGED mpieces
        /\ pc' = [pc EXCEPT ![t] = "manualwait"]
        /\ UNCHANGED <<mdone, mlevels>>
     \/ /\ mdone[t] \/ shuttingDown \/ bgError # "ok"
        /\ manual' = Cancelled(t)
        /\ mlevels' = [mlevels EXCEPT ![t] = @ - 1]
        /\ pc' = [pc EXCEPT ![t] = IF mlevels[t] > 1 THEN "manual" ELSE "idle"]
        /\ mdone' = [mdone EXCEPT ![t] = FALSE]
        /\ UNCHANGED <<mpieces, bgScheduled>>
  /\ UNCHANGED <<mutex, req, opn, queueVars, lastSequence, mem, imm, log, synced,
                 tables, bg, fresh, boundVars, acked>>

(***************************************************************************)
(* ~DBImpl, when the DB's users are done with it: no more background work  *)
(* is scheduled, and the destructor waits for the work under way.          *)
(***************************************************************************)
Close(t) ==
  /\ mutex = Null
  /\ \/ ~shuttingDown /\ \A u \in Threads : pc[u] = "idle"
     \/ pc[t] = "closewait"
  /\ awake' = awake \ {t}
  /\ shuttingDown' = TRUE
  /\ pc' = [pc EXCEPT ![t] = IF bgScheduled THEN "closewait" ELSE "closed"]
  /\ UNCHANGED <<mutex, req, opn, queueVars, dataVars, bgVars, manualVars,
                 boundVars, acked>>

Writer(t) ==
  \/ Enqueue(t) \/ WakeQueued(t)
  \/ RoomError(t) \/ RoomSlowdown(t) \/ RoomFound(t) \/ RoomWait(t)
  \/ RoomSwitch(t) \/ RoomSwitchFails(t) \/ WakeRoom(t)
  \/ GroupJoin(t) \/ GroupBuilt(t)
  \/ LogRecord(t) \/ SyncLog(t) \/ InsertEntry(t) \/ Commit(t) \/ Finish(t)

Caller(t) ==
  Writer(t) \/ GetBegin(t) \/ GetEnd(t) \/ FlushWait(t) \/ ManualCompact(t) \/ Close(t)
==============================================================================
