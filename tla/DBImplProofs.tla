----------------------------- MODULE DBImplProofs -----------------------------
(***************************************************************************)
(* Proofs about DBImpl for every set of threads, requests and bounds:      *)
(* types and the shape of the writer queue, then signals and background    *)
(* work, then what becomes of a batch.                                     *)
(*                                                                         *)
(* The inductive invariant is types, counters and the shape of the writer  *)
(* queue together: a thread past the queue is its first writer, which is   *)
(* so because a thread is in the queue exactly while it leads or waits,    *)
(* never twice, and a leader's group is a prefix of the queue.             *)
(***************************************************************************)
EXTENDS DBImpl, SequenceTheorems, TLAPS

Typed == TypeOK /\ InputsFit /\ LevelsLeft

LEMMA InitTyped == Init => Typed
<1> SUFFICES ASSUME InitState PROVE Typed
  BY DEF Init
<1>1. CallersOK
  BY DEF InitState, CallersOK, Request0, RequestSpace, CallerPCs
<1>2. QueueOK
  <2>1. [size |-> 0, bytes |-> 0, entries |-> {}, end |-> 0, sync |-> FALSE,
         ok |-> TRUE, synced |-> TRUE] \in Group
    BY DEF Group
  <2>2. QED  BY <2>1 DEF InitState, QueueOK
<1>3. DataOK
  BY DEF InitState, DataOK
<1>4. BackgroundOK
  BY DEF InitState, BackgroundOK, BgIdle, Background, BgKinds
<1>5. InputsFit /\ LevelsLeft
  BY DEF InitState, InputsFit, LevelsLeft, BgIdle
<1>6. QED  BY <1>1, <1>2, <1>3, <1>4, <1>5 DEF Typed, TypeOK

\* t's updates are entries.
LEMMA UpdatesType ==
  ASSUME Typed, NEW t \in Threads, NEW base \in Nat
  PROVE  Updates(t, base) \subseteq Entry
<1>1. req[t].count \in Nat /\ opn[t] \in Nat
  BY DEF Typed, TypeOK, CallersOK, RequestSpace
<1>2. ASSUME NEW j \in 1..req[t].count
      PROVE  [seq |-> base + j, op |-> <<t, opn[t]>>, i |-> j] \in Entry
  BY <1>1 DEF Entry, Op
<1>3. QED  BY <1>2 DEF Updates


(***************************************************************************)
(* Callers.  One lemma per part of the invariant; a step that leaves the   *)
(* part's variables alone is one case.                                     *)
(***************************************************************************)
LEMMA CallersTyped ==
  ASSUME Typed, NEW t \in Threads, Caller(t), GroupFits
  PROVE  CallersOK'
<1> USE DEF Typed, TypeOK, CallersOK, CallerPCs, BgWaits, Unlocked
<1>1. CASE Enqueue(t)
  <2>1. PICK r \in Requests : /\ req' = [req EXCEPT ![t] = r]
                              /\ \/ pc' = [pc EXCEPT ![t] = "room"] /\ mutex' = t
                                 \/ pc' = [pc EXCEPT ![t] = "queued"] /\ UNCHANGED mutex
    BY <1>1, Zenon DEF Enqueue, EnterRoom
  <2>2. req' \in [Threads -> RequestSpace]
    BY <2>1, RequestsAssumption DEF RequestSpace
  <2>3. opn' \in [Threads -> Nat] /\ awake' = awake
    BY <1>1 DEF Enqueue
  <2>4. pc' \in [Threads -> CallerPCs] /\ mutex' \in Threads \cup {Null}
    BY <2>1
  <2>5. QED  BY <2>2, <2>3, <2>4
<1>2. CASE GetBegin(t)
  <2>1. PICK r \in Requests : req' = [req EXCEPT ![t] = r]
    BY <1>2 DEF GetBegin
  <2>2. req' \in [Threads -> RequestSpace]
    BY <2>1, RequestsAssumption DEF RequestSpace
  <2>3. opn' \in [Threads -> Nat] /\ awake' = awake /\ mutex' = mutex
        /\ pc' = [pc EXCEPT ![t] = "get"]
    BY <1>2 DEF GetBegin
  <2>4. QED  BY <2>2, <2>3
<1>3. CASE Finish(t)
  <2>1. group[t].size \in Nat /\ writers \in Seq(Threads)
    BY DEF QueueOK, Group
  <2>2. awake' \subseteq Threads
    <3>1. Members(t) \subseteq Threads
      BY <1>3, <2>1 DEF Finish, Members, GroupFits, Grouped
    <3>2. Rest(t) \in Seq(Threads)
      BY <2>1, SubSeqProperties DEF Rest
    <3>3. Rest(t) # <<>> => Head(Rest(t)) \in Threads
      BY <3>2, HeadTailProperties
    <3>4. QED  BY <1>3, <3>1, <3>3 DEF Finish, Notified
  <2>3. pc' \in [Threads -> CallerPCs]
    BY <1>3 DEF Finish, Return
  <2>4. QED  BY <1>3, <2>2, <2>3 DEF Finish
<1>4. CASE WakeQueued(t)      BY <1>4 DEF WakeQueued, IsFront, EnterRoom, Return
<1>5. CASE RoomError(t)       BY <1>5 DEF RoomError
<1>6. CASE RoomSlowdown(t)    BY <1>6 DEF RoomSlowdown
<1>7. CASE RoomFound(t)       BY <1>7 DEF RoomFound
<1>8. CASE RoomWait(t)        BY <1>8 DEF RoomWait
<1>9. CASE RoomSwitch(t)      BY <1>9 DEF RoomSwitch, callerVars
<1>10. CASE RoomSwitchFails(t) BY <1>10 DEF RoomSwitchFails
<1>11. CASE WakeRoom(t)       BY <1>11 DEF WakeRoom
<1>12. CASE GroupJoin(t)      BY <1>12 DEF GroupJoin, callerVars
<1>13. CASE GroupBuilt(t)     BY <1>13 DEF GroupBuilt
<1>14. CASE LogRecord(t)      BY <1>14 DEF LogRecord, UnlockedStep, Skipped
<1>15. CASE SyncLog(t)        BY <1>15 DEF SyncLog, UnlockedStep, Skipped
<1>16. CASE InsertEntry(t)    BY <1>16 DEF InsertEntry, UnlockedStep
<1>17. CASE Commit(t)
  BY <1>17 DEF Commit, UnlockedStep, ErrorWaiters, BgWaiters
<1>18. CASE GetEnd(t)         BY <1>18 DEF GetEnd
<1>19. CASE FlushWait(t)      BY <1>19 DEF FlushWait
<1>20. CASE ManualCompact(t)  BY <1>20 DEF ManualCompact
<1>21. CASE Close(t)          BY <1>21 DEF Close
<1>22. QED
  BY <1>1, <1>2, <1>3, <1>4, <1>5, <1>6, <1>7, <1>8, <1>9, <1>10, <1>11, <1>12,
     <1>13, <1>14, <1>15, <1>16, <1>17, <1>18, <1>19, <1>20, <1>21 DEF Caller, Writer

LEMMA QueueTyped ==
  ASSUME Typed, NEW t \in Threads, Caller(t), GroupFits
  PROVE  QueueOK'
<1> USE DEF Typed, TypeOK, QueueOK, queueVars
<1>0. group[t] \in Group /\ req[t] \in RequestSpace /\ lastSequence \in Nat
  BY DEF CallersOK, DataOK
<1>1. CASE UNCHANGED queueVars
  BY <1>1
<1>2. CASE Enqueue(t)
  <2>1. writers' \in Seq(Threads) /\ done' \in [Threads -> BOOLEAN]
        /\ UNCHANGED <<status, group>>
    BY <1>2 DEF Enqueue
  <2>2. force' \in [Threads -> BOOLEAN] /\ delay' \in [Threads -> BOOLEAN]
    <3>1. \/ \E b \in BOOLEAN : /\ force' = [force EXCEPT ![t] = b]
                                /\ delay' = [delay EXCEPT ![t] = ~b]
          \/ UNCHANGED <<force, delay>>
      BY <1>2 DEF Enqueue, EnterRoom
    <3>2. QED  BY <3>1
  <2>3. QED  BY <2>1, <2>2
<1>3. CASE WakeQueued(t)
  BY <1>3 DEF WakeQueued, IsFront, EnterRoom
<1>4. ASSUME NEW e \in SUBSET Entry, NEW n \in Nat, NEW b \in BOOLEAN,
             FirstOfGroup(t, e, n, b)
      PROVE  group' \in [Threads -> Group]
  BY <1>0, <1>4 DEF FirstOfGroup, Group, RequestSpace
<1>5. ASSUME NEW b \in BOOLEAN, LoneGroup(t, b)
      PROVE  group' \in [Threads -> Group]
  BY <1>0, <1>4, <1>5 DEF LoneGroup
<1>6. CASE RoomError(t)
  BY <1>5, <1>6 DEF RoomError
<1>7. CASE RoomSlowdown(t)
  BY <1>7 DEF RoomSlowdown
<1>8. CASE RoomFound(t)
  <2>1. Updates(t, lastSequence) \in SUBSET Entry /\ lastSequence + req[t].count \in Nat
    BY <1>0, UpdatesType DEF RequestSpace
  <2>2. group' \in [Threads -> Group]
    BY <1>8, <1>4, <1>5, <2>1 DEF RoomFound
  <2>3. QED  BY <1>8, <2>2 DEF RoomFound
<1>9. CASE RoomSwitch(t)
  BY <1>9 DEF RoomSwitch
<1>10. CASE RoomSwitchFails(t)
  BY <1>10, <1>5 DEF RoomSwitchFails
<1>11. CASE GroupJoin(t)
  <2> DEFINE u == writers[group[t].size + 1]
  <2>1. u \in Threads
    BY <1>11, <1>0, ElementOfSeq DEF GroupJoin, Group
  <2>2. req[u] \in RequestSpace
    BY <2>1 DEF CallersOK
  <2>3. Updates(u, group[t].end) \subseteq Entry
    BY <2>1, <1>0, UpdatesType DEF Group
  <2>4. Joined(t, u) \in Group
    <3>1. req[u].bytes \in Nat /\ req[u].count \in Nat
      BY <2>2 DEF RequestSpace
    <3> HIDE DEF u
    <3>2. /\ group[t].size \in Nat /\ group[t].bytes \in Nat /\ group[t].end \in Nat
          /\ group[t].entries \in SUBSET Entry /\ group[t].sync \in BOOLEAN
          /\ group[t].ok \in BOOLEAN /\ group[t].synced \in BOOLEAN
      BY <1>0 DEF Group
    <3>3. group[t].entries \cup Updates(u, group[t].end) \in SUBSET Entry
      BY <2>3, <3>2
    <3>4. QED  BY <3>1, <3>2, <3>3 DEF Joined, Group
  <2>5. QED  BY <1>11, <2>4 DEF GroupJoin
<1>12. CASE LogRecord(t)
  <2>1. [group[t] EXCEPT !.ok = FALSE] \in Group
    BY <1>0 DEF Group
  <2>2. group' = group \/ group' = [group EXCEPT ![t] = [group[t] EXCEPT !.ok = FALSE]]
    BY <1>12 DEF LogRecord
  <2>3. QED  BY <1>12, <2>1, <2>2 DEF LogRecord
<1>13. CASE SyncLog(t)
  <2>1. [[group[t] EXCEPT !.ok = FALSE] EXCEPT !.synced = FALSE] \in Group
    BY <1>0 DEF Group
  <2>2. \/ group' = group
        \/ group' = [group EXCEPT ![t] =
             [[group[t] EXCEPT !.ok = FALSE] EXCEPT !.synced = FALSE]]
    BY <1>13 DEF SyncLog
  <2>3. QED  BY <1>13, <2>1, <2>2 DEF SyncLog
<1>14. CASE Finish(t)
  <2>1. group[t].size \in Nat /\ group[t].ok \in BOOLEAN
    BY <1>0 DEF Group
  <2>2. writers' \in Seq(Threads)
    BY <1>14, <2>1, SubSeqProperties DEF Finish, Rest
  <2>3. done' \in [Threads -> BOOLEAN] /\ status' \in [Threads -> BOOLEAN]
    BY <1>14, <2>1 DEF Finish, MemberStatus
  <2>4. QED  BY <1>14, <2>2, <2>3 DEF Finish
<1>15. QED
  <2>1. ASSUME RoomWait(t) \/ WakeRoom(t) \/ GroupBuilt(t) \/ InsertEntry(t) \/ Commit(t)
               \/ GetBegin(t) \/ GetEnd(t) \/ FlushWait(t) \/ ManualCompact(t) \/ Close(t)
        PROVE  UNCHANGED queueVars
    BY <2>1 DEF RoomWait, WakeRoom, GroupBuilt, InsertEntry, Commit, GetBegin, GetEnd,
                FlushWait, ManualCompact, Close
  <2>2. QED
    BY <2>1, <1>1, <1>2, <1>3, <1>6, <1>7, <1>8, <1>9, <1>10, <1>11, <1>12, <1>13,
       <1>14 DEF Caller, Writer


LEMMA DataTyped ==
  ASSUME Typed, NEW t \in Threads, Caller(t)
  PROVE  DataOK'
<1> USE DEF Typed, TypeOK, DataOK, dataVars
<1>0. group[t].end \in Nat /\ group[t].entries \subseteq Entry
  BY DEF QueueOK, Group
<1>1. CASE UNCHANGED dataVars
  BY <1>1
<1>2. CASE RoomSwitch(t)
  BY <1>2 DEF RoomSwitch
<1>3. CASE LogRecord(t)
  BY <1>3, <1>0 DEF LogRecord
<1>4. CASE SyncLog(t)
  BY <1>4 DEF SyncLog
<1>5. CASE InsertEntry(t)
  <2>1. mem' \subseteq mem \cup group[t].entries
    BY <1>5 DEF InsertEntry
  <2>2. QED  BY <1>5, <1>0, <2>1 DEF InsertEntry
<1>6. CASE Commit(t)
  BY <1>6, <1>0 DEF Commit, CommittedSequence
<1>7. QED
  <2>1. ASSUME Enqueue(t) \/ WakeQueued(t) \/ RoomError(t) \/ RoomSlowdown(t)
               \/ RoomFound(t) \/ RoomWait(t) \/ RoomSwitchFails(t) \/ WakeRoom(t)
               \/ GroupJoin(t) \/ GroupBuilt(t) \/ Finish(t)
               \/ GetBegin(t) \/ GetEnd(t) \/ FlushWait(t) \/ ManualCompact(t) \/ Close(t)
        PROVE  UNCHANGED dataVars
    BY <2>1 DEF Enqueue, WakeQueued, RoomError, RoomSlowdown, RoomFound, RoomWait,
       RoomSwitchFails, WakeRoom, GroupJoin, GroupBuilt, Finish, GetBegin, GetEnd,
       FlushWait, ManualCompact, Close
  <2>2. QED
    BY <2>1, <1>1, <1>2, <1>3, <1>4, <1>5, <1>6 DEF Caller, Writer

\* The write that returns is recorded with its operation.
LEMMA ReturnTyped ==
  ASSUME Typed, NEW t \in Threads, NEW ok \in BOOLEAN, Return(t, ok)
  PROVE  acked' \subseteq [op : Op, count : Nat, sync : BOOLEAN]
<1>1. [op |-> <<t, opn[t]>>, count |-> req[t].count, sync |-> req[t].sync]
        \in [op : Op, count : Nat, sync : BOOLEAN]
  BY DEF Typed, TypeOK, CallersOK, RequestSpace, Op
<1>2. QED
  BY <1>1 DEF Return, Typed, TypeOK, BackgroundOK

LEMMA SharedTyped ==
  ASSUME Typed, NEW t \in Threads, Caller(t)
  PROVE  BackgroundOK'
<1> USE DEF Typed, TypeOK, BackgroundOK, bgVars, manualVars, boundVars
<1>1. CASE UNCHANGED <<bgVars, manualVars, shuttingDown, boundVars, acked>>
  BY <1>1
<1>2. CASE Enqueue(t)
  <2>1. mlevels' \in [Threads -> Nat]
    BY <1>2, NumbersAssumption DEF Enqueue
  <2>2. QED  BY <1>2, <2>1 DEF Enqueue
<1>3. CASE WakeQueued(t)
  <2>1. acked' \subseteq [op : Op, count : Nat, sync : BOOLEAN]
    <3>1. status[t] \in BOOLEAN
      BY DEF QueueOK
    <3>2. Return(t, status[t]) \/ UNCHANGED acked
      BY <1>3 DEF WakeQueued
    <3>3. QED  BY <3>1, <3>2, ReturnTyped
  <2>2. QED  BY <1>3, <2>1 DEF WakeQueued
<1>4. CASE Finish(t)
  <2>1. group[t].ok \in BOOLEAN /\ Return(t, group[t].ok)
    BY <1>4 DEF Finish, QueueOK, Group
  <2>2. acked' \subseteq [op : Op, count : Nat, sync : BOOLEAN]
    BY <2>1, ReturnTyped
  <2>3. QED  BY <1>4, <2>2 DEF Finish
<1>5. CASE RoomSwitch(t)
  BY <1>5 DEF RoomSwitch, NoFault, MaybeScheduleCompaction
<1>6. CASE RoomSwitchFails(t)
  BY <1>6 DEF RoomSwitchFails, Fault
<1>7. CASE LogRecord(t)
  BY <1>7 DEF LogRecord, Fault, NoFault
<1>8. CASE SyncLog(t)
  BY <1>8 DEF SyncLog, Fault, NoFault
<1>9. CASE Commit(t)
  BY <1>9 DEF Commit, RecordBackgroundError
<1>10. CASE GetBegin(t)
  BY <1>10 DEF GetBegin
<1>11. CASE GetEnd(t)
  <2>0. \/ due' = due /\ extra' = extra
        \/ due' = (due \/ t \in fresh) /\ extra' = extra + 1
    BY <1>11, Zenon DEF GetEnd
  <2>1. extra' \in Nat
    BY <2>0
  <2>3. due' \in BOOLEAN
    <3>1. (due \/ t \in fresh) \in BOOLEAN
      OBVIOUS
    <3>2. QED  BY <2>0, <3>1, Zenon
  <2>2. bgScheduled' \in BOOLEAN
    BY <1>11 DEF GetEnd, MaybeScheduleCompaction
  <2>4. QED  BY <1>11, <2>1, <2>2, <2>3 DEF GetEnd
<1>12. CASE ManualCompact(t)
  <2>1. bgScheduled' \in BOOLEAN
    BY <1>12 DEF ManualCompact, MaybeScheduleCompaction
  <2>2. manual' \in Threads \cup {Null} /\ mdone' \in [Threads -> BOOLEAN]
        /\ mpieces' \in [Threads -> Nat]
    BY <1>12, NumbersAssumption DEF ManualCompact, Cancelled
  <2>3. mlevels' \in [Threads -> Nat]
    <3>1. mlevels[t] > 0
      BY <1>12 DEF ManualCompact, LevelsLeft
    <3>2. mlevels' = mlevels \/ mlevels' = [mlevels EXCEPT ![t] = @ - 1]
      BY <1>12 DEF ManualCompact
    <3>3. QED  BY <3>1, <3>2
  <2>4. QED  BY <1>12, <2>1, <2>2, <2>3 DEF ManualCompact
<1>13. CASE Close(t)
  BY <1>13 DEF Close
<1>14. QED
  <2>1. ASSUME RoomError(t) \/ RoomSlowdown(t) \/ RoomFound(t) \/ RoomWait(t)
               \/ WakeRoom(t) \/ GroupJoin(t) \/ GroupBuilt(t) \/ InsertEntry(t)
               \/ FlushWait(t)
        PROVE  UNCHANGED <<bgVars, manualVars, shuttingDown, boundVars, acked>>
    BY <2>1 DEF RoomError, RoomSlowdown, RoomFound, RoomWait, WakeRoom, GroupJoin,
       GroupBuilt, InsertEntry, FlushWait
  <2>2. QED
    BY <2>1, <1>1, <1>2, <1>3, <1>4, <1>5, <1>6, <1>7, <1>8, <1>9, <1>10, <1>11,
       <1>12, <1>13 DEF Caller, Writer

\* A caller leaves bg and level0 alone, and a CompactRange call ends when it
\* runs out of levels.
LEMMA CallerCounters ==
  ASSUME Typed, NEW t \in Threads, Caller(t)
  PROVE  InputsFit' /\ LevelsLeft'
<1>1. UNCHANGED <<bg, level0>>
  BY DEF Caller, Writer, bgVars, Enqueue, WakeQueued, RoomError, RoomSlowdown, RoomFound, RoomWait, RoomSwitch,
     RoomSwitchFails, WakeRoom, GroupJoin, GroupBuilt, LogRecord, SyncLog, InsertEntry,
     Commit, Finish, GetBegin, GetEnd, FlushWait, ManualCompact, Close
<1>2. InputsFit'
  BY <1>1 DEF InputsFit, Typed
<1> DEFINE Free == {"idle", "get", "closed", "closewait"}
<1>3. pc \in [Threads -> CallerPCs] /\ mlevels \in [Threads -> Nat]
  BY DEF Typed, TypeOK, CallersOK, BackgroundOK
<1>4. ASSUME UNCHANGED mlevels, pc[t] \notin Free,
             \A u \in Threads \ {t} : pc'[u] = pc[u]
      PROVE  LevelsLeft'
  BY <1>4 DEF LevelsLeft, Typed
<1>5. ASSUME UNCHANGED mlevels, pc'[t] \in Free,
             \A u \in Threads \ {t} : pc'[u] = pc[u]
      PROVE  LevelsLeft'
  BY <1>5 DEF LevelsLeft, Typed
<1>6. CASE Enqueue(t)
  <2>1. \E x \in CallerPCs : pc' = [pc EXCEPT ![t] = x]
    BY <1>6 DEF Enqueue, EnterRoom, CallerPCs
  <2>2. \E n \in 1..MaxLevels : mlevels' = [mlevels EXCEPT ![t] = n]
    BY <1>6 DEF Enqueue
  <2>3. QED  BY <1>2, <1>3, <2>1, <2>2, NumbersAssumption DEF LevelsLeft, Typed
<1>7. CASE ManualCompact(t)
  <2>1. mlevels[t] > 0
    BY <1>7 DEF ManualCompact, LevelsLeft, Typed
  <2>2. CASE UNCHANGED mlevels
    BY <1>2, <1>3, <1>4, <1>7, <2>2 DEF ManualCompact
  <2>3. CASE mlevels' = [mlevels EXCEPT ![t] = @ - 1]
             /\ pc' = [pc EXCEPT ![t] = IF mlevels[t] > 1 THEN "manual" ELSE "idle"]
    BY <1>2, <1>3, <2>1, <2>3 DEF LevelsLeft, Typed
  <2>4. QED  BY <1>7, <2>2, <2>3 DEF ManualCompact
<1>8. CASE GetBegin(t) \/ GetEnd(t) \/ Close(t)
  BY <1>8, <1>2, <1>3, <1>5 DEF GetBegin, GetEnd, Close, manualVars
<1>9. CASE WakeQueued(t) \/ Finish(t)
  <2>1. UNCHANGED mlevels /\ pc[t] \notin Free
    BY <1>9 DEF WakeQueued, Finish, manualVars
  <2>2. \A u \in Threads \ {t} : pc'[u] = pc[u]
    BY <1>9, <1>3 DEF WakeQueued, Finish, Return, EnterRoom
  <2>3. QED  BY <1>2, <2>1, <2>2, <1>4
<1>10. CASE RoomError(t) \/ RoomSlowdown(t) \/ RoomFound(t) \/ RoomWait(t)
            \/ RoomSwitch(t) \/ RoomSwitchFails(t) \/ WakeRoom(t)
            \/ GroupJoin(t) \/ GroupBuilt(t)
  <2>1. UNCHANGED mlevels /\ pc[t] \notin Free
    BY <1>10 DEF RoomError, RoomSlowdown, RoomFound, RoomWait, RoomSwitch,
       RoomSwitchFails, WakeRoom, GroupJoin, GroupBuilt, InRoom, manualVars
  <2>2. \A u \in Threads \ {t} : pc'[u] = pc[u]
    BY <1>10, <1>3 DEF RoomError, RoomSlowdown, RoomFound, RoomWait, RoomSwitch,
       RoomSwitchFails, WakeRoom, GroupJoin, GroupBuilt, callerVars
  <2>3. QED  BY <1>2, <2>1, <2>2, <1>4
<1>11. CASE LogRecord(t) \/ SyncLog(t) \/ InsertEntry(t) \/ Commit(t) \/ FlushWait(t)
  <2>1. UNCHANGED mlevels /\ pc[t] \notin Free
    BY <1>11 DEF LogRecord, SyncLog, InsertEntry, Commit, FlushWait, UnlockedStep, Skipped,
       manualVars
  <2>2. \A u \in Threads \ {t} : pc'[u] = pc[u]
    BY <1>11, <1>3 DEF LogRecord, SyncLog, InsertEntry, Commit, FlushWait, UnlockedStep, Skipped, Skipped
  <2>3. QED  BY <1>2, <2>1, <2>2, <1>4
<1>12. QED
  BY <1>2, <1>6, <1>7, <1>8, <1>9, <1>10, <1>11 DEF Caller, Writer


(***************************************************************************)
(* The background thread.                                                  *)
(***************************************************************************)
\* Where a background call goes on or ends, seen by types.
LEMMA EndCallTyped ==
  ASSUME Typed, NEW m \in BOOLEAN, NEW o \in BOOLEAN, NEW w \in SUBSET Threads,
         EndCall(m, o, w)
  PROVE  /\ bg' \in Background /\ bg'.inputs = 0
         /\ mdone' \in [Threads -> BOOLEAN] /\ manual' \in Threads \cup {Null}
         /\ awake' \subseteq Threads /\ bgScheduled' \in BOOLEAN
<1> USE DEF Typed, TypeOK, CallersOK, BackgroundOK
<1>1. BgIdle \in Background /\ [BgIdle EXCEPT !.pc = "crashed"] \in Background
      /\ BgIdle.inputs = 0 /\ [BgIdle EXCEPT !.pc = "crashed"].inputs = 0
  BY DEF BgIdle, Background, BgKinds
<1>2. BgWaiters \subseteq Threads
  BY DEF BgWaiters
<1>3. CASE m /\ manual = Null
  BY <1>1, <1>2, <1>3 DEF EndCall
<1>4. CASE ~(m /\ manual = Null)
  <2>1. bg' = BgIdle /\ awake' \subseteq Threads
    BY <1>2, <1>4 DEF EndCall
  <2>2. mdone' \in [Threads -> BOOLEAN]
    BY <1>4 DEF EndCall
  <2>3. manual' \in Threads \cup {Null}
    BY <1>4 DEF EndCall
  <2>4. bgScheduled' \in BOOLEAN
    BY <1>4 DEF EndCall, MaybeScheduleCompaction
  <2>5. QED  BY <1>1, <2>1, <2>2, <2>3, <2>4
<1>5. QED  BY <1>3, <1>4

LEMMA FlushReturnsTyped ==
  ASSUME Typed, NEW w \in SUBSET Threads, FlushReturns(w),
         bg.kind = "memtable" \/ bg.pc = "build" \/ bg.pc = "install"
  PROVE  /\ bg' \in Background /\ (bg'.inputs <= level0)
         /\ mdone' \in [Threads -> BOOLEAN] /\ manual' \in Threads \cup {Null}
         /\ awake' \subseteq Threads /\ bgScheduled' \in BOOLEAN
<1> USE DEF Typed, TypeOK, CallersOK, BackgroundOK
<1>0. level0 \in Nat /\ bg.inputs <= level0
  BY DEF InputsFit
<1>1. CASE bg.nested
  <2>1. bg' = [[[bg EXCEPT !.pc = "compact"] EXCEPT !.kind = "tables"] EXCEPT !.nested = FALSE]
    BY <1>1 DEF FlushReturns
  <2>2. bg' \in Background /\ bg'.inputs = bg.inputs
    BY <2>1 DEF Background, BgKinds
  <2>3. QED  BY <1>0, <1>1, <2>2 DEF FlushReturns, BgWaiters
<1>2. CASE ~bg.nested
  <2>1. EndCall(FALSE, FALSE, w)
    BY <1>2 DEF FlushReturns
  <2>2. /\ bg' \in Background /\ bg'.inputs = 0
        /\ mdone' \in [Threads -> BOOLEAN] /\ manual' \in Threads \cup {Null}
        /\ awake' \subseteq Threads /\ bgScheduled' \in BOOLEAN
    <3>1. FALSE \in BOOLEAN
      OBVIOUS
    <3> HIDE DEF Typed, TypeOK, CallersOK, BackgroundOK
    <3>2. QED  BY <2>1, <3>1, EndCallTyped, Zenon
  <2>3. QED  BY <1>0, <2>2
<1>3. QED  BY <1>1, <1>2

LEMMA BackgroundTyped ==
  ASSUME Typed, BackgroundThread
  PROVE  Typed'
<1> USE DEF Untouched, NoData, NoVersion, NoFault, Fault
<1>1. bg \in Background /\ level0 \in Nat /\ faults \in Nat /\ extra \in Nat
      /\ ErrorWaiters \in SUBSET Threads /\ BgWaiters \subseteq Threads
  BY DEF Typed, TypeOK, BackgroundOK, ErrorWaiters, BgWaiters
\* What every background step leaves alone.
<1>2. QueueOK' /\ UNCHANGED <<mutex, pc, req, opn, mlevels, shuttingDown, acked,
                              lastSequence, mem, log, synced>>
  BY DEF BackgroundThread, BgSkip, BgFlush, BgManualOver, BgManual, BgPick, BgNestedFlush,
     BgMerged, BgCompactionFails, BgInstallTables, BgCollected, BgBuilt, BgFlushFails,
     BgInstallMemTable, BgMemTableCollected, Typed, TypeOK, QueueOK, queueVars, callerVars
<1>3. DataOK'
  <2>1. CASE BgInstallMemTable
    BY <1>2, <2>1 DEF BgInstallMemTable, Flushed, Typed, TypeOK, DataOK
  <2>2. CASE ~BgInstallMemTable
    BY <1>2, <2>2 DEF BackgroundThread, BgSkip, BgFlush, BgManualOver, BgManual, BgPick,
       BgNestedFlush, BgMerged, BgCompactionFails, BgInstallTables, BgCollected, BgBuilt,
       BgFlushFails, BgMemTableCollected, Typed, TypeOK, DataOK
  <2>3. QED  BY <2>1, <2>2
<1>4. LevelsLeft'
  BY <1>2 DEF Typed, LevelsLeft
\* What is left to show of each step.
<1> DEFINE Good == /\ bg' \in Background /\ InputsFit'
                   /\ mdone' \in [Threads -> BOOLEAN] /\ manual' \in Threads \cup {Null}
                   /\ awake' \subseteq Threads /\ bgScheduled' \in BOOLEAN
                   /\ mpieces' \in [Threads -> Nat] /\ bgError' \in {"ok", "bg", "sync"}
                   /\ level0' \in Nat /\ due' \in BOOLEAN /\ fresh' \subseteq Threads
                   /\ extra' \in Nat /\ faults' \in Nat
<1>5. ASSUME Good PROVE Typed'
  <2>1. CallersOK'
    BY <1>2, <1>5 DEF Typed, TypeOK, CallersOK
  <2>2. BackgroundOK'
    BY <1>2, <1>5 DEF Typed, TypeOK, BackgroundOK
  <2>3. QED  BY <1>2, <1>3, <1>4, <1>5, <2>1, <2>2 DEF Typed, TypeOK
\* Steps that move bg.pc on and nothing else of the shared state.
<1>6. ASSUME UNCHANGED <<bgError, bgScheduled, awake, manual, mdone, level0, due, fresh,
                         extra, faults>>,
             mpieces' \in [Threads -> Nat],
             bg' \in Background, bg'.inputs <= level0 \/ (bg'.pc = "gc" /\ bg'.kind # "memtable")
      PROVE  Good
  BY <1>1, <1>6 DEF Typed, TypeOK, CallersOK, BackgroundOK, InputsFit
\* Steps that end the call.
<1>7. ASSUME NEW m \in BOOLEAN, NEW o \in BOOLEAN, NEW w \in SUBSET Threads,
             EndCall(m, o, w), bgError' \in {"ok", "bg", "sync"}, UNCHANGED mpieces,
             level0' \in Nat, due' \in BOOLEAN, fresh' \subseteq Threads,
             extra' \in Nat, faults' \in Nat
      PROVE  Good
  BY <1>7, EndCallTyped DEF Typed, TypeOK, BackgroundOK, InputsFit
<1>8. ASSUME UNCHANGED <<bgError, mpieces, level0, due, fresh, extra, faults>>,
             NEW m \in BOOLEAN, NEW o \in BOOLEAN, EndCall(m, o, {})
      PROVE  Good
  BY <1>7, <1>8 DEF Typed, TypeOK, BackgroundOK
<1>9. bgError \in {"ok", "bg", "sync"} /\ due \in BOOLEAN /\ fresh \subseteq Threads
      /\ mpieces \in [Threads -> Nat]
  BY DEF Typed, TypeOK, BackgroundOK
<1>10. bg.manual \in BOOLEAN
  BY <1>1 DEF Background
<1>11. CASE BgSkip \/ BgManualOver \/ BgCollected
  BY <1>11, <1>5, <1>8, <1>10 DEF BgSkip, BgManualOver, BgCollected
<1>12. CASE BgFlush
  <2>1. [BgIdle EXCEPT !.pc = "build"] \in Background
        /\ [BgIdle EXCEPT !.pc = "build"].inputs = 0
    BY DEF BgIdle, Background, BgKinds
  <2>2. QED  BY <1>12, <1>1, <1>5, <1>6, <1>9, <2>1 DEF BgFlush
<1>13. CASE BgManual
  <2>1. manual \in Threads /\ mpieces[manual] \in Nat \ {0}
    BY <1>13, <1>9 DEF BgManual, MayCompact, Typed, TypeOK, BackgroundOK
  <2>2. mpieces' \in [Threads -> Nat]
    BY <1>13, <1>9, <2>1 DEF BgManual
  <2>3. bg' \in Background /\ bg'.inputs <= level0
    BY <1>13, <1>1 DEF BgManual, Background, BgKinds
  <2>4. QED  BY <1>13, <1>5, <1>6, <2>2, <2>3 DEF BgManual
<1>14. CASE BgPick
  <2>1. bg' \in Background /\ bg'.inputs <= level0
    BY <1>14, <1>1 DEF BgPick, Background, BgKinds
  <2>2. QED  BY <1>14, <1>5, <1>6, <1>9, <2>1 DEF BgPick
<1>15. CASE BgNestedFlush
  <2>1. bg' \in Background /\ bg'.inputs = bg.inputs
    BY <1>15, <1>1 DEF BgNestedFlush, Background
  <2>2. bg.inputs <= level0
    BY <1>15 DEF BgNestedFlush, Typed, InputsFit
  <2>3. QED  BY <1>15, <1>5, <1>6, <1>9, <2>1, <2>2 DEF BgNestedFlush
<1>16. CASE BgMerged \/ BgBuilt
  <2>1. bg' \in Background /\ bg'.inputs = bg.inputs
    BY <1>16, <1>1 DEF BgMerged, BgBuilt, Background, BgKinds
  <2>2. bg.inputs <= level0
    BY <1>16 DEF BgMerged, BgBuilt, Typed, InputsFit
  <2>3. QED  BY <1>16, <1>5, <1>6, <1>9, <2>1, <2>2 DEF BgMerged, BgBuilt
<1>17. CASE BgCompactionFails
  <2>1. bgError' \in {"ok", "bg", "sync"} /\ faults' \in Nat
    BY <1>17, <1>1, <1>9 DEF BgCompactionFails, RecordBackgroundError
  <2>2. QED  BY <1>17, <1>1, <1>5, <1>7, <1>9, <1>10, <2>1 DEF BgCompactionFails
<1>18. ASSUME NEW n \in Nat, NewVersion(n)
       PROVE  level0' = n /\ due' \in BOOLEAN /\ fresh' \subseteq Threads /\ extra' \in Nat
  <2>1. level0' = n /\ fresh' = {} /\ extra' \in Nat
    BY <1>1, <1>18 DEF NewVersion
  <2>2. due' = FALSE \/ due' = TRUE
    BY <1>18 DEF NewVersion
  <2>3. QED  BY <2>1, <2>2
<1>19. CASE BgInstallTables
  <2>1. level0 - bg.inputs \in Nat
    BY <1>19, <1>1 DEF BgInstallTables, Typed, InputsFit, Background
  <2>2. level0' \in Nat /\ due' \in BOOLEAN /\ fresh' \subseteq Threads /\ extra' \in Nat
    BY <1>19, <1>18, <2>1 DEF BgInstallTables
  <2>3. CASE bg.kind = "tables" /\ bgError = "ok"
    <3>1. bg' \in Background /\ InputsFit'
      BY <1>19, <1>1, <2>3 DEF BgInstallTables, Background, BgKinds, InputsFit
    <3>2. Good
      BY <1>19, <1>1, <1>9, <2>2, <2>3, <3>1 DEF BgInstallTables, Typed, TypeOK, CallersOK,
         BackgroundOK
    <3>3. QED  BY <3>2, <1>5
  <2>4. CASE ~(bg.kind = "tables" /\ bgError = "ok")
    <3>1. EndCall(bg.manual, FALSE, {})
      BY <1>19, <2>4 DEF BgInstallTables
    <3>2. UNCHANGED <<bgError, mpieces, faults>>
      BY <1>19 DEF BgInstallTables
    <3>3. QED  BY <3>1, <3>2, <2>2, <1>1, <1>5, <1>7, <1>9, <1>10
  <2>5. QED  BY <2>3, <2>4
\* CompactMemTable's ends.
<1>20. ASSUME NEW w \in SUBSET Threads, FlushReturns(w),
              bg.kind = "memtable" \/ bg.pc = "build" \/ bg.pc = "install",
              bgError' \in {"ok", "bg", "sync"}, UNCHANGED mpieces,
              level0' \in Nat, level0 <= level0', due' \in BOOLEAN,
              fresh' \subseteq Threads, extra' \in Nat, faults' \in Nat
       PROVE  Good
  <2>1. bg' \in Background /\ bg'.inputs <= level0
    BY <1>20, FlushReturnsTyped
  <2>2. InputsFit'
    BY <1>20, <1>1, <2>1 DEF InputsFit, Background
  <2>3. QED  BY <1>20, <2>1, <2>2, <1>9, FlushReturnsTyped
<1>21. CASE BgFlushFails
  <2>1. bgError' \in {"ok", "bg", "sync"} /\ faults' \in Nat
    BY <1>21, <1>1, <1>9 DEF BgFlushFails, RecordBackgroundError
  <2>2. QED  BY <1>21, <1>1, <1>5, <1>20, <1>9, <2>1 DEF BgFlushFails
<1>22. CASE BgMemTableCollected
  BY <1>22, <1>1, <1>5, <1>9, <1>20 DEF BgMemTableCollected
<1>23. CASE BgInstallMemTable
  <2>1. PICK n \in {0, 1} : NewVersion(level0 + n)
    BY <1>23 DEF BgInstallMemTable
  <2>2. level0' = level0 + n /\ level0' \in Nat /\ due' \in BOOLEAN
        /\ fresh' \subseteq Threads /\ extra' \in Nat
    BY <2>1, <1>1, <1>18
  <2>3. CASE bgError = "ok"
    <3>1. bg' \in Background /\ bg'.inputs = bg.inputs
      BY <1>23, <1>1, <2>3 DEF BgInstallMemTable, Background
    <3>2. InputsFit'
      BY <1>23, <1>1, <2>2, <3>1 DEF BgInstallMemTable, Typed, InputsFit, Background
    <3>3. Good
      BY <1>23, <1>1, <1>9, <2>2, <2>3, <3>1, <3>2 DEF BgInstallMemTable, Typed, TypeOK,
         CallersOK, BackgroundOK
    <3>4. QED  BY <3>3, <1>5
  <2>4. CASE bgError # "ok"
    <3>1. FlushReturns({}) /\ UNCHANGED <<bgError, mpieces, faults>> /\ bg.pc = "install"
      BY <1>23, <2>4 DEF BgInstallMemTable
    <3>2. level0 <= level0'
      BY <2>2, <1>1
    <3>3. QED  BY <3>1, <3>2, <2>2, <1>1, <1>5, <1>9, <1>20
  <2>5. QED  BY <2>3, <2>4
<1>24. QED
  BY <1>11, <1>12, <1>13, <1>14, <1>15, <1>16, <1>17, <1>19, <1>21, <1>22, <1>23
     DEF BackgroundThread


(***************************************************************************)
(* The writer queue.                                                       *)
(***************************************************************************)
QueueInv == QueueMembers /\ LeaderIsHead /\ MutexOwner /\ GroupFits

LEMMA InitQueue == Init => QueueInv
  BY NullAssumption DEF Init, InitState, QueueInv, QueueMembers, LeaderIsHead, MutexOwner, GroupFits,
     Leading, Holding, Grouped, Unlocked

\* A step that leaves the queue, the mutex and the groups' sizes alone and
\* moves no thread into or out of the parts of Write keeps the invariant.
LEMMA QueueUntouched ==
  ASSUME QueueInv, UNCHANGED <<writers, mutex, done>>,
         \A u \in Threads : /\ pc'[u] \in Leading <=> pc[u] \in Leading
                            /\ pc'[u] = "queued" <=> pc[u] = "queued"
                            /\ pc'[u] \in Holding <=> pc[u] \in Holding
                            /\ pc'[u] \in Grouped => pc[u] \in Grouped
                            /\ group'[u].size = group[u].size
  PROVE  QueueInv'
  BY DEF QueueInv, QueueMembers, LeaderIsHead, MutexOwner, GroupFits

\* The steps of the thread that leads, or takes the lead, between joining the
\* queue and leaving it.
LEMMA LeaderMoves ==
  ASSUME QueueInv, Typed, NEW t \in Threads, NEW x \in Leading,
         pc[t] \in Leading, pc' = [pc EXCEPT ![t] = x],
         UNCHANGED <<writers, done>>, mutex' = IF x \in Holding THEN t ELSE Null,
         mutex \in {t, Null},
         \A u \in Threads \ {t} : group'[u] = group[u],
         x \in Grouped => group'[t].size \in 1..Len(writers)
  PROVE  QueueInv'
<1>1. pc \in [Threads -> CallerPCs] /\ Null \notin Threads
  BY NullAssumption DEF Typed, TypeOK, CallersOK
<1>2. QueueMembers'
  BY <1>1 DEF QueueInv, QueueMembers, Leading, Holding, Unlocked
<1>3. LeaderIsHead'
  BY <1>1 DEF QueueInv, LeaderIsHead
<1>4. MutexOwner'
  BY <1>1 DEF QueueInv, MutexOwner
<1>5. GroupFits'
  BY <1>1 DEF QueueInv, GroupFits
<1>6. QED  BY <1>2, <1>3, <1>4, <1>5 DEF QueueInv

LEMMA CallerQueue ==
  ASSUME QueueInv, Typed, NEW t \in Threads, Caller(t)
  PROVE  QueueInv'
<1>0. /\ pc \in [Threads -> CallerPCs] /\ writers \in Seq(Threads) /\ Null \notin Threads
      /\ done \in [Threads -> BOOLEAN] /\ group \in [Threads -> Group]
      /\ mutex \in Threads \cup {Null}
  BY NullAssumption DEF Typed, TypeOK, CallersOK, QueueOK
<1>1. pc[t] \in Leading => Len(writers) >= 1 /\ Head(writers) = t /\ writers[1] = t
  BY <1>0 DEF QueueInv, LeaderIsHead
<1> USE DEF Leading, Holding, Grouped, Unlocked
<1>2. CASE Enqueue(t)
  <2>1. pc[t] = "idle" /\ mutex = Null /\ writers' = Append(writers, t)
        /\ done' = [done EXCEPT ![t] = FALSE] /\ group' = group
    BY <1>2 DEF Enqueue
  <2>2. \/ writers = <<>> /\ pc' = [pc EXCEPT ![t] = "room"] /\ mutex' = t
        \/ writers # <<>> /\ pc' = [pc EXCEPT ![t] = "queued"] /\ mutex' = Null
    BY <1>2 DEF Enqueue, EnterRoom
  <2>3. \A i \in 1..Len(writers) : writers[i] # t
    BY <2>1 DEF QueueInv, QueueMembers
  <2>4. Len(writers') = Len(writers) + 1 /\ writers'[Len(writers) + 1] = t
        /\ \A i \in 1..Len(writers) : writers'[i] = writers[i]
    BY <1>0, <2>1
  <2>5. QueueMembers'
    <3>1. \A i, j \in 1..Len(writers)' : writers'[i] = writers'[j] => i = j
      BY <1>0, <2>3, <2>4 DEF QueueInv, QueueMembers
    <3>2. ASSUME NEW u \in Threads
          PROVE  (\E i \in 1..Len(writers)' : writers'[i] = u)
                   <=> (pc'[u] \in Leading \/ (pc'[u] = "queued" /\ ~done'[u]))
      <4>1. CASE u = t
        BY <1>0, <2>1, <2>2, <2>4, <4>1
      <4>2. CASE u # t
        <5>0. 1..Len(writers)' = 1..Len(writers) \cup {Len(writers) + 1}
          BY <1>0, <2>4
        <5>1. (\E i \in 1..Len(writers)' : writers'[i] = u)
                <=> (\E i \in 1..Len(writers) : writers[i] = u)
          BY <2>4, <4>2, <5>0
        <5>2. pc'[u] = pc[u] /\ done'[u] = done[u]
          BY <1>0, <2>1, <2>2, <4>2
        <5>3. QED  BY <5>1, <5>2 DEF QueueInv, QueueMembers
      <4>3. QED  BY <4>1, <4>2
    <3>3. QED  BY <3>1, <3>2 DEF QueueMembers
  <2>6. LeaderIsHead'
    <3>1. CASE writers = <<>>
      <4>1. \A u \in Threads : pc[u] \notin Leading
        BY <3>1 DEF QueueInv, LeaderIsHead
      <4>2. Head(writers') = t /\ writers' # <<>>
        BY <1>0, <2>1, <3>1
      <4>3. QED  BY <1>0, <2>2, <4>1, <4>2, <3>1 DEF LeaderIsHead
    <3>2. CASE writers # <<>>
      <4>1. Head(writers') = Head(writers) /\ writers' # <<>>
        BY <1>0, <2>1, <3>2
      <4>2. \A u \in Threads : pc'[u] \in Leading => pc[u] \in Leading
        BY <1>0, <2>2, <3>2
      <4>3. QED  BY <4>1, <4>2 DEF QueueInv, LeaderIsHead
    <3>3. QED  BY <3>1, <3>2
  <2>7. MutexOwner'
    BY <1>0, <2>1, <2>2 DEF QueueInv, MutexOwner
  <2>8. GroupFits'
    BY <1>0, <2>1, <2>2, <2>4 DEF QueueInv, GroupFits
  <2>9. QED  BY <2>5, <2>6, <2>7, <2>8 DEF QueueInv
<1>3. CASE WakeQueued(t)
  <2>0. UNCHANGED <<writers, done, group>> /\ pc[t] = "queued" /\ mutex = Null
    BY <1>3 DEF WakeQueued
  <2>1. CASE done[t] /\ UNCHANGED mutex /\ Return(t, status[t])
    <3>1. pc' = [pc EXCEPT ![t] = "idle"] \/ pc' = [pc EXCEPT ![t] = "flush"]
          \/ pc' = [pc EXCEPT ![t] = "manual"]
      BY <2>1 DEF Return
    <3>2. QueueMembers'
      BY <1>0, <2>0, <2>1, <3>1 DEF QueueInv, QueueMembers
    <3>3. LeaderIsHead' /\ MutexOwner' /\ GroupFits'
      BY <1>0, <2>0, <2>1, <3>1 DEF QueueInv, LeaderIsHead, MutexOwner, GroupFits
    <3>4. QED  BY <3>2, <3>3 DEF QueueInv
  <2>2. CASE ~done[t] /\ Head(writers) = t /\ mutex' = t /\ pc' = [pc EXCEPT ![t] = "room"]
    <3>1. \E i \in 1..Len(writers) : writers[i] = t
      BY <2>0, <2>2 DEF QueueInv, QueueMembers
    <3>2. writers # <<>>
      BY <1>0, <3>1
    <3>3. QueueMembers'
      BY <1>0, <2>0, <2>2, <3>1 DEF QueueInv, QueueMembers
    <3>4. LeaderIsHead' /\ MutexOwner' /\ GroupFits'
      BY <1>0, <2>0, <2>2, <3>2 DEF QueueInv, LeaderIsHead, MutexOwner, GroupFits
    <3>5. QED  BY <3>3, <3>4 DEF QueueInv
  <2>3. CASE UNCHANGED <<pc, mutex>>
    BY <2>0, <2>3, QueueUntouched
  <2>4. QED  BY <1>3, <2>1, <2>2, <2>3 DEF WakeQueued, IsFront, EnterRoom
<1>4. CASE Finish(t)
  <2> DEFINE n == group[t].size
  <2>1. pc[t] = "finish" /\ mutex = t /\ mutex' = Null /\ UNCHANGED group
        /\ n \in 1..Len(writers) /\ writers[1] = t
    BY <1>4, <1>1 DEF Finish, QueueInv, GroupFits
  <2>2. /\ writers' = SubSeq(writers, n + 1, Len(writers))
        /\ done' = [u \in Threads |-> done[u] \/ u \in {writers[k] : k \in 1..n} \ {t}]
    BY <1>4 DEF Finish, Rest, Members
  <2> HIDE DEF n
  <2>3. /\ writers' \in Seq(Threads) /\ Len(writers') = Len(writers) - n
        /\ \A i \in 1..(Len(writers) - n) : writers'[i] = writers[n + i]
    BY <1>0, <2>1, <2>2, SubSeqProperties
  <2>4. \/ pc' = [pc EXCEPT ![t] = "idle"] \/ pc' = [pc EXCEPT ![t] = "flush"]
        \/ pc' = [pc EXCEPT ![t] = "manual"]
    BY <1>4 DEF Finish, Return
  <2>5. \A i, j \in 1..Len(writers) : writers[i] = writers[j] => i = j
    BY DEF QueueInv, QueueMembers
  <2>6. \A u \in Threads \ {t} : pc[u] \notin Leading
    BY <2>1, <1>0 DEF QueueInv, LeaderIsHead
  <2>7. QueueMembers'
    <3>1. ASSUME NEW i \in 1..Len(writers)', NEW j \in 1..Len(writers)',
                 writers'[i] = writers'[j]
          PROVE  i = j
      <4>1. n \in Nat /\ Len(writers) \in Nat /\ i \in 1..(Len(writers) - n)
            /\ j \in 1..(Len(writers) - n)
        BY <1>0, <2>1, <2>3
      <4>2. n + i \in 1..Len(writers) /\ n + j \in 1..Len(writers)
        BY <4>1
      <4>3. writers[n + i] = writers[n + j]
        BY <2>3, <3>1, <4>1
      <4>4. n + i = n + j
        BY <2>5, <4>2, <4>3
      <4>5. QED  BY <4>1, <4>4
    <3>2. ASSUME NEW u \in Threads
          PROVE  (\E i \in 1..Len(writers)' : writers'[i] = u)
                   <=> (pc'[u] \in Leading \/ (pc'[u] = "queued" /\ ~done'[u]))
      <4>1. (\E i \in 1..Len(writers)' : writers'[i] = u)
              <=> (\E k \in (n + 1)..Len(writers) : writers[k] = u)
        <5>1. ASSUME NEW k \in (n + 1)..Len(writers)
              PROVE  k - n \in 1..Len(writers)' /\ writers'[k - n] = writers[k]
          BY <1>0, <2>1, <2>3
        <5>2. ASSUME NEW i \in 1..Len(writers)'
              PROVE  n + i \in (n + 1)..Len(writers) /\ writers'[i] = writers[n + i]
          BY <1>0, <2>1, <2>3
        <5>3. QED  BY <5>1, <5>2
      <4>2. CASE u = t
        BY <1>0, <2>1, <2>4, <2>5, <4>1, <4>2
      <4>3. CASE u # t
        <5>1. pc'[u] = pc[u] /\ pc[u] \notin Leading
          BY <1>0, <2>4, <2>6, <4>3
        <5>2. (\E i \in 1..Len(writers) : writers[i] = u) <=> (pc[u] = "queued" /\ ~done[u])
          BY <5>1 DEF QueueInv, QueueMembers
        <5>3. done'[u] <=> (done[u] \/ \E k \in 1..n : writers[k] = u)
          BY <2>2, <4>3
        <5>4. (\E k \in (n + 1)..Len(writers) : writers[k] = u)
                <=> ((\E i \in 1..Len(writers) : writers[i] = u)
                      /\ ~ \E k \in 1..n : writers[k] = u)
          BY <1>0, <2>1, <2>5
        <5>5. QED  BY <4>1, <5>1, <5>2, <5>3, <5>4
      <4>4. QED  BY <4>2, <4>3
    <3>3. QED  BY <3>1, <3>2 DEF QueueMembers
  <2>8. LeaderIsHead' /\ MutexOwner' /\ GroupFits'
    BY <1>0, <2>1, <2>4, <2>6 DEF LeaderIsHead, MutexOwner, GroupFits
  <2>9. QED  BY <2>7, <2>8 DEF QueueInv
<1>5. CASE RoomError(t) \/ RoomSwitchFails(t) \/ RoomFound(t)
  <2>1. pc[t] \in Leading /\ mutex = t /\ UNCHANGED <<writers, done, mutex>>
        /\ \E x \in {"finish", "group"} : pc' = [pc EXCEPT ![t] = x]
    BY <1>5 DEF RoomError, RoomSwitchFails, RoomFound, InRoom
  <2>2. group'[t].size = 1 /\ \A u \in Threads \ {t} : group'[u] = group[u]
    BY <1>5, <1>0 DEF RoomError, RoomSwitchFails, RoomFound, LoneGroup, FirstOfGroup
  <2>3. PICK x \in {"finish", "group"} : pc' = [pc EXCEPT ![t] = x]
    BY <2>1
  <2>4. x \in Leading /\ x \in Holding /\ group'[t].size \in 1..Len(writers)
    BY <1>0, <1>1, <2>1, <2>2
  <2>5. QED  BY <2>1, <2>2, <2>3, <2>4, LeaderMoves
<1>6. CASE GroupJoin(t)
  <2>1. pc[t] = "group" /\ mutex = t /\ UNCHANGED <<writers, done, mutex, pc>>
    BY <1>6 DEF GroupJoin, callerVars
  <2>2. group[t].size \in 1..Len(writers) /\ group[t].size < Len(writers)
    BY <1>6, <2>1 DEF GroupJoin, QueueInv, GroupFits
  <2>3. group'[t].size = group[t].size + 1 /\ \A u \in Threads \ {t} : group'[u] = group[u]
    BY <1>6, <1>0 DEF GroupJoin, Joined
  <2>4. group'[t].size \in 1..Len(writers) /\ pc' = [pc EXCEPT ![t] = "group"]
    BY <1>0, <2>1, <2>2, <2>3
  <2>5. QED  BY <1>0, <2>1, <2>3, <2>4, LeaderMoves
<1>7. CASE LogRecord(t) \/ SyncLog(t)
  <2>1. pc[t] \in {"log", "sync"} /\ UNCHANGED <<writers, done, mutex>>
        /\ \E x \in {"sync", "insert", "commit"} : pc' = [pc EXCEPT ![t] = x]
    BY <1>7 DEF LogRecord, SyncLog, UnlockedStep, Skipped
  <2>2. \A u \in Threads : group'[u].size = group[u].size
    <3>1. \/ group' = group
          \/ group' = [group EXCEPT ![t] = [group[t] EXCEPT !.ok = FALSE]]
          \/ group' = [group EXCEPT ![t] = [[group[t] EXCEPT !.ok = FALSE] EXCEPT !.synced = FALSE]]
      BY <1>7 DEF LogRecord, SyncLog
    <3>2. [group[t] EXCEPT !.ok = FALSE].size = group[t].size
          /\ [[group[t] EXCEPT !.ok = FALSE] EXCEPT !.synced = FALSE].size = group[t].size
      BY <1>0 DEF Group
    <3>3. QED  BY <1>0, <3>1, <3>2
  <2>3. QED  BY <1>0, <2>1, <2>2, QueueUntouched
<1>8. CASE InsertEntry(t)
  <2>1. pc[t] = "insert" /\ UNCHANGED <<writers, done, mutex, group>>
        /\ (pc' = pc \/ pc' = [pc EXCEPT ![t] = "commit"])
    BY <1>8 DEF InsertEntry, UnlockedStep, queueVars
  <2>2. QED  BY <1>0, <2>1, QueueUntouched
<1>9. CASE RoomSlowdown(t) \/ RoomWait(t)
  <2>1. pc[t] = "room" /\ mutex = t /\ mutex' = Null /\ UNCHANGED <<writers, done, group>>
        /\ \E x \in {"delay", "roomwait"} : pc' = [pc EXCEPT ![t] = x]
    BY <1>9 DEF RoomSlowdown, RoomWait, InRoom, queueVars
  <2>2. QED  BY <1>0, <2>1, LeaderMoves
<1>10. CASE GroupBuilt(t)
  <2>1. pc[t] = "group" /\ mutex = t /\ mutex' = Null /\ UNCHANGED <<writers, done, group>>
        /\ pc' = [pc EXCEPT ![t] = "log"] /\ group[t].size \in 1..Len(writers)
    BY <1>10 DEF GroupBuilt, queueVars, QueueInv, GroupFits
  <2>2. QED  BY <1>0, <2>1, LeaderMoves
<1>11. CASE WakeRoom(t)
  <2>1. pc[t] \in {"delay", "roomwait"} /\ mutex = Null /\ mutex' = t
        /\ UNCHANGED <<writers, done, group>> /\ pc' = [pc EXCEPT ![t] = "room"]
    BY <1>11 DEF WakeRoom, queueVars
  <2>2. QED  BY <1>0, <2>1, LeaderMoves
<1>12. CASE Commit(t)
  <2>1. pc[t] = "commit" /\ mutex = Null /\ mutex' = t /\ UNCHANGED <<writers, done, group>>
        /\ pc' = [pc EXCEPT ![t] = "finish"] /\ group[t].size \in 1..Len(writers)
    BY <1>12 DEF Commit, UnlockedStep, queueVars, QueueInv, GroupFits
  <2>2. QED  BY <1>0, <2>1, LeaderMoves
<1>13. CASE RoomSwitch(t)
  <2>1. UNCHANGED <<writers, done, mutex, group, pc>>
    BY <1>13 DEF RoomSwitch, callerVars
  <2>2. QED  BY <2>1, QueueUntouched
<1>14. CASE GetBegin(t) \/ GetEnd(t) \/ FlushWait(t) \/ ManualCompact(t) \/ Close(t)
  <2>1. UNCHANGED <<writers, done, mutex, group>>
    BY <1>14 DEF GetBegin, GetEnd, FlushWait, ManualCompact, Close, queueVars
  <2>2. \A u \in Threads :
          pc'[u] = pc[u]
          \/ (pc[u] \notin Leading \cup {"queued"} /\ pc'[u] \notin Leading \cup {"queued"})
    <3> DEFINE Outside == {"idle", "get", "flush", "flushwait", "manual", "manualwait",
                           "closewait", "closed"}
    <3>1. \E x \in Outside : pc' = [pc EXCEPT ![t] = x]
      BY <1>14 DEF GetBegin, GetEnd, FlushWait, ManualCompact, Close
    <3>2. pc[t] \in Outside
      BY <1>14 DEF GetBegin, GetEnd, FlushWait, ManualCompact, Close
    <3>3. QED  BY <1>0, <3>1, <3>2
  <2>3. QED  BY <2>1, <2>2, QueueUntouched
<1>15. QED
  BY <1>2, <1>3, <1>4, <1>5, <1>6, <1>7, <1>8, <1>9, <1>10, <1>11, <1>12, <1>13, <1>14
     DEF Caller, Writer

LEMMA BackgroundQueue ==
  ASSUME QueueInv, BackgroundThread
  PROVE  QueueInv'
<1>1. UNCHANGED <<writers, mutex, done, pc, group>>
  BY DEF BackgroundThread, BgSkip, BgFlush, BgManualOver, BgManual, BgPick, BgNestedFlush,
     BgMerged, BgCompactionFails, BgInstallTables, BgCollected, BgBuilt, BgFlushFails,
     BgInstallMemTable, BgMemTableCollected, Untouched, queueVars, callerVars
<1>2. QED  BY <1>1, QueueUntouched

(***************************************************************************)
(* The invariant is inductive, and the theorems.                           *)
(***************************************************************************)
IInv == Typed /\ QueueInv

LEMMA Inductive == IInv /\ [Next]_vars => IInv'
<1> SUFFICES ASSUME IInv, [Next]_vars PROVE IInv'
  OBVIOUS
<1>1. ASSUME NEW t \in Threads, Caller(t) PROVE IInv'
  <2>1. Typed /\ QueueInv /\ GroupFits
    BY DEF IInv, QueueInv
  <2>2. CallersOK' /\ QueueOK' /\ DataOK' /\ BackgroundOK' /\ InputsFit' /\ LevelsLeft'
    BY <1>1, <2>1, CallersTyped, QueueTyped, DataTyped, SharedTyped, CallerCounters
  <2>3. QueueInv'
    BY <1>1, <2>1, CallerQueue
  <2>4. QED  BY <2>2, <2>3 DEF IInv, Typed, TypeOK
<1>2. CASE BackgroundThread
  BY <1>2, BackgroundTyped, BackgroundQueue DEF IInv
<1>3. CASE UNCHANGED vars
  BY <1>3 DEF vars, callerVars, queueVars, dataVars, bgVars, manualVars, boundVars,
     IInv, Typed, TypeOK, CallersOK, QueueOK, DataOK, BackgroundOK, InputsFit, LevelsLeft,
     QueueInv, QueueMembers, LeaderIsHead, MutexOwner, GroupFits
<1>4. QED  BY <1>1, <1>2, <1>3 DEF Next

LEMMA Invariant == Spec => []IInv
<1>1. Init => IInv
  BY InitTyped, InitQueue DEF IInv
<1>2. QED  BY <1>1, Inductive, PTL DEF Spec

\* No step of any number of callers and of the background thread, with any
\* faults, takes a variable of DBImpl out of its type: the count of level-0
\* files, the levels left to compact and the queue stay what they should be.
THEOREM TypeCorrect == Spec => []TypeOK
<1>1. IInv => TypeOK
  BY DEF IInv, Typed
<1>2. QED  BY <1>1, Invariant, PTL

\* Whoever logs, syncs, fills the memtable, sleeps or waits for room in Write is
\* the first writer of the queue: Write's unlocked phase excludes itself.
THEOREM SingleLeader == Spec => []LeaderIsHead
<1>1. IInv => LeaderIsHead
  BY DEF IInv, QueueInv
<1>2. QED  BY <1>1, Invariant, PTL

\* A Writer is in writers_ once, and exactly until its Write leads its group to
\* the end or is told that another's did.
THEOREM QueueExact == Spec => []QueueMembers
<1>1. IInv => QueueMembers
  BY DEF IInv, QueueInv
<1>2. QED  BY <1>1, Invariant, PTL

(***************************************************************************)
(* Signals and background work.  Each property is made inductive by naming *)
(* who may be between its two halves: a thread that has changed what a     *)
(* condition variable is about has still to signal it, a compaction that   *)
(* points to a manual frame leaves its caller waiting, and so on.  The shape*)
(* of the queue (IInv) is used throughout: it says that there is only one  *)
(* leader.                                                                 *)
(***************************************************************************)

\* What the background thread leaves alone; an installed memtable moves to the
\* tables, and nothing else moves.
LEMMA BackgroundFrame ==
  ASSUME BackgroundThread
  PROVE  /\ Untouched
         /\ mutex = Null
         /\ \/ NoData
            \/ tables' = tables \cup imm /\ imm' = {} /\ hasImm' = FALSE
BY DEF BackgroundThread, BgSkip, BgFlush, BgManualOver, BgManual, BgPick, BgNestedFlush,
       BgMerged, BgCompactionFails, BgInstallTables, BgCollected, BgBuilt, BgFlushFails,
       BgInstallMemTable, BgMemTableCollected, Starts, MayCompact, Flushed

\* The background thread takes no signal away.
LEMMA BackgroundSignals ==
  ASSUME BackgroundThread
  PROVE  awake \subseteq awake'
<1>1. ASSUME NEW m, NEW o, NEW w, EndCall(m, o, w) PROVE awake \subseteq awake'
  BY <1>1 DEF EndCall
<1>2. ASSUME NEW w, FlushReturns(w) PROVE awake \subseteq awake'
  BY <1>1, <1>2 DEF FlushReturns
<1>3. QED
  BY <1>1, <1>2 DEF BackgroundThread, BgSkip, BgFlush, BgManualOver, BgManual, BgPick,
     BgNestedFlush, BgMerged, BgCompactionFails, BgInstallTables, BgCollected, BgBuilt,
     BgFlushFails, BgInstallMemTable, BgMemTableCollected

\* A leader has no second: any other thread is outside Write's critical part.
LEMMA OneLeader ==
  ASSUME IInv, NEW t \in Threads, NEW u \in Threads, pc[t] \in Leading, pc[u] \in Leading
  PROVE  t = u
BY DEF IInv, QueueInv, LeaderIsHead

(***************************************************************************)
(* Signals.                                                                *)
(***************************************************************************)
LEMMA SignalStep == IInv /\ NoLostSignal /\ [Next]_vars => NoLostSignal'
<1> SUFFICES ASSUME IInv, NoLostSignal, [Next]_vars,
                    NEW u \in Threads, pc'[u] = "queued",
                    done'[u] \/ Head(writers') = u
             PROVE  u \in awake'
  BY DEF NoLostSignal
<1>0. /\ pc \in [Threads -> CallerPCs] /\ writers \in Seq(Threads)
      /\ done \in [Threads -> BOOLEAN] /\ group \in [Threads -> Group]
  BY DEF IInv, Typed, TypeOK, CallersOK, QueueOK
<1>1. ASSUME awake \ {v \in Threads : pc'[v] # "queued"} \subseteq awake', pc[u] = "queued",
             UNCHANGED <<writers, done>>
      PROVE  u \in awake'
  BY <1>1 DEF NoLostSignal
<1>2. CASE BackgroundThread
  BY <1>1, <1>2, BackgroundFrame, BackgroundSignals DEF Untouched, callerVars, queueVars
<1>3. CASE UNCHANGED vars
  BY <1>1, <1>3 DEF vars, callerVars, queueVars
<1>4. ASSUME NEW t \in Threads, Enqueue(t) PROVE u \in awake'
  <2>1. writers' = Append(writers, t) /\ done' = [done EXCEPT ![t] = FALSE] /\ awake' = awake
        /\ pc[t] = "idle"
    BY <1>4 DEF Enqueue
  <2>2. \/ writers = <<>> /\ pc' = [pc EXCEPT ![t] = "room"]
        \/ writers # <<>> /\ pc' = [pc EXCEPT ![t] = "queued"]
    BY <1>4 DEF Enqueue, EnterRoom
  <2>3. CASE writers = <<>>
    <3>1. u # t /\ pc[u] = "queued" /\ Head(writers') = t /\ done[u]
      BY <1>0, <2>1, <2>2, <2>3
    <3>2. QED  BY <2>1, <3>1 DEF NoLostSignal
  <2>4. CASE writers # <<>>
    <3>1. Head(writers') = Head(writers)
      BY <1>0, <2>1, <2>4
    <3>2. Head(writers) # t
      BY <1>0, <2>1, <2>4 DEF IInv, QueueInv, QueueMembers, Leading, Holding, Unlocked
    <3>3. u # t /\ pc[u] = "queued"
      BY <1>0, <2>1, <2>2, <2>4, <3>1, <3>2
    <3>4. QED  BY <1>0, <2>1, <3>1, <3>3 DEF NoLostSignal
  <2>5. QED  BY <2>3, <2>4
<1>5. ASSUME NEW t \in Threads, WakeQueued(t) PROVE u \in awake'
  <2>1. awake' = awake \ {t} /\ UNCHANGED <<writers, done>> /\ pc[t] = "queued"
    BY <1>5 DEF WakeQueued
  <2>2. CASE u = t
    BY <1>0, <1>5, <2>1, <2>2 DEF WakeQueued, Return, EnterRoom, IsFront
  <2>3. CASE u # t
    <3>1. pc[u] = "queued"
      BY <1>0, <1>5, <2>3 DEF WakeQueued, Return, EnterRoom
    <3>2. QED  BY <2>1, <2>3, <3>1 DEF NoLostSignal
  <2>4. QED  BY <2>2, <2>3
<1>6. ASSUME NEW t \in Threads, Finish(t) PROVE u \in awake'
  <2>1. pc[t] = "finish" /\ awake' = awake \cup Notified(t) /\ writers' = Rest(t)
        /\ (done'[u] <=> done[u] \/ u \in Members(t))
    BY <1>6 DEF Finish
  <2>2. u # t /\ pc[u] = "queued"
    BY <1>0, <1>6, <2>1 DEF Finish, Return
  <2>3. CASE done[u]
    BY <2>1, <2>2, <2>3 DEF NoLostSignal
  <2>4. CASE u \in Members(t)
    BY <2>1, <2>4 DEF Notified
  <2>5. CASE ~done'[u]
    <3>1. QueueInv'
      BY <1>6, CallerQueue DEF IInv, Caller, Writer
    <3>2. \E i \in 1..Len(writers)' : writers'[i] = u
      BY <2>5, <3>1 DEF QueueInv, QueueMembers
    <3>3. Rest(t) # <<>>
      BY <2>1, <3>2
    <3>4. QED  BY <2>1, <2>5, <3>3 DEF Notified
  <2>6. QED  BY <2>1, <2>3, <2>4, <2>5
<1>7. ASSUME NEW t \in Threads,
             \/ RoomError(t) \/ RoomSlowdown(t) \/ RoomFound(t) \/ RoomWait(t)
             \/ RoomSwitch(t) \/ RoomSwitchFails(t) \/ WakeRoom(t)
             \/ GroupJoin(t) \/ GroupBuilt(t)
             \/ LogRecord(t) \/ SyncLog(t) \/ InsertEntry(t) \/ Commit(t)
             \/ GetBegin(t) \/ GetEnd(t) \/ FlushWait(t) \/ ManualCompact(t) \/ Close(t)
      PROVE  u \in awake'
  <2>1. UNCHANGED <<writers, done>>
    BY <1>7 DEF RoomError, RoomSlowdown, RoomFound, RoomWait, RoomSwitch, RoomSwitchFails,
       WakeRoom, GroupJoin, GroupBuilt, LogRecord, SyncLog, InsertEntry, Commit, GetBegin,
       GetEnd, FlushWait, ManualCompact, Close, queueVars
  <2>2. awake \ {t} \subseteq awake'
    BY <1>7 DEF RoomError, RoomSlowdown, RoomFound, RoomWait, RoomSwitch, RoomSwitchFails,
       WakeRoom, GroupJoin, GroupBuilt, LogRecord, SyncLog, InsertEntry, Commit, GetBegin,
       GetEnd, FlushWait, ManualCompact, Close
  <2>3. pc[u] = "queued" /\ (u = t => awake' = awake)
    <3>1. \/ pc' = pc /\ awake' = awake
          \/ \E x \in CallerPCs \ {"queued"} : pc' = [pc EXCEPT ![t] = x]
      BY <1>7 DEF RoomError, RoomSlowdown, RoomFound, RoomWait, RoomSwitch, RoomSwitchFails,
         WakeRoom, GroupJoin, GroupBuilt, LogRecord, SyncLog, InsertEntry, Commit, GetBegin,
         GetEnd, FlushWait, ManualCompact, Close, callerVars, UnlockedStep, Skipped,
         CallerPCs, BgWaits, Unlocked
    <3>2. QED  BY <1>0, <3>1
  <2>4. QED  BY <2>1, <2>2, <2>3 DEF NoLostSignal
<1>8. QED
  BY <1>2, <1>3, <1>4, <1>5, <1>6, <1>7 DEF Next, Caller, Writer

\* The first writer of the queue and a writer whose group is finished have
\* their condition variable signalled before anyone can see them wait.
THEOREM NoSignalLost == Spec => []NoLostSignal
<1>1. Init => NoLostSignal
  BY DEF Init, InitState, NoLostSignal
<1>2. QED  BY <1>1, Invariant, SignalStep, PTL DEF Spec

(***************************************************************************)
(* A failed fsync.  The leader that finds it sets bg_error_ as it takes    *)
(* the mutex back, before any other thread can lead; whoever leads next    *)
(* finds the error in MakeRoomForWrite.                                    *)
(***************************************************************************)
Building == {"group"} \cup Unlocked

NoneBuilding == bgError = "sync" => \A t \in Threads : pc[t] \notin Building

\* The background thread records errors of its own kind only.
LEMMA BackgroundError ==
  ASSUME BackgroundThread
  PROVE  bgError' = bgError \/ bgError' = "bg"
BY DEF BackgroundThread, BgSkip, BgFlush, BgManualOver, BgManual, BgPick, BgNestedFlush,
       BgMerged, BgCompactionFails, BgInstallTables, BgCollected, BgBuilt, BgFlushFails,
       BgInstallMemTable, BgMemTableCollected, RecordBackgroundError

LEMMA NoneBuildingStep == IInv /\ NoneBuilding /\ [Next]_vars => NoneBuilding'
<1> SUFFICES ASSUME IInv, NoneBuilding, [Next]_vars, bgError' = "sync",
                    NEW u \in Threads
             PROVE  pc'[u] \notin Building
  BY DEF NoneBuilding
<1>0. pc \in [Threads -> CallerPCs]
  BY DEF IInv, Typed, TypeOK, CallersOK
<1> USE DEF Building, Unlocked
<1>1. CASE BackgroundThread
  BY <1>1, BackgroundFrame, BackgroundError DEF Untouched, callerVars, NoneBuilding
<1>2. CASE UNCHANGED vars
  BY <1>2 DEF vars, callerVars, bgVars, NoneBuilding
<1>3. ASSUME NEW t \in Threads, Commit(t) PROVE pc'[u] \notin Building
  <2>1. pc[t] = "commit" /\ pc' = [pc EXCEPT ![t] = "finish"]
    BY <1>3 DEF Commit, UnlockedStep
  <2>2. u # t => pc[u] \notin Building
    BY <1>0, <2>1, OneLeader DEF Leading, Holding
  <2>3. QED  BY <1>0, <2>1, <2>2
<1>4. ASSUME NEW t \in Threads, Caller(t), ~Commit(t) PROVE pc'[u] \notin Building
  <2>1. bgError = "sync"
    BY <1>4 DEF Caller, Writer, bgVars, Enqueue, WakeQueued, RoomError, RoomSlowdown,
       RoomFound, RoomWait, RoomSwitch, RoomSwitchFails, WakeRoom, GroupJoin, GroupBuilt,
       LogRecord, SyncLog, InsertEntry, Finish, GetBegin, GetEnd, FlushWait,
       ManualCompact, Close
  <2>2. pc[t] \notin Building /\ pc[u] \notin Building
    BY <2>1 DEF NoneBuilding
  <2>3. \E x \in CallerPCs \ Building : pc' = [pc EXCEPT ![t] = x]
    <3>1. \/ Enqueue(t) \/ WakeQueued(t) \/ RoomError(t) \/ RoomSlowdown(t)
          \/ RoomWait(t) \/ RoomSwitchFails(t) \/ WakeRoom(t) \/ Finish(t)
          \/ GetBegin(t) \/ GetEnd(t) \/ FlushWait(t) \/ ManualCompact(t) \/ Close(t)
          \/ RoomSwitch(t)
      BY <1>4, <2>1, <2>2 DEF Caller, Writer, RoomFound, Roomy, Erroneous, GroupJoin,
         GroupBuilt, LogRecord, SyncLog, InsertEntry, UnlockedStep
    <3>2. QED
      BY <1>0, <2>2, <3>1 DEF Enqueue, EnterRoom, WakeQueued, Return, RoomError, RoomSlowdown, RoomWait,
         RoomSwitch, RoomSwitchFails, WakeRoom, Finish, GetBegin, GetEnd, FlushWait,
         ManualCompact, Close, callerVars, CallerPCs, BgWaits
  <2>4. QED  BY <1>0, <2>2, <2>3
<1>5. QED  BY <1>1, <1>2, <1>3, <1>4 DEF Next

LEMMA NoneBuildingAlways == Spec => []NoneBuilding
<1>1. Init => NoneBuilding
  BY DEF Init, InitState, NoneBuilding
<1>2. QED  BY <1>1, Invariant, NoneBuildingStep, PTL DEF Spec

\* "So we force the DB into a mode where all future writes fail": after a
\* failed fsync no step of any thread adds to the log or replaces it.
THEOREM NoneLogs == Spec => NoLogAfterSyncError
<1>1. ASSUME IInv, NoneBuilding, [Next]_vars, bgError = "sync" PROVE log' = log
  <2>1. CASE BackgroundThread
    BY <2>1, BackgroundFrame DEF Untouched
  <2>2. CASE UNCHANGED vars
    BY <2>2 DEF vars, dataVars
  <2>3. ASSUME NEW t \in Threads, Caller(t) PROVE log' = log
    <3>1. ~RoomSwitch(t) /\ ~LogRecord(t)
      BY <1>1 DEF RoomSwitch, Full, Erroneous, LogRecord, UnlockedStep, NoneBuilding,
         Building, Unlocked
    <3>2. QED
      BY <2>3, <3>1 DEF Caller, Writer, dataVars, Enqueue, WakeQueued, RoomError,
         RoomSlowdown, RoomFound, RoomWait, RoomSwitchFails, WakeRoom, GroupJoin,
         GroupBuilt, SyncLog, InsertEntry, Commit, Finish, GetBegin, GetEnd, FlushWait,
         ManualCompact, Close
  <2>4. QED  BY <1>1, <2>1, <2>2, <2>3 DEF Next
<1>2. IInv /\ NoneBuilding /\ [Next]_vars => [bgError = "sync" => log' = log]_vars
  BY <1>1
<1>3. QED
  BY <1>2, Invariant, NoneBuildingAlways, PTL DEF Spec, NoLogAfterSyncError

(***************************************************************************)
(* Background work.  A call is scheduled while it runs, so what becomes    *)
(* due meanwhile is seen when it ends; otherwise whoever makes work due    *)
(* schedules it.                                                           *)
(***************************************************************************)
WorkDue == (hasImm \/ manual # Null \/ NeedsCompaction) /\ bgError = "ok" /\ ~shuttingDown
Scheduled ==
  /\ bg.pc # "none" => bgScheduled
  /\ WorkDue => bgScheduled

LEMMA ScheduledByEnd ==
  ASSUME NEW m, NEW o, NEW w, EndCall(m, o, w), bgScheduled
  PROVE  Scheduled'
<1>1. CASE bgScheduled' = bgScheduled
  BY <1>1 DEF Scheduled
<1>2. CASE bg' = BgIdle /\ MaybeScheduleCompaction(FALSE)
  <2>1. bg'.pc = "none"
    BY <1>2 DEF BgIdle
  <2>2. WorkDue' => bgScheduled'
    BY <1>2 DEF MaybeScheduleCompaction, WorkDue
  <2>3. QED  BY <2>1, <2>2 DEF Scheduled
<1>3. QED  BY <1>1, <1>2 DEF EndCall

LEMMA ScheduledByFlush ==
  ASSUME NEW w, FlushReturns(w), bgScheduled
  PROVE  Scheduled'
BY ScheduledByEnd DEF FlushReturns, Scheduled

LEMMA ScheduledStep == IInv /\ Scheduled /\ [Next]_vars => Scheduled'
<1> SUFFICES ASSUME IInv, Scheduled, [Next]_vars PROVE Scheduled'
  OBVIOUS
<1>0. bg \in Background /\ due \in BOOLEAN /\ bgScheduled \in BOOLEAN
  BY DEF IInv, Typed, TypeOK, BackgroundOK
<1>1. CASE BackgroundThread
  <2>1. bgScheduled
    BY <1>0, <1>1 DEF BackgroundThread, BgSkip, BgFlush, BgManualOver, BgManual, BgPick,
       BgNestedFlush, BgMerged, BgCompactionFails, BgInstallTables, BgCollected, BgBuilt,
       BgFlushFails, BgInstallMemTable, BgMemTableCollected, Starts, MayCompact, Scheduled
  <2>2. \/ UNCHANGED bgScheduled
        \/ \E m, o, w : EndCall(m, o, w)
        \/ \E w : FlushReturns(w)
    BY <1>1 DEF BackgroundThread, BgSkip, BgFlush, BgManualOver, BgManual, BgPick,
       BgNestedFlush, BgMerged, BgCompactionFails, BgInstallTables, BgCollected, BgBuilt,
       BgFlushFails, BgInstallMemTable, BgMemTableCollected
  <2>3. QED  BY <2>1, <2>2, ScheduledByEnd, ScheduledByFlush DEF Scheduled
<1>2. ASSUME UNCHANGED <<bg, bgScheduled, hasImm, manual, level0, due>>,
             bgError' = "ok" => bgError = "ok", shuttingDown => shuttingDown'
      PROVE  Scheduled'
  BY <1>2 DEF Scheduled, WorkDue, NeedsCompaction
<1>3. CASE UNCHANGED vars
  BY <1>2, <1>3 DEF vars, bgVars, dataVars, manualVars
<1>4. ASSUME UNCHANGED bg, MaybeScheduleCompaction(bgScheduled)
      PROVE  Scheduled'
  BY <1>4 DEF Scheduled, WorkDue, NeedsCompaction, MaybeScheduleCompaction
<1>5. ASSUME NEW t \in Threads, Caller(t) PROVE Scheduled'
  <2>1. CASE RoomSwitch(t)
    BY <1>4, <2>1 DEF RoomSwitch
  <2>2. CASE GetEnd(t)
    BY <1>2, <1>4, <2>2 DEF GetEnd, manualVars
  <2>3. CASE ManualCompact(t)
    <3>1. \/ MaybeScheduleCompaction(bgScheduled)
          \/ UNCHANGED <<bgScheduled, manual>>
          \/ UNCHANGED bgScheduled /\ manual' \in {manual, Null}
      BY <2>3 DEF ManualCompact, Cancelled
    <3>2. UNCHANGED <<bg, hasImm, level0, due, bgError, shuttingDown>>
      BY <2>3 DEF ManualCompact
    <3>3. QED  BY <1>4, <3>1, <3>2 DEF Scheduled, WorkDue, NeedsCompaction
  <2>4. CASE Commit(t)
    BY <1>2, <2>4 DEF Commit, RecordBackgroundError, manualVars
  <2>5. CASE ~RoomSwitch(t) /\ ~GetEnd(t) /\ ~ManualCompact(t) /\ ~Commit(t)
    BY <1>2, <1>5, <2>5 DEF Caller, Writer, bgVars, manualVars, dataVars, Enqueue, WakeQueued,
       RoomError, RoomSlowdown, RoomFound, RoomWait, RoomSwitchFails, WakeRoom,
       GroupJoin, GroupBuilt, LogRecord, SyncLog, InsertEntry, Finish, GetBegin,
       FlushWait, Close
  <2>6. QED  BY <2>1, <2>2, <2>3, <2>4, <2>5
<1>6. QED  BY <1>1, <1>3, <1>5 DEF Next

\* Whatever becomes due, and whoever makes it due while a call runs or ends, a
\* background call is scheduled for it.
THEOREM WorkScheduled == Spec => []WorkIsScheduled
<1>1. Init => Scheduled
  BY NumbersAssumption DEF Init, InitState, Scheduled, WorkDue, NeedsCompaction, BgIdle
<1>2. Scheduled => WorkIsScheduled
  BY DEF Scheduled, WorkDue, WorkIsScheduled
<1>3. QED  BY <1>1, <1>2, Invariant, ScheduledStep, PTL DEF Spec

(***************************************************************************)
(* manual_compaction_.  The frame it points to belongs to a caller that    *)
(* waits and has not been told that it is done: only the compaction that   *)
(* tells it clears the pointer, unless an error or the destructor, which   *)
(* runs when no call is in progress, lets the caller leave.                *)
(***************************************************************************)
ManualWaits == manual # Null => pc[manual] = "manualwait" /\ ~mdone[manual]
ManualRuns ==
  /\ bg.manual /\ bgError = "ok" => manual # Null
  /\ bg.pc = "crashed" => bgError # "ok"
AllGone ==
  \A t \in Threads :
    IF shuttingDown THEN pc[t] \in {"idle", "closewait", "closed"}
                    ELSE pc[t] \notin {"closewait", "closed"}

LEMMA AllGoneStep == IInv /\ AllGone /\ [Next]_vars => AllGone'
<1> SUFFICES ASSUME IInv, AllGone, [Next]_vars PROVE AllGone'
  OBVIOUS
<1>0. pc \in [Threads -> CallerPCs]
  BY DEF IInv, Typed, TypeOK, CallersOK
<1>1. CASE UNCHANGED <<pc, shuttingDown>>
  BY <1>1 DEF AllGone
<1>2. ASSUME NEW t \in Threads, Caller(t) PROVE AllGone'
  <2>1. CASE Close(t)
    BY <1>0, <2>1 DEF Close, AllGone
  <2>2. CASE ~Close(t)
    <3>1. UNCHANGED shuttingDown
      BY <1>2, <2>2 DEF Caller, Writer, Enqueue, WakeQueued, RoomError, RoomSlowdown,
         RoomFound, RoomWait, RoomSwitch, RoomSwitchFails, WakeRoom, GroupJoin, GroupBuilt,
         LogRecord, SyncLog, InsertEntry, Commit, Finish, GetBegin, GetEnd, FlushWait,
         ManualCompact
    <3>2. ~shuttingDown
      BY <1>2, <2>2 DEF Caller, Writer, Enqueue, WakeQueued, RoomError, RoomSlowdown,
         RoomFound, RoomWait, RoomSwitch, RoomSwitchFails, WakeRoom, GroupJoin, GroupBuilt,
         LogRecord, SyncLog, InsertEntry, Commit, Finish, GetBegin, GetEnd, FlushWait,
         ManualCompact, InRoom, UnlockedStep, AllGone
    <3>3. pc' = pc \/ \E x : x \notin {"closewait", "closed"} /\ pc' = [pc EXCEPT ![t] = x]
      BY <1>2, <2>2, Zenon DEF Caller, Writer, Enqueue, EnterRoom, WakeQueued, Return,
         RoomError, RoomSlowdown, RoomFound, RoomWait, RoomSwitch, RoomSwitchFails,
         WakeRoom, GroupJoin, GroupBuilt, LogRecord, SyncLog, InsertEntry, Commit, Finish,
         GetBegin, GetEnd, FlushWait, ManualCompact, UnlockedStep, Skipped, callerVars
    <3>4. QED  BY <1>0, <3>1, <3>2, <3>3 DEF AllGone
  <2>3. QED  BY <2>1, <2>2
<1>3. CASE BackgroundThread
  BY <1>1, <1>3, BackgroundFrame DEF Untouched, callerVars
<1>4. CASE UNCHANGED vars
  BY <1>1, <1>4 DEF vars, callerVars
<1>5. QED  BY <1>2, <1>3, <1>4 DEF Next

LEMMA ManualCallerStep ==
  ASSUME IInv, AllGone, ManualWaits, ManualRuns, NEW t \in Threads, Caller(t)
  PROVE  ManualWaits' /\ ManualRuns'
<1>0. /\ pc \in [Threads -> CallerPCs] /\ mdone \in [Threads -> BOOLEAN]
      /\ manual \in Threads \cup {Null} /\ Null \notin Threads
  BY NullAssumption DEF IInv, Typed, TypeOK, CallersOK, BackgroundOK
<1>1. CASE ManualCompact(t)
  <2>1. UNCHANGED <<bg, bgError>> /\ pc[t] \in {"manual", "manualwait"} /\ ~shuttingDown
    BY <1>1 DEF ManualCompact, AllGone
  <2>2. CASE /\ ~mdone[t] /\ UNCHANGED mdone
             /\ manual' = (IF manual = Null THEN t ELSE manual)
             /\ pc' = [pc EXCEPT ![t] = "manualwait"]
    BY <1>0, <2>1, <2>2 DEF ManualWaits, ManualRuns
  <2>3. CASE /\ mdone[t] \/ shuttingDown \/ bgError # "ok"
             /\ manual' = Cancelled(t)
             /\ mdone' = [mdone EXCEPT ![t] = FALSE]
             /\ pc' = [pc EXCEPT ![t] = IF mlevels[t] > 1 THEN "manual" ELSE "idle"]
    BY <1>0, <2>1, <2>3 DEF ManualWaits, ManualRuns, Cancelled
  <2>4. QED  BY <1>1, <2>2, <2>3 DEF ManualCompact
<1>2. CASE ~ManualCompact(t)
  <2>1. UNCHANGED <<bg, manual, mdone>> /\ (bgError' = "ok" => bgError = "ok")
    BY <1>2 DEF Caller, Writer, bgVars, manualVars, Enqueue, WakeQueued, RoomError,
       RoomSlowdown, RoomFound, RoomWait, RoomSwitch, RoomSwitchFails, WakeRoom, GroupJoin,
       GroupBuilt, LogRecord, SyncLog, InsertEntry, Commit, Finish, GetBegin, GetEnd,
       FlushWait, Close, RecordBackgroundError
  <2>2. \A u \in Threads : pc[u] = "manualwait" => pc'[u] = pc[u]
    <3>1. pc[t] # "manualwait"
      BY <1>2 DEF Caller, Writer, Enqueue, WakeQueued, RoomError, RoomSlowdown,
         RoomFound, RoomWait, RoomSwitch, RoomSwitchFails, WakeRoom, GroupJoin, GroupBuilt,
         LogRecord, SyncLog, InsertEntry, Commit, Finish, GetBegin, GetEnd, FlushWait,
         Close, InRoom, UnlockedStep
    <3>2. pc' = pc \/ \E x : pc' = [pc EXCEPT ![t] = x]
      BY <1>2, Zenon DEF Caller, Writer, Enqueue, EnterRoom, WakeQueued, Return, RoomError,
         RoomSlowdown, RoomFound, RoomWait, RoomSwitch, RoomSwitchFails, WakeRoom,
         GroupJoin, GroupBuilt, LogRecord, SyncLog, InsertEntry, Commit, Finish, GetBegin,
         GetEnd, FlushWait, Close, UnlockedStep, callerVars
    <3>3. QED  BY <1>0, <3>1, <3>2
  <2>3. QED  BY <1>0, <2>1, <2>2 DEF ManualWaits, ManualRuns
<1>3. QED  BY <1>1, <1>2

LEMMA ManualBackgroundStep ==
  ASSUME IInv, ManualWaits, ManualRuns, BackgroundThread
  PROVE  ManualWaits' /\ ManualRuns'
<1>0. /\ mdone \in [Threads -> BOOLEAN] /\ manual \in Threads \cup {Null}
      /\ Null \notin Threads /\ bg \in Background /\ bgError \in {"ok", "bg", "sync"}
  BY NullAssumption DEF IInv, Typed, TypeOK, BackgroundOK
<1>1. UNCHANGED pc /\ (bgError' = "ok" => bgError = "ok")
  BY BackgroundFrame, BackgroundError DEF Untouched, callerVars
<1>2. ASSUME NEW m \in BOOLEAN, NEW o \in BOOLEAN, NEW w, EndCall(m, o, w),
             m /\ bgError' = "ok" => manual # Null
      PROVE  ManualWaits' /\ ManualRuns'
  <2>1. CASE m /\ manual = Null
    <3>1. bg'.pc = "crashed" /\ ~bg'.manual /\ UNCHANGED <<manual, mdone>>
      BY <1>2, <2>1 DEF EndCall, BgIdle
    <3>2. QED  BY <1>1, <1>2, <2>1, <3>1 DEF ManualWaits, ManualRuns
  <2>2. CASE ~(m /\ manual = Null)
    <3>0. bg' = BgIdle
      BY <1>2, <2>2, Zenon DEF EndCall
    <3>1. bg'.pc = "none" /\ ~bg'.manual
      BY <3>0 DEF BgIdle
    <3>2. /\ mdone' = [t \in Threads |-> mdone[t] \/ (m /\ o /\ t = manual)]
          /\ manual' = IF m THEN Null ELSE manual
      BY <1>2, <2>2 DEF EndCall
    <3>3. QED  BY <1>0, <1>1, <3>1, <3>2 DEF ManualWaits, ManualRuns
  <2>3. QED  BY <2>1, <2>2
<1>3. ASSUME NEW w, FlushReturns(w) PROVE ManualWaits' /\ ManualRuns'
  <2>1. CASE /\ bg' = [bg EXCEPT !.pc = "compact", !.kind = "tables", !.nested = FALSE]
             /\ UNCHANGED <<manual, mdone>>
    <3>1. bg'.manual = bg.manual /\ bg'.pc = "compact"
      BY <1>0, <2>1 DEF Background
    <3>2. QED  BY <1>1, <2>1, <3>1 DEF ManualWaits, ManualRuns
  <2>2. CASE EndCall(FALSE, FALSE, w)
    BY <1>2, <2>2
  <2>3. QED  BY <1>3, <2>1, <2>2 DEF FlushReturns
<1>4. ASSUME UNCHANGED <<manual, mdone>>, bg'.pc # "crashed",
             bg'.manual => bg.manual \/ manual # Null
      PROVE  ManualWaits' /\ ManualRuns'
  BY <1>1, <1>4 DEF ManualWaits, ManualRuns
<1>5. CASE BgFlush \/ BgManual \/ BgPick
  BY <1>4, <1>5 DEF BgFlush, BgManual, BgPick, BgIdle
<1>6. CASE BgNestedFlush \/ BgMerged \/ BgBuilt
  BY <1>0, <1>4, <1>6 DEF BgNestedFlush, BgMerged, BgBuilt, Background
<1>7. CASE BgSkip
  BY <1>2, <1>7 DEF BgSkip
<1>8. CASE BgManualOver
  BY <1>2, <1>8 DEF BgManualOver
<1>9. CASE BgCompactionFails
  <2>1. bgError' # "ok" /\ EndCall(bg.manual, TRUE, ErrorWaiters) /\ bg.manual \in BOOLEAN
    BY <1>0, <1>9 DEF BgCompactionFails, RecordBackgroundError, Background
  <2>2. QED  BY <1>2, <2>1
<1>10. CASE BgInstallTables \/ BgCollected
  <2>1. bg.manual \in BOOLEAN /\ UNCHANGED bgError
    BY <1>0, <1>10 DEF BgInstallTables, BgCollected, Background
  <2>2. CASE EndCall(bg.manual, FALSE, {})
    BY <1>2, <2>1, <2>2 DEF ManualRuns
  <2>3. CASE bg' = [bg EXCEPT !.pc = "gc"] /\ UNCHANGED <<manual, mdone>>
    BY <1>0, <1>4, <2>3 DEF Background
  <2>4. QED  BY <1>10, <2>2, <2>3 DEF BgInstallTables, BgCollected
<1>11. CASE BgInstallMemTable \/ BgMemTableCollected \/ BgFlushFails
  <2>1. CASE \E w : FlushReturns(w)
    BY <1>3, <2>1
  <2>2. CASE bg' = [bg EXCEPT !.pc = "gc"] /\ UNCHANGED <<manual, mdone>>
    BY <1>0, <1>4, <2>2 DEF Background
  <2>3. QED  BY <1>11, <2>1, <2>2 DEF BgInstallMemTable, BgMemTableCollected, BgFlushFails
<1>12. QED
  BY <1>5, <1>6, <1>7, <1>8, <1>9, <1>10, <1>11 DEF BackgroundThread

\* As long as no background error is recorded, the frame that a manual
\* compaction will write to through manual_compaction_ is that of a
\* TEST_CompactRange call that is still waiting.
THEOREM ManualFrameLives == Spec => []ManualPointerValid
<1> DEFINE MInv == AllGone /\ ManualWaits /\ ManualRuns
<1>1. Init => MInv
  BY DEF Init, InitState, AllGone, ManualWaits, ManualRuns, BgIdle
<1>2. IInv /\ MInv /\ [Next]_vars => MInv'
  <2> SUFFICES ASSUME IInv, MInv, [Next]_vars PROVE MInv'
    OBVIOUS
  <2>1. CASE UNCHANGED vars
    BY <2>1 DEF vars, callerVars, bgVars, manualVars, AllGone, ManualWaits, ManualRuns
  <2>2. QED
    BY <2>1, AllGoneStep, ManualCallerStep, ManualBackgroundStep DEF Next
<1>3. MInv => ManualPointerValid
  BY DEF ManualWaits, ManualRuns, ManualPointerValid
<1> HIDE DEF MInv
<1>4. QED  BY <1>1, <1>2, <1>3, Invariant, PTL DEF Spec

(***************************************************************************)
(* What becomes of a batch, for every set of threads, requests and bounds: *)
(* sequence numbers, the log, what is synced, what a reader sees, and that *)
(* a Write takes effect at one moment or not at all.                       *)
(*                                                                         *)
(* LastSequence() moves only when a leader commits, so what is above it in *)
(* the log or the memtable is that leader's group; the group's own numbers *)
(* are above it and distinct; and how far its record has come (logged,     *)
(* synced, inserted) is told by where the leader is.                       *)
(***************************************************************************)

ImmEmpty == ~hasImm => imm = {}

\* A group numbers its updates upwards from LastSequence(), each once.
Numbered(t) ==
  /\ lastSequence <= group[t].end
  /\ \A e \in group[t].entries : lastSequence < e.seq /\ e.seq <= group[t].end
  /\ \A e, f \in group[t].entries : e.seq = f.seq => e = f
GroupsNumbered == \A t \in Threads : pc[t] \in Building => Numbered(t)

\* What is stored or logged above LastSequence() belongs to the group at work.
StoredOwned ==
  \A e \in Stored : e.seq > lastSequence =>
    \E t \in Threads : /\ pc[t] \in {"insert", "commit"} /\ group[t].ok
                       /\ e \in group[t].entries
LogOwned ==
  \A e \in log : e.seq > lastSequence =>
    \E t \in Threads : pc[t] \in {"sync", "insert", "commit"} /\ e \in group[t].entries

\* How far the group of a leader has come.
Progress(t) ==
  /\ pc[t] \in {"group", "log", "sync", "insert"} => group[t].ok /\ group[t].synced
  /\ pc[t] \in {"sync", "insert"} => group[t].entries \subseteq log
  /\ pc[t] = "commit" /\ group[t].ok => group[t].entries \subseteq mem
  /\ pc[t] \in {"insert", "commit", "finish"} /\ group[t].ok /\ group[t].sync =>
       group[t].entries \subseteq synced
GroupsProgress == \A t \in Threads : Progress(t)

DataInv ==
  /\ ImmEmpty /\ GroupsNumbered /\ StoredOwned /\ LogOwned /\ GroupsProgress
  /\ WriteAhead /\ SequencesUnique

\* While one thread leads, no other group is at work.
LEMMA OthersOutside ==
  ASSUME IInv, NEW t \in Threads, pc[t] \in Leading,
         NEW u \in Threads \ {t}
  PROVE  pc[u] \notin Leading
BY OneLeader

\* The data types, once for all the steps below.
LEMMA DataTypes ==
  ASSUME IInv
  PROVE  /\ pc \in [Threads -> CallerPCs] /\ group \in [Threads -> Group]
         /\ req \in [Threads -> RequestSpace] /\ opn \in [Threads -> Nat]
         /\ writers \in Seq(Threads) /\ lastSequence \in Nat
         /\ mem \subseteq Entry /\ imm \subseteq Entry /\ tables \subseteq Entry
         /\ log \subseteq Entry /\ synced \subseteq Entry
         /\ done \in [Threads -> BOOLEAN] /\ status \in [Threads -> BOOLEAN]
         /\ mutex \in Threads \cup {Null} /\ Null \notin Threads
         /\ hasImm \in BOOLEAN
BY NullAssumption DEF IInv, Typed, TypeOK, CallersOK, QueueOK, DataOK

\* Steps of a caller that neither build nor carry out a group, nor switch the
\* memtable.
Quiet(t) ==
  \/ Enqueue(t) \/ WakeQueued(t) \/ RoomError(t) \/ RoomSlowdown(t) \/ RoomWait(t)
  \/ RoomSwitchFails(t) \/ WakeRoom(t) \/ Finish(t)
  \/ GetBegin(t) \/ GetEnd(t) \/ FlushWait(t) \/ ManualCompact(t) \/ Close(t)

LEMMA CallerSplit ==
  ASSUME NEW t \in Threads, Caller(t)
  PROVE  \/ Quiet(t) \/ RoomFound(t) \/ RoomSwitch(t) \/ GroupJoin(t) \/ GroupBuilt(t)
         \/ LogRecord(t) \/ SyncLog(t) \/ InsertEntry(t) \/ Commit(t)
BY DEF Caller, Writer, Quiet

LEMMA QuietFrame ==
  ASSUME IInv, NEW t \in Threads, Quiet(t)
  PROVE  /\ UNCHANGED dataVars
         /\ pc[t] \notin Building /\ pc'[t] \notin Building
         /\ \A u \in Threads \ {t} : pc'[u] = pc[u] /\ group'[u] = group[u]
<1> USE DEF Quiet, Building, Unlocked
<1>0. pc \in [Threads -> CallerPCs] /\ group \in [Threads -> Group]
  BY DataTypes
<1>1. UNCHANGED dataVars
  BY DEF Enqueue, WakeQueued, RoomError, RoomSlowdown, RoomWait, RoomSwitchFails, WakeRoom,
     Finish, GetBegin, GetEnd, FlushWait, ManualCompact, Close, dataVars
<1>2. pc[t] \notin Building
  BY DEF Enqueue, WakeQueued, RoomError, RoomSlowdown, RoomWait, RoomSwitchFails, WakeRoom,
     Finish, GetBegin, GetEnd, FlushWait, ManualCompact, Close, InRoom
<1>3. pc' = pc \/ \E x : x \notin Building /\ pc' = [pc EXCEPT ![t] = x]
  BY Zenon DEF Enqueue, EnterRoom, WakeQueued, Return, RoomError, RoomSlowdown, RoomWait,
     RoomSwitchFails, WakeRoom, Finish, GetBegin, GetEnd, FlushWait, ManualCompact, Close
<1>4. group' = group \/ \E x : group' = [group EXCEPT ![t] = x]
  BY DEF Enqueue, WakeQueued, RoomError, RoomSlowdown, RoomWait, RoomSwitchFails, WakeRoom,
     Finish, GetBegin, GetEnd, FlushWait, ManualCompact, Close, LoneGroup, FirstOfGroup,
     queueVars
<1>5. QED  BY <1>0, <1>1, <1>2, <1>3, <1>4

\* A quiet step that ends at "finish" has failed: its group is empty-handed.
LEMMA QuietFinish ==
  ASSUME IInv, NEW t \in Threads, Quiet(t), pc'[t] = "finish"
  PROVE  ~group'[t].ok
<1>0. pc \in [Threads -> CallerPCs] /\ group \in [Threads -> Group]
  BY DataTypes
<1>1. CASE RoomError(t) \/ RoomSwitchFails(t)
  BY <1>0, <1>1 DEF RoomError, RoomSwitchFails, LoneGroup, FirstOfGroup
<1>2. CASE ~RoomError(t) /\ ~RoomSwitchFails(t)
  <2>1. \E x : x # "finish" /\ pc' = [pc EXCEPT ![t] = x]
    BY <1>0, <1>2, Zenon DEF Quiet, Enqueue, EnterRoom, WakeQueued, Return, RoomSlowdown,
       RoomWait, WakeRoom, Finish, GetBegin, GetEnd, FlushWait, ManualCompact, Close
  <2>2. QED  BY <1>0, <2>1
<1>3. QED  BY <1>1, <1>2

LEMMA QuietData ==
  ASSUME IInv, DataInv, NEW t \in Threads, Quiet(t)
  PROVE  DataInv'
<1> USE DEF DataInv, Building, Unlocked
<1>1. /\ UNCHANGED <<lastSequence, mem, imm, hasImm, log, synced, tables>>
      /\ pc[t] \notin Building /\ pc'[t] \notin Building
      /\ \A u \in Threads \ {t} : pc'[u] = pc[u] /\ group'[u] = group[u]
  BY QuietFrame DEF dataVars
<1>2. ImmEmpty' /\ WriteAhead' /\ SequencesUnique' /\ UNCHANGED Stored
  BY <1>1 DEF ImmEmpty, WriteAhead, SequencesUnique, Stored
<1>3. GroupsNumbered'
  BY <1>1 DEF GroupsNumbered, Numbered
<1>4. StoredOwned' /\ LogOwned'
  BY <1>1, <1>2 DEF StoredOwned, LogOwned
<1>5. GroupsProgress'
  BY <1>1, QuietFinish DEF GroupsProgress, Progress
<1>6. QED  BY <1>2, <1>3, <1>4, <1>5

LEMMA BackgroundData ==
  ASSUME IInv, DataInv, BackgroundThread
  PROVE  DataInv'
<1> USE DEF DataInv
<1>1. UNCHANGED <<pc, group, lastSequence, mem, log, synced>>
  BY BackgroundFrame DEF Untouched, callerVars, queueVars
<1>2. UNCHANGED Stored /\ ImmEmpty'
  BY <1>1, BackgroundFrame DEF NoData, Stored, ImmEmpty
<1>3. QED
  BY <1>1, <1>2 DEF GroupsNumbered, Numbered, StoredOwned, LogOwned, GroupsProgress,
     Progress, WriteAhead, SequencesUnique

\* The leader that has room starts its group above LastSequence().
LEMMA RoomFoundData ==
  ASSUME IInv, DataInv, NEW t \in Threads, RoomFound(t)
  PROVE  DataInv'
<1> USE DEF DataInv, Building, Unlocked
<1>0. pc \in [Threads -> CallerPCs] /\ group \in [Threads -> Group]
      /\ req \in [Threads -> RequestSpace] /\ lastSequence \in Nat
  BY DataTypes
<1>1. UNCHANGED <<lastSequence, mem, imm, hasImm, log, synced, tables>> /\ pc[t] = "room"
  BY DEF RoomFound, dataVars, InRoom
<1>2. \A u \in Threads \ {t} : pc[u] \notin Leading /\ pc'[u] = pc[u] /\ group'[u] = group[u]
  <2>1. \A u \in Threads \ {t} : pc[u] \notin Leading
    BY <1>1, OthersOutside DEF Leading, Holding
  <2>2. \E x : pc' = [pc EXCEPT ![t] = x]
    BY DEF RoomFound
  <2>3. \E x : group' = [group EXCEPT ![t] = x]
    BY DEF RoomFound, LoneGroup, FirstOfGroup
  <2>4. QED  BY <1>0, <2>1, <2>2, <2>3
<1>3. ImmEmpty' /\ WriteAhead' /\ SequencesUnique' /\ UNCHANGED Stored
  BY <1>1 DEF ImmEmpty, WriteAhead, SequencesUnique, Stored
<1>4. \/ /\ pc'[t] = "finish" /\ group'[t].entries = {}
      \/ /\ pc'[t] = "group" /\ group'[t].ok /\ group'[t].synced
         /\ group'[t].entries = Updates(t, lastSequence)
         /\ group'[t].end = lastSequence + req[t].count
  BY <1>0 DEF RoomFound, LoneGroup, FirstOfGroup
<1>5. GroupsNumbered'
  <2>1. pc'[t] = "group" => Numbered(t)'
    <3>1. req[t].count \in Nat
      BY <1>0 DEF RequestSpace
    <3>2. QED  BY <1>0, <1>1, <1>4, <3>1 DEF Numbered, Updates
  <2>2. QED  BY <1>2, <1>4, <2>1 DEF GroupsNumbered, Leading, Holding
<1>6. StoredOwned' /\ LogOwned'
  BY <1>1, <1>2, <1>3 DEF StoredOwned, LogOwned
<1>7. GroupsProgress'
  BY <1>1, <1>2, <1>4 DEF GroupsProgress, Progress
<1>8. QED  BY <1>3, <1>5, <1>6, <1>7

\* A full memtable becomes imm_: nothing is above LastSequence() in it, since
\* its only writer is the leader that switches.
LEMMA RoomSwitchData ==
  ASSUME IInv, DataInv, NEW t \in Threads, RoomSwitch(t)
  PROVE  DataInv'
<1> USE DEF DataInv
<1>1. /\ UNCHANGED <<pc, group, lastSequence, synced, tables>> /\ pc[t] = "room"
      /\ imm' = mem /\ hasImm' = TRUE /\ mem' = {} /\ log' = {} /\ ~hasImm
  BY DEF RoomSwitch, callerVars, InRoom
<1>2. \A u \in Threads : pc[u] \notin Building
  BY <1>1, OthersOutside DEF Leading, Holding, Building, Unlocked
<1>3. UNCHANGED Stored
  BY <1>1 DEF Stored, ImmEmpty
<1>4. ImmEmpty' /\ WriteAhead' /\ SequencesUnique'
  BY <1>1, <1>3 DEF ImmEmpty, WriteAhead, SequencesUnique
<1>5. GroupsNumbered' /\ StoredOwned' /\ LogOwned'
  BY <1>1, <1>2, <1>3 DEF GroupsNumbered, StoredOwned, LogOwned
<1>6. GroupsProgress'
  BY <1>1, <1>2 DEF GroupsProgress, Progress, Building, Unlocked
<1>7. QED  BY <1>4, <1>5, <1>6

\* The steps of a leader past MakeRoomForWrite: the others are outside.
LEMMA WorkFrame ==
  ASSUME IInv, NEW t \in Threads, GroupJoin(t) \/ GroupBuilt(t) \/ LogRecord(t)
                                   \/ SyncLog(t) \/ InsertEntry(t) \/ Commit(t)
  PROVE  /\ pc[t] \in Building
         /\ UNCHANGED <<imm, hasImm, tables>>
         /\ \A u \in Threads \ {t} :
              pc[u] \notin Leading /\ pc'[u] = pc[u] /\ group'[u] = group[u]
<1> USE DEF Building, Unlocked
<1>0. pc \in [Threads -> CallerPCs] /\ group \in [Threads -> Group]
  BY DataTypes
<1>1. pc[t] \in Building /\ UNCHANGED <<imm, hasImm, tables>>
  BY DEF GroupJoin, GroupBuilt, LogRecord, SyncLog, InsertEntry, Commit, UnlockedStep, dataVars
<1>2. \A u \in Threads \ {t} : pc[u] \notin Leading
  BY <1>1, OthersOutside DEF Leading, Holding
<1>3. pc' = pc \/ \E x : pc' = [pc EXCEPT ![t] = x]
  BY DEF GroupJoin, GroupBuilt, LogRecord, SyncLog, InsertEntry, Commit, UnlockedStep, callerVars
<1>4. group' = group \/ \E x : group' = [group EXCEPT ![t] = x]
  BY Zenon DEF GroupJoin, GroupBuilt, LogRecord, SyncLog, InsertEntry, Commit, queueVars
<1>5. QED  BY <1>0, <1>1, <1>2, <1>3, <1>4

\* A writer that joins is numbered from the group's end on.
LEMMA GroupJoinData ==
  ASSUME IInv, DataInv, NEW t \in Threads, GroupJoin(t)
  PROVE  DataInv'
<1> USE DEF DataInv, Building, Unlocked
<1>0. /\ pc \in [Threads -> CallerPCs] /\ group \in [Threads -> Group]
      /\ req \in [Threads -> RequestSpace] /\ lastSequence \in Nat
      /\ writers \in Seq(Threads) /\ group[t] \in Group
  BY DataTypes
<1>1. UNCHANGED <<pc, lastSequence, mem, imm, hasImm, log, synced, tables>> /\ pc[t] = "group"
  BY DEF GroupJoin, dataVars, callerVars
<1>2. \A u \in Threads \ {t} : pc[u] \notin Leading /\ pc'[u] = pc[u] /\ group'[u] = group[u]
  BY WorkFrame
<1> DEFINE u == writers[group[t].size + 1]
<1>3. u \in Threads /\ req[u].count \in Nat
  <2>1. group[t].size + 1 \in 1..Len(writers)
    <3>1. group[t].size \in Nat
      BY <1>0 DEF Group
    <3>2. group[t].size < Len(writers) /\ Len(writers) \in Nat
      BY <1>0 DEF GroupJoin
    <3>3. QED  BY <3>1, <3>2
  <2>2. u \in Threads
    BY <1>0, <2>1, ElementOfSeq
  <2> HIDE DEF u
  <2>3. QED  BY <1>0, <2>2 DEF RequestSpace
<1>4. group'[t] = Joined(t, u)
  BY <1>0 DEF GroupJoin
<1>5. /\ group'[t].entries = group[t].entries \cup Updates(u, group[t].end)
      /\ group'[t].end = group[t].end + req[u].count
      /\ group'[t].ok = group[t].ok /\ group'[t].synced = group[t].synced
  BY <1>4 DEF Joined
<1> HIDE DEF u
<1>6. ImmEmpty' /\ WriteAhead' /\ SequencesUnique' /\ UNCHANGED Stored
  BY <1>1 DEF ImmEmpty, WriteAhead, SequencesUnique, Stored
<1>7. GroupsNumbered'
  <2>1. Numbered(t)
    BY <1>1 DEF GroupsNumbered
  <2>2. group[t].end \in Nat /\ group[t].entries \subseteq Entry
    BY <1>0 DEF Group
  <2>3. \A e \in Updates(u, group[t].end) :
          group[t].end < e.seq /\ e.seq <= group[t].end + req[u].count
    BY <1>3, <2>2 DEF Updates
  <2>4. \A e, f \in Updates(u, group[t].end) : e.seq = f.seq => e = f
    BY <1>3, <2>2 DEF Updates
  <2>5. Numbered(t)'
    <3>1. lastSequence' <= group'[t].end
      BY <1>0, <1>1, <1>3, <1>5, <2>1, <2>2 DEF Numbered
    <3>2. \A e \in group'[t].entries : lastSequence' < e.seq /\ e.seq <= group'[t].end
      <4>1. \A e \in group[t].entries : e.seq \in Nat
        BY <2>2 DEF Entry
      <4>2. \A e \in Updates(u, group[t].end) : e.seq \in Nat
        BY <1>3, <2>2 DEF Updates
      <4>3. QED  BY <1>0, <1>1, <1>3, <1>5, <2>1, <2>2, <2>3, <4>1, <4>2 DEF Numbered
    <3>3. \A e, f \in group'[t].entries : e.seq = f.seq => e = f
      <4>1. \A e \in group[t].entries : e.seq \in Nat /\ e.seq <= group[t].end
        BY <2>1, <2>2 DEF Entry, Numbered
      <4>2. QED  BY <1>5, <2>1, <2>2, <2>3, <2>4, <4>1 DEF Numbered
    <3>4. QED  BY <3>1, <3>2, <3>3 DEF Numbered
  <2>6. QED  BY <1>2, <2>5 DEF GroupsNumbered, Leading, Holding
<1>8. StoredOwned' /\ LogOwned'
  BY <1>1, <1>2, <1>6 DEF StoredOwned, LogOwned
<1>9. GroupsProgress'
  BY <1>1, <1>2, <1>5 DEF GroupsProgress, Progress
<1>10. QED  BY <1>6, <1>7, <1>8, <1>9

LEMMA GroupBuiltData ==
  ASSUME IInv, DataInv, NEW t \in Threads, GroupBuilt(t)
  PROVE  DataInv'
<1> USE DEF DataInv, Building, Unlocked
<1>0. pc \in [Threads -> CallerPCs]
  BY DataTypes
<1>1. /\ UNCHANGED <<group, lastSequence, mem, imm, hasImm, log, synced, tables>>
      /\ pc[t] = "group" /\ pc' = [pc EXCEPT ![t] = "log"]
  BY DEF GroupBuilt, dataVars, queueVars
<1>2. ImmEmpty' /\ WriteAhead' /\ SequencesUnique' /\ UNCHANGED Stored
  BY <1>1 DEF ImmEmpty, WriteAhead, SequencesUnique, Stored
<1>3. GroupsNumbered'
  BY <1>0, <1>1 DEF GroupsNumbered, Numbered
<1>4. StoredOwned' /\ LogOwned'
  BY <1>0, <1>1, <1>2 DEF StoredOwned, LogOwned
<1>5. GroupsProgress'
  BY <1>0, <1>1 DEF GroupsProgress, Progress
<1>6. QED  BY <1>2, <1>3, <1>4, <1>5

\* The record is in the log, or nothing of it is and the group fails.
LEMMA LogRecordData ==
  ASSUME IInv, DataInv, NEW t \in Threads, LogRecord(t)
  PROVE  DataInv'
<1> USE DEF DataInv, Building, Unlocked
<1>0. /\ pc \in [Threads -> CallerPCs] /\ group \in [Threads -> Group]
      /\ lastSequence \in Nat /\ group[t] \in Group /\ log \subseteq Entry
      /\ mem \subseteq Entry /\ imm \subseteq Entry /\ tables \subseteq Entry
  BY DataTypes
<1>1. UNCHANGED <<lastSequence, mem, imm, hasImm, synced, tables>> /\ pc[t] = "log"
  BY DEF LogRecord, UnlockedStep
<1>2. \A u \in Threads \ {t} : pc[u] \notin Leading /\ pc'[u] = pc[u] /\ group'[u] = group[u]
  BY WorkFrame
<1>3. ImmEmpty' /\ UNCHANGED Stored /\ Numbered(t) /\ Progress(t)
  BY <1>1 DEF ImmEmpty, Stored, GroupsNumbered, GroupsProgress
<1>4. \A e \in Stored \cup log : e.seq \in Nat /\ e.seq <= lastSequence
  <2>1. \A e \in Stored \cup log : e.seq \in Nat
    BY <1>0 DEF Stored, Entry
  <2>2. \A u \in Threads : pc[u] \notin {"sync", "insert", "commit"}
    BY <1>1, <1>2 DEF Leading
  <2>3. QED  BY <1>0, <2>1, <2>2 DEF StoredOwned, LogOwned
<1>5. CASE log' = log \cup group[t].entries /\ UNCHANGED group
           /\ pc'[t] \in {"sync", "insert"} /\ (pc'[t] = "insert" => ~group[t].sync)
  <2>1. SequencesUnique'
    <3>1. \A e \in Stored \cup log, f \in group[t].entries : e.seq # f.seq
      BY <1>0, <1>3, <1>4 DEF Numbered, Group, Entry
    <3>2. QED  BY <1>3, <1>5, <3>1 DEF SequencesUnique, Numbered
  <2>2. WriteAhead'
    BY <1>1, <1>5 DEF WriteAhead
  <2>3. GroupsNumbered'
    BY <1>1, <1>2, <1>3, <1>5 DEF GroupsNumbered, Numbered, Leading, Holding
  <2>4. StoredOwned' /\ LogOwned'
    BY <1>0, <1>1, <1>3, <1>4, <1>5 DEF StoredOwned, LogOwned
  <2>5. GroupsProgress'
    BY <1>1, <1>2, <1>3, <1>5 DEF GroupsProgress, Progress
  <2>6. QED  BY <1>3, <2>1, <2>2, <2>3, <2>4, <2>5
<1>6. CASE UNCHANGED log /\ group' = [group EXCEPT ![t] = [group[t] EXCEPT !.ok = FALSE]]
           /\ pc'[t] = "commit"
  <2>1. /\ group'[t].entries = group[t].entries /\ group'[t].end = group[t].end
        /\ ~group'[t].ok
    BY <1>0, <1>6 DEF Group
  <2>2. SequencesUnique' /\ WriteAhead'
    BY <1>1, <1>3, <1>6 DEF SequencesUnique, WriteAhead
  <2>3. GroupsNumbered'
    BY <1>1, <1>2, <1>3, <1>6, <2>1 DEF GroupsNumbered, Numbered, Leading, Holding
  <2>4. StoredOwned' /\ LogOwned'
    BY <1>0, <1>1, <1>3, <1>4, <1>6 DEF StoredOwned, LogOwned
  <2>5. GroupsProgress'
    BY <1>1, <1>2, <1>6, <2>1 DEF GroupsProgress, Progress
  <2>6. QED  BY <1>3, <2>2, <2>3, <2>4, <2>5
<1>7. QED
  <2>1. \/ /\ log' = log \cup group[t].entries /\ UNCHANGED group
           /\ pc' = [pc EXCEPT ![t] = IF group[t].sync THEN "sync" ELSE "insert"]
        \/ /\ UNCHANGED log /\ group' = [group EXCEPT ![t] = [group[t] EXCEPT !.ok = FALSE]]
           /\ pc' = [pc EXCEPT ![t] = "commit"]
    BY DEF LogRecord, UnlockedStep, Skipped
  <2>2. QED  BY <1>0, <1>5, <1>6, <2>1

\* The group that is synced is all in the log; a failed fsync fails it.
LEMMA SyncLogData ==
  ASSUME IInv, DataInv, NEW t \in Threads, SyncLog(t)
  PROVE  DataInv'
<1> USE DEF DataInv, Building, Unlocked
<1>0. /\ pc \in [Threads -> CallerPCs] /\ group \in [Threads -> Group] /\ group[t] \in Group
  BY DataTypes
<1>1. UNCHANGED <<lastSequence, mem, imm, hasImm, log, tables>> /\ pc[t] = "sync"
  BY DEF SyncLog, UnlockedStep
<1>2. \A u \in Threads \ {t} : pc[u] \notin Leading /\ pc'[u] = pc[u] /\ group'[u] = group[u]
  BY WorkFrame
<1>3. Numbered(t) /\ Progress(t)
  BY <1>1 DEF GroupsNumbered, GroupsProgress
<1>4. /\ group'[t].entries = group[t].entries /\ group'[t].end = group[t].end
      /\ \/ /\ pc'[t] = "insert" /\ synced' = synced \cup log
            /\ group'[t] = group[t]
         \/ /\ pc'[t] = "commit" /\ ~group'[t].ok
  <2>1. \/ /\ synced' = synced \cup log /\ UNCHANGED group
           /\ pc' = [pc EXCEPT ![t] = "insert"]
        \/ /\ group' = [group EXCEPT ![t] =
                          [[group[t] EXCEPT !.ok = FALSE] EXCEPT !.synced = FALSE]]
           /\ pc' = [pc EXCEPT ![t] = "commit"]
    BY DEF SyncLog, UnlockedStep, Skipped
  <2> DEFINE failed == [[group[t] EXCEPT !.ok = FALSE] EXCEPT !.synced = FALSE]
  <2>2. failed.entries = group[t].entries /\ failed.end = group[t].end /\ ~failed.ok
    BY <1>0 DEF Group
  <2> HIDE DEF failed
  <2>3. QED  BY <1>0, <2>1, <2>2 DEF failed
<1>5. ImmEmpty' /\ WriteAhead' /\ SequencesUnique' /\ UNCHANGED Stored
  BY <1>1 DEF ImmEmpty, WriteAhead, SequencesUnique, Stored
<1>6. GroupsNumbered'
  BY <1>1, <1>2, <1>3, <1>4 DEF GroupsNumbered, Numbered, Leading, Holding
<1>7. StoredOwned' /\ LogOwned'
  <2>1. StoredOwned'
    BY <1>1, <1>2, <1>5 DEF StoredOwned, Leading
  <2>2. LogOwned'
    BY <1>1, <1>2, <1>4 DEF LogOwned, Leading
  <2>3. QED  BY <2>1, <2>2
<1>8. GroupsProgress'
  BY <1>1, <1>2, <1>3, <1>4 DEF GroupsProgress, Progress, Leading, Holding
<1>9. QED  BY <1>5, <1>6, <1>7, <1>8

LEMMA InsertEntryData ==
  ASSUME IInv, DataInv, NEW t \in Threads, InsertEntry(t)
  PROVE  DataInv'
<1> USE DEF DataInv, Building, Unlocked
<1>0. /\ pc \in [Threads -> CallerPCs]
  BY DataTypes
<1>1. /\ UNCHANGED <<group, lastSequence, imm, hasImm, log, synced, tables>>
      /\ pc[t] = "insert" /\ mem \subseteq mem' /\ mem' \subseteq mem \cup group[t].entries
      /\ \/ pc' = pc
         \/ pc' = [pc EXCEPT ![t] = "commit"] /\ group[t].entries \subseteq mem'
  BY DEF InsertEntry, UnlockedStep, queueVars
<1>2. \A u \in Threads \ {t} : pc[u] \notin Leading /\ pc'[u] = pc[u]
  BY <1>1, WorkFrame
<1>3. Numbered(t) /\ Progress(t)
  BY <1>1 DEF GroupsNumbered, GroupsProgress
<1>4. Stored' \subseteq Stored \cup group[t].entries /\ group[t].entries \subseteq log
  BY <1>1, <1>3 DEF Stored, Progress
<1>5. ImmEmpty' /\ WriteAhead' /\ SequencesUnique'
  BY <1>1, <1>4 DEF ImmEmpty, WriteAhead, SequencesUnique
<1>6. GroupsNumbered'
  BY <1>0, <1>1, <1>2, <1>3 DEF GroupsNumbered, Numbered, Leading, Holding
<1>7. pc'[t] \in {"insert", "commit"} /\ group[t].ok
  BY <1>0, <1>1, <1>3 DEF Progress
<1>8. StoredOwned'
  <2>1. ASSUME NEW e \in Stored', e.seq > lastSequence PROVE e \in group[t].entries
    BY <1>2, <1>4, <2>1 DEF StoredOwned, Leading
  <2>2. QED  BY <1>1, <1>7, <2>1 DEF StoredOwned
<1>9. LogOwned'
  <2>1. ASSUME NEW e \in log, e.seq > lastSequence PROVE e \in group[t].entries
    BY <1>2, <2>1 DEF LogOwned, Leading
  <2>2. QED  BY <1>1, <1>7, <2>1 DEF LogOwned
<1>10. GroupsProgress'
  BY <1>0, <1>1, <1>2, <1>3 DEF GroupsProgress, Progress
<1>11. QED  BY <1>5, <1>6, <1>8, <1>9, <1>10

\* LastSequence() moves over the whole group, stored or not.
LEMMA CommitData ==
  ASSUME IInv, DataInv, NEW t \in Threads, Commit(t)
  PROVE  DataInv'
<1> USE DEF DataInv, Building, Unlocked
<1>0. /\ pc \in [Threads -> CallerPCs] /\ group[t] \in Group /\ lastSequence \in Nat
      /\ mem \subseteq Entry /\ imm \subseteq Entry /\ tables \subseteq Entry
      /\ log \subseteq Entry
  BY DataTypes
<1>1. /\ UNCHANGED <<group, mem, imm, hasImm, log, synced, tables>>
      /\ pc[t] = "commit" /\ pc' = [pc EXCEPT ![t] = "finish"]
      /\ lastSequence' = group[t].end
  BY DEF Commit, UnlockedStep, queueVars, CommittedSequence
<1>2. \A u \in Threads \ {t} : pc[u] \notin Leading /\ pc'[u] = pc[u]
  BY <1>1, WorkFrame
<1>3. Numbered(t) /\ Progress(t)
  BY <1>1 DEF GroupsNumbered, GroupsProgress
<1>4. ImmEmpty' /\ WriteAhead' /\ SequencesUnique' /\ UNCHANGED Stored
  BY <1>1 DEF ImmEmpty, WriteAhead, SequencesUnique, Stored
<1>5. GroupsNumbered'
  BY <1>0, <1>1, <1>2 DEF GroupsNumbered, Leading, Holding
<1>6. \A e \in Stored \cup log : e.seq <= lastSequence'
  <2>1. ASSUME NEW e \in Stored \cup log, e.seq > lastSequence PROVE e \in group[t].entries
    BY <1>2, <2>1 DEF StoredOwned, LogOwned, Leading
  <2>2. \A e \in Stored \cup log : e.seq \in Nat
    BY <1>0 DEF Stored, Entry
  <2>3. group[t].end \in Nat /\ lastSequence <= group[t].end
    BY <1>0, <1>3 DEF Group, Numbered
  <2>4. QED  BY <1>0, <1>1, <1>3, <2>1, <2>2, <2>3 DEF Numbered
<1>7. StoredOwned' /\ LogOwned'
  <2>1. \A e \in Stored \cup log : e.seq \in Nat
    BY <1>0 DEF Stored, Entry
  <2>2. lastSequence' \in Nat
    BY <1>0, <1>1 DEF Group
  <2>3. \A e \in Stored' \cup log' : ~(e.seq > lastSequence')
    BY <1>1, <1>4, <1>6, <2>1, <2>2
  <2>4. QED  BY <2>3 DEF StoredOwned, LogOwned
<1>8. GroupsProgress'
  BY <1>0, <1>1, <1>2, <1>3 DEF GroupsProgress, Progress
<1>9. QED  BY <1>4, <1>5, <1>7, <1>8

LEMMA DataStep == IInv /\ DataInv /\ [Next]_vars => DataInv'
<1> SUFFICES ASSUME IInv, DataInv, [Next]_vars PROVE DataInv'
  OBVIOUS
<1>1. CASE UNCHANGED vars
  <2>1. UNCHANGED <<pc, group, lastSequence, mem, imm, hasImm, log, synced, tables>>
    BY <1>1 DEF vars, callerVars, queueVars, dataVars
  <2>2. QED
    BY <2>1 DEF DataInv, ImmEmpty, GroupsNumbered, Numbered, StoredOwned, LogOwned,
       GroupsProgress, Progress, WriteAhead, SequencesUnique, Stored
<1>2. ASSUME NEW t \in Threads, Caller(t) PROVE DataInv'
  BY <1>2, CallerSplit, QuietData, RoomFoundData, RoomSwitchData, GroupJoinData,
     GroupBuiltData, LogRecordData, SyncLogData, InsertEntryData, CommitData
<1>3. QED  BY <1>1, <1>2, BackgroundData DEF Next

LEMMA DataInvariant == Spec => []DataInv
<1>1. Init => DataInv
  BY DEF Init, InitState, DataInv, ImmEmpty, GroupsNumbered, Building, Unlocked,
     StoredOwned, LogOwned, GroupsProgress, Progress, WriteAhead, SequencesUnique, Stored
<1>2. QED  BY <1>1, Invariant, DataStep, PTL DEF Spec

\* Whatever fails, no number is used twice: not by two groups, nor within one.
THEOREM NumbersUnique == Spec => []SequencesUnique
<1>1. DataInv => SequencesUnique
  BY DEF DataInv
<1>2. QED  BY <1>1, DataInvariant, PTL

\* An update is in the memtable only after its record is in the current log,
\* and a new log starts only with a new memtable.
THEOREM LogFirst == Spec => []WriteAhead
<1>1. DataInv => WriteAhead
  BY DEF DataInv
<1>2. QED  BY <1>1, DataInvariant, PTL

\* No step adds or removes an update at or below LastSequence(): an insertion
\* is above it, and the switch and the flush of a memtable only move updates.
LEMMA VisibleKept ==
  ASSUME IInv, DataInv, [Next]_vars
  PROVE  {e \in Stored' : e.seq <= lastSequence} = Visible(lastSequence)
<1>1. CASE UNCHANGED Stored
  BY <1>1 DEF Visible
<1>2. CASE UNCHANGED vars
  BY <1>1, <1>2 DEF vars, dataVars, Stored
<1>3. CASE BackgroundThread
  BY <1>1, <1>3, BackgroundFrame DEF Untouched, NoData, Stored
<1>4. ASSUME NEW t \in Threads, InsertEntry(t)
      PROVE  {e \in Stored' : e.seq <= lastSequence} = Visible(lastSequence)
  <2>1. /\ mem \subseteq mem' /\ mem' \subseteq mem \cup group[t].entries
        /\ UNCHANGED <<imm, tables>> /\ pc[t] = "insert"
    BY <1>4 DEF InsertEntry, UnlockedStep
  <2>2. \A e \in group[t].entries : ~(e.seq <= lastSequence)
    <3>1. Numbered(t)
      BY <2>1 DEF DataInv, GroupsNumbered, Building, Unlocked
    <3>2. lastSequence \in Nat /\ \A e \in group[t].entries : e.seq \in Nat
      BY DataTypes DEF Group, Entry
    <3>3. QED  BY <3>1, <3>2 DEF Numbered
  <2>3. QED  BY <2>1, <2>2 DEF Stored, Visible
<1>5. ASSUME NEW t \in Threads, RoomSwitch(t) PROVE UNCHANGED Stored
  BY <1>5 DEF RoomSwitch, Stored, DataInv, ImmEmpty
<1>6. ASSUME NEW t \in Threads, Caller(t), ~InsertEntry(t), ~RoomSwitch(t)
      PROVE  UNCHANGED Stored
  <2>1. CASE Quiet(t)
    BY <2>1, QuietFrame DEF dataVars, Stored
  <2>2. UNCHANGED <<mem, imm, tables>> \/ Quiet(t)
    BY <1>6, CallerSplit DEF RoomFound, GroupJoin, GroupBuilt, LogRecord, SyncLog, Commit, dataVars
  <2>3. QED  BY <2>1, <2>2 DEF Stored
<1>7. QED  BY <1>1, <1>2, <1>3, <1>4, <1>5, <1>6 DEF Next

\* What a reader sees at a sequence number it has read never changes, while
\* others write, switch memtables, flush and compact.
THEOREM SnapshotsStable == Spec => SnapshotStable
<1>1. IInv /\ DataInv /\ [Next]_vars
        => [{e \in Stored' : e.seq <= lastSequence} = Visible(lastSequence)]_vars
  BY VisibleKept
<1>2. QED
  BY <1>1, Invariant, DataInvariant, PTL DEF Spec, SnapshotStable

(***************************************************************************)
(* A sync Write's promise.  A group carries each member's updates and is   *)
(* synced if one of them asked for it; a member learns its group's status  *)
(* after the group has come so far.                                        *)
(***************************************************************************)
Has(S, op, count) == \A i \in 1..count : \E e \in S : e.op = op /\ e.i = i
HasUpdates(S, u) == Has(S, <<u, opn[u]>>, req[u].count)

LEMMA HasMore ==
  ASSUME NEW S, NEW T, S \subseteq T, NEW op, NEW n, Has(S, op, n)
  PROVE  Has(T, op, n)
BY DEF Has

\* A batch numbered from anywhere has all its updates.
LEMMA UpdatesHas ==
  ASSUME NEW u, NEW base
  PROVE  Has(Updates(u, base), <<u, opn[u]>>, req[u].count)
<1> SUFFICES ASSUME NEW i \in 1..req[u].count
             PROVE  \E e \in Updates(u, base) : e.op = <<u, opn[u]>> /\ e.i = i
  BY DEF Has
<1> DEFINE e == [seq |-> base + i, op |-> <<u, opn[u]>>, i |-> i]
<1>1. e \in Updates(u, base)
  BY DEF Updates
<1>2. e.op = <<u, opn[u]>> /\ e.i = i
  OBVIOUS
<1>3. QED  BY <1>1, <1>2

NullBatches == \A t \in Threads : req[t].kind # "write" => req[t].count = 0 /\ ~req[t].sync
Carries(t) ==
  \A k \in 1..group[t].size :
    /\ HasUpdates(group[t].entries, writers[k])
    /\ req[writers[k]].sync => group[t].sync
GroupsCarry == \A t \in Threads : pc[t] \in Grouped /\ group[t].ok => Carries(t)
ToldSynced ==
  \A t \in Threads : pc[t] = "queued" /\ done[t] /\ status[t] /\ req[t].sync =>
    HasUpdates(synced, t)

AckInv == NullBatches /\ GroupsCarry /\ ToldSynced /\ AckedSynced

\* What a step that only lets synced grow and groups fail keeps.
LEMMA AckKept ==
  ASSUME AckInv, UNCHANGED <<req, opn, writers, done, status, acked>>,
         synced \subseteq synced',
         \A t \in Threads : pc'[t] \in Grouped /\ group'[t].ok =>
           /\ pc[t] \in Grouped /\ group[t].ok
           /\ group'[t].size = group[t].size /\ group'[t].entries = group[t].entries
           /\ group'[t].sync = group[t].sync,
         \A t \in Threads : pc'[t] = "queued" => pc[t] = "queued"
  PROVE  AckInv'
<1> USE DEF AckInv
<1>1. NullBatches' /\ AckedSynced'
  BY DEF NullBatches, AckedSynced, Has
<1>2. GroupsCarry'
  <2> SUFFICES ASSUME NEW t \in Threads, pc'[t] \in Grouped, group'[t].ok PROVE Carries(t)'
    BY DEF GroupsCarry
  <2>1. Carries(t)
    BY DEF GroupsCarry
  <2>2. /\ group'[t].size = group[t].size /\ group'[t].entries = group[t].entries
        /\ group'[t].sync = group[t].sync
    OBVIOUS
  <2>3. QED  BY <2>1, <2>2 DEF Carries, HasUpdates
<1>3. ToldSynced'
  BY HasMore DEF ToldSynced, HasUpdates
<1>4. QED  BY <1>1, <1>2, <1>3

\* A Write that returns OK after its updates are synced keeps the promise.
LEMMA ReturnAcks ==
  ASSUME AckedSynced, NEW t \in Threads, NEW ok, Return(t, ok),
         synced' = synced, ok /\ req[t].sync => HasUpdates(synced, t)
  PROVE  AckedSynced'
<1>1. CASE acked' = acked
  BY <1>1 DEF AckedSynced
<1>2. CASE ok /\ acked' = acked \cup {[op |-> <<t, opn[t]>>, count |-> req[t].count,
                                       sync |-> req[t].sync]}
  <2> DEFINE new == [op |-> <<t, opn[t]>>, count |-> req[t].count, sync |-> req[t].sync]
  <2>1. \A a \in acked : a.sync => Has(synced, a.op, a.count)
    BY DEF AckedSynced, Has
  <2>2. new.sync => Has(synced, new.op, new.count)
    BY <1>2 DEF HasUpdates
  <2> HIDE DEF new
  <2>3. \A a \in acked' : a.sync => Has(synced, a.op, a.count)
    BY <1>2, <2>1, <2>2 DEF new
  <2>4. QED  BY <2>3 DEF AckedSynced, Has
<1>3. \/ acked' = acked
      \/ ok /\ acked' = acked \cup {[op |-> <<t, opn[t]>>, count |-> req[t].count,
                                        sync |-> req[t].sync]}
  BY DEF Return
<1>4. QED  BY <1>1, <1>2, <1>3

\* A call that begins is in no group and has been told nothing; the queue
\* before it stays.
LEMMA BeginFrame ==
  ASSUME IInv, NEW t \in Threads, Enqueue(t) \/ GetBegin(t)
  PROVE  /\ pc[t] = "idle" /\ UNCHANGED <<group, status, synced, acked>>
         /\ \A u \in Threads \ {t} : pc'[u] = pc[u] /\ req'[u] = req[u] /\ opn'[u] = opn[u]
                                     /\ done'[u] = done[u]
         /\ Len(writers) <= Len(writers') /\ writers' \in Seq(Threads)
         /\ \A k \in 1..Len(writers) : writers'[k] = writers[k] /\ writers[k] \in Threads \ {t}
         /\ pc'[t] \notin Grouped /\ ~(pc'[t] = "queued" /\ done'[t])
<1>0. /\ pc \in [Threads -> CallerPCs] /\ req \in [Threads -> RequestSpace]
      /\ opn \in [Threads -> Nat] /\ writers \in Seq(Threads)
      /\ done \in [Threads -> BOOLEAN] /\ group \in [Threads -> Group]
  BY DataTypes
<1>1. /\ pc[t] = "idle" /\ UNCHANGED <<group, status, synced, acked>>
      /\ \A u \in Threads \ {t} : pc'[u] = pc[u] /\ req'[u] = req[u] /\ opn'[u] = opn[u]
                                  /\ done'[u] = done[u]
  <2>1. pc[t] = "idle" /\ UNCHANGED <<group, status, synced, acked>>
    BY DEF Enqueue, GetBegin, queueVars, dataVars
  <2>2. /\ \E x : pc' = [pc EXCEPT ![t] = x]
        /\ \E x : req' = [req EXCEPT ![t] = x]
        /\ \E x : opn' = [opn EXCEPT ![t] = x]
        /\ done' = done \/ \E x : done' = [done EXCEPT ![t] = x]
    BY Zenon DEF Enqueue, EnterRoom, GetBegin, queueVars
  <2>3. QED  BY <1>0, <2>1, <2>2
<1>2. /\ Len(writers) <= Len(writers') /\ writers' \in Seq(Threads)
      /\ \A k \in 1..Len(writers) : writers'[k] = writers[k] /\ writers[k] \in Threads \ {t}
  <2>1. \A k \in 1..Len(writers) : writers[k] # t
    BY <1>1 DEF IInv, QueueInv, QueueMembers, Leading, Holding, Unlocked
  <2>2. writers' = Append(writers, t) \/ writers' = writers
    BY DEF Enqueue, GetBegin, queueVars
  <2>3. \A k \in 1..Len(writers) : writers[k] \in Threads
    BY <1>0, ElementOfSeq
  <2>4. CASE writers' = Append(writers, t)
    <3>1. Len(writers') = Len(writers) + 1 /\ writers' \in Seq(Threads)
          /\ \A k \in 1..Len(writers) : writers'[k] = writers[k]
      BY <1>0, <2>4
    <3>2. Len(writers) \in Nat
      BY <1>0
    <3>3. QED  BY <2>1, <2>3, <3>1, <3>2
  <2>5. CASE writers' = writers
    BY <1>0, <2>1, <2>3, <2>5
  <2>6. QED  BY <2>2, <2>4, <2>5
<1>3. /\ pc'[t] \notin Grouped /\ ~(pc'[t] = "queued" /\ done'[t])
  BY <1>0 DEF Enqueue, EnterRoom, GetBegin, Grouped, Unlocked
<1>4. QED  BY <1>1, <1>2, <1>3

LEMMA BeginAcks ==
  ASSUME IInv, AckInv, NEW t \in Threads, Enqueue(t) \/ GetBegin(t)
  PROVE  AckInv'
<1> USE DEF AckInv
<1>0. req \in [Threads -> RequestSpace] /\ group \in [Threads -> Group]
      /\ writers \in Seq(Threads)
  BY DataTypes
<1>1. /\ pc[t] = "idle" /\ UNCHANGED <<group, status, synced, acked>>
      /\ \A u \in Threads \ {t} : pc'[u] = pc[u] /\ req'[u] = req[u] /\ opn'[u] = opn[u]
                                  /\ done'[u] = done[u]
  BY BeginFrame
<1>2. /\ Len(writers) <= Len(writers') /\ writers' \in Seq(Threads)
      /\ \A k \in 1..Len(writers) : writers'[k] = writers[k] /\ writers[k] \in Threads \ {t}
  BY BeginFrame
<1>3. /\ pc'[t] \notin Grouped /\ ~(pc'[t] = "queued" /\ done'[t])
  BY BeginFrame
<1>4. NullBatches'
  <2>1. \E r \in Requests : req' = [req EXCEPT ![t] = r]
    BY DEF Enqueue, GetBegin
  <2>2. QED  BY <1>0, <2>1, RequestsAssumption DEF NullBatches
<1>5. GroupsCarry'
  <2> SUFFICES ASSUME NEW u \in Threads, pc'[u] \in Grouped, group'[u].ok PROVE Carries(u)'
    BY DEF GroupsCarry
  <2>1. u # t /\ Carries(u) /\ group[u].size \in 1..Len(writers)
    BY <1>1, <1>3 DEF GroupsCarry, IInv, QueueInv, GroupFits
  <2>2. ASSUME NEW k \in 1..group'[u].size
        PROVE  /\ k \in 1..group[u].size /\ writers'[k] = writers[k]
               /\ req'[writers[k]] = req[writers[k]] /\ opn'[writers[k]] = opn[writers[k]]
    <3>1. group'[u].size = group[u].size /\ k \in 1..Len(writers)
      BY <1>0, <1>1, <2>1
    <3>2. QED  BY <1>1, <1>2, <3>1
  <2>3. group'[u] = group[u]
    BY <1>1
  <2>4. QED  BY <2>1, <2>2, <2>3 DEF Carries, HasUpdates
<1>6. ToldSynced'
  BY <1>1, <1>3 DEF ToldSynced, HasUpdates
<1>7. AckedSynced'
  BY <1>1 DEF AckedSynced
<1>8. QED  BY <1>4, <1>5, <1>6, <1>7

\* Finish tells the members the status of a group that has come to its end.
LEMMA FinishAcks ==
  ASSUME IInv, DataInv, AckInv, NEW t \in Threads, Finish(t)
  PROVE  AckInv'
<1> USE DEF AckInv
<1>0. /\ pc \in [Threads -> CallerPCs] /\ writers \in Seq(Threads)
      /\ done \in [Threads -> BOOLEAN] /\ group \in [Threads -> Group]
  BY DataTypes
<1>1. /\ pc[t] = "finish" /\ UNCHANGED <<group, req, opn, synced>>
      /\ pc'[t] \notin Grouped \cup {"queued"}
      /\ \A u \in Threads \ {t} : pc'[u] = pc[u]
  <2>1. pc[t] = "finish" /\ UNCHANGED <<group, req, opn, synced>>
    BY DEF Finish, dataVars
  <2>2. \/ pc' = [pc EXCEPT ![t] = "idle"] \/ pc' = [pc EXCEPT ![t] = "flush"]
        \/ pc' = [pc EXCEPT ![t] = "manual"]
    BY DEF Finish, Return
  <2>3. QED  BY <1>0, <2>1, <2>2 DEF Grouped, Unlocked
<1>2. \A u \in Threads \ {t} : pc[u] \notin Leading
  BY <1>1, OthersOutside DEF Leading, Holding
<1>3. group[t].ok => Carries(t) /\ (group[t].sync => group[t].entries \subseteq synced)
  BY <1>1 DEF GroupsCarry, Grouped, DataInv, GroupsProgress, Progress
<1>4. NullBatches'
  BY <1>1 DEF NullBatches
<1>5. GroupsCarry'
  BY <1>1, <1>2 DEF GroupsCarry, Grouped, Leading, Holding
<1>6. ASSUME NEW k \in 1..group[t].size, group[t].ok, req[writers[k]].sync
      PROVE  HasUpdates(synced, writers[k])
  BY <1>3, <1>6, HasMore DEF Carries, HasUpdates
<1>7. ToldSynced'
  <2> SUFFICES ASSUME NEW u \in Threads, pc'[u] = "queued", done'[u], status'[u], req'[u].sync
               PROVE  HasUpdates(synced, u)
    BY <1>1 DEF ToldSynced, HasUpdates
  <2>1. u # t /\ pc[u] = "queued" /\ req[u].sync
    BY <1>1
  <2>2. CASE u \in Members(t)
    <3>1. status'[u] = group[t].ok
      BY <2>2 DEF Finish, MemberStatus
    <3>2. QED  BY <1>6, <2>1, <2>2, <3>1 DEF Members
  <2>3. CASE u \notin Members(t)
    <3>1. done[u] /\ status[u]
      BY <2>3 DEF Finish
    <3>2. QED  BY <2>1, <3>1 DEF ToldSynced
  <2>4. QED  BY <2>2, <2>3
<1>8. AckedSynced'
  <2>1. group[t].size \in 1..Len(writers) /\ writers[1] = t
    BY <1>0, <1>1 DEF IInv, QueueInv, GroupFits, Grouped, LeaderIsHead, Leading, Holding
  <2>2. 1 \in 1..group[t].size
    BY <1>0, <2>1
  <2>3. group[t].ok /\ req[t].sync => HasUpdates(synced, t)
    BY <1>6, <2>1, <2>2
  <2>4. Return(t, group[t].ok)
    BY DEF Finish
  <2>5. QED  BY <1>1, <2>3, <2>4, ReturnAcks
<1>9. QED  BY <1>4, <1>5, <1>7, <1>8

LEMMA WakeQueuedAcks ==
  ASSUME IInv, AckInv, NEW t \in Threads, WakeQueued(t)
  PROVE  AckInv'
<1> USE DEF AckInv
<1>0. pc \in [Threads -> CallerPCs] /\ done \in [Threads -> BOOLEAN]
  BY DataTypes
<1>1. /\ pc[t] = "queued" /\ UNCHANGED <<req, opn, writers, done, status, group, synced>>
      /\ \E x : x \notin Grouped /\ pc' = [pc EXCEPT ![t] = x]
  <2>1. pc[t] = "queued" /\ UNCHANGED <<req, opn, writers, done, status, group, synced>>
    BY DEF WakeQueued, dataVars
  <2>2. pc' = [pc EXCEPT ![t] = "queued"] \/ \E x : x \notin Grouped /\ pc' = [pc EXCEPT ![t] = x]
    BY <1>0, <2>1 DEF WakeQueued, EnterRoom, Return, Grouped, Unlocked
  <2>3. QED  BY <2>1, <2>2 DEF Grouped, Unlocked
<1>2. /\ \A u \in Threads : pc'[u] \in Grouped => pc[u] \in Grouped
      /\ \A u \in Threads : pc'[u] = "queued" => pc[u] = "queued"
  BY <1>0, <1>1
<1>3. CASE acked' = acked
  BY <1>1, <1>2, <1>3, AckKept
<1>4. CASE done[t] /\ Return(t, status[t])
  <2>1. NullBatches' /\ GroupsCarry' /\ ToldSynced'
    BY <1>1, <1>2 DEF NullBatches, GroupsCarry, Carries, ToldSynced, HasUpdates
  <2>2. status[t] /\ req[t].sync => HasUpdates(synced, t)
    BY <1>1, <1>4 DEF ToldSynced
  <2>3. AckedSynced'
    BY <1>1, <1>4, <2>2, ReturnAcks
  <2>4. QED  BY <2>1, <2>3
<1>5. QED  BY <1>3, <1>4 DEF WakeQueued

\* The leader's own updates are the first of its group; a null batch has none.
LEMMA RoomFoundAcks ==
  ASSUME IInv, AckInv, NEW t \in Threads, RoomFound(t)
  PROVE  AckInv'
<1> USE DEF AckInv
<1>0. /\ pc \in [Threads -> CallerPCs] /\ req \in [Threads -> RequestSpace]
      /\ group \in [Threads -> Group] /\ lastSequence \in Nat
  BY DataTypes
<1>1. /\ pc[t] = "room" /\ UNCHANGED <<req, opn, writers, done, status, synced, acked>>
      /\ \A u \in Threads \ {t} : pc'[u] = pc[u] /\ group'[u] = group[u]
      /\ pc'[t] # "queued"
  <2>1. pc[t] = "room" /\ UNCHANGED <<req, opn, writers, done, status, synced, acked>>
    BY DEF RoomFound, InRoom, dataVars
  <2>2. \E x : x # "queued" /\ pc' = [pc EXCEPT ![t] = x]
    BY DEF RoomFound
  <2>3. \E x : group' = [group EXCEPT ![t] = x]
    BY DEF RoomFound, LoneGroup, FirstOfGroup
  <2>4. QED  BY <1>0, <2>1, <2>2, <2>3
<1>2. /\ group'[t].size = 1 /\ group'[t].sync = req[t].sync
      /\ \/ req[t].kind = "compact"
         \/ group'[t].entries = Updates(t, lastSequence)
  BY <1>0 DEF RoomFound, LoneGroup, FirstOfGroup
<1>3. Has(group'[t].entries, <<t, opn[t]>>, req[t].count)
  <2>1. CASE req[t].kind = "compact"
    <3>1. req[t].count = 0
      BY <2>1 DEF NullBatches
    <3>2. QED  BY <3>1 DEF Has
  <2>2. CASE group'[t].entries = Updates(t, lastSequence)
    BY <2>2, UpdatesHas
  <2>3. QED  BY <1>2, <2>1, <2>2
<1>4. GroupsCarry'
  <2>1. Carries(t)'
    <3>1. writers[1] = t
      BY <1>1, DataTypes DEF IInv, QueueInv, LeaderIsHead, Leading, Holding
    <3>2. 1..group'[t].size = {1}
      BY <1>2
    <3>3. QED  BY <1>1, <1>2, <1>3, <3>1, <3>2 DEF Carries, HasUpdates
  <2>2. \A u \in Threads \ {t} : Carries(u) => Carries(u)'
    BY <1>1 DEF Carries, HasUpdates
  <2>3. QED  BY <1>1, <2>1, <2>2 DEF GroupsCarry
<1>5. NullBatches' /\ ToldSynced' /\ AckedSynced'
  BY <1>1 DEF NullBatches, ToldSynced, HasUpdates, AckedSynced
<1>6. QED  BY <1>4, <1>5

\* A writer that joins brings its updates, and asks for no sync that the
\* leader does not ask for.
LEMMA GroupJoinAcks ==
  ASSUME IInv, DataInv, AckInv, NEW t \in Threads, GroupJoin(t)
  PROVE  AckInv'
<1> USE DEF AckInv
<1>0. /\ pc \in [Threads -> CallerPCs] /\ group \in [Threads -> Group]
      /\ writers \in Seq(Threads) /\ group[t] \in Group
  BY DataTypes
<1>1. /\ pc[t] = "group"
      /\ UNCHANGED <<pc, req, opn, writers, done, status, synced, acked>>
      /\ \A u \in Threads \ {t} : group'[u] = group[u]
  BY <1>0 DEF GroupJoin, callerVars, dataVars
<1> DEFINE n == group[t].size + 1
           u == writers[n]
<1>2. group'[t] = Joined(t, u) /\ (req[u].sync => req[t].sync)
  BY <1>0 DEF GroupJoin, CanJoin
<1> HIDE DEF u
<1>3. /\ group'[t].entries = group[t].entries \cup Updates(u, group[t].end)
      /\ group'[t].size = n /\ group'[t].sync = group[t].sync
  BY <1>2 DEF Joined
<1>4. Carries(t)
  <2>1. group[t].ok
    BY <1>1 DEF DataInv, GroupsProgress, Progress
  <2>2. QED  BY <1>1, <2>1 DEF GroupsCarry, Grouped
<1>5. Carries(t)'
  <2> SUFFICES ASSUME NEW k \in 1..n
               PROVE  /\ Has(group'[t].entries, <<writers[k], opn[writers[k]]>>, req[writers[k]].count)
                      /\ req[writers[k]].sync => group[t].sync
    BY <1>1, <1>3 DEF Carries, HasUpdates
  <2>1. CASE k = n
    <3>1. Has(Updates(u, group[t].end), <<u, opn[u]>>, req[u].count)
      BY UpdatesHas
    <3>2. writers[1] = t /\ 1 \in 1..group[t].size
      BY <1>0, <1>1 DEF IInv, QueueInv, LeaderIsHead, Leading, Holding, GroupFits, Grouped
    <3>3. req[t].sync => group[t].sync
      BY <1>4, <3>2 DEF Carries
    <3>4. Has(group'[t].entries, <<u, opn[u]>>, req[u].count)
      BY <1>3, <3>1, HasMore
    <3>5. QED  BY <1>2, <2>1, <3>3, <3>4 DEF u
  <2>2. CASE k # n
    <3>1. k \in 1..group[t].size
      BY <1>0, <2>2 DEF Group
    <3>2. Has(group[t].entries, <<writers[k], opn[writers[k]]>>, req[writers[k]].count)
          /\ (req[writers[k]].sync => group[t].sync)
      BY <1>4, <3>1 DEF Carries, HasUpdates
    <3>3. QED  BY <1>3, <3>2, HasMore
  <2>3. QED  BY <2>1, <2>2
<1>6. GroupsCarry'
  <2>1. \A v \in Threads \ {t} : Carries(v) => Carries(v)'
    BY <1>1 DEF Carries, HasUpdates
  <2>2. QED  BY <1>1, <1>5, <2>1 DEF GroupsCarry
<1>7. NullBatches' /\ ToldSynced' /\ AckedSynced'
  BY <1>1 DEF NullBatches, ToldSynced, HasUpdates, AckedSynced
<1>8. QED  BY <1>6, <1>7

LEMMA AckStep == IInv /\ DataInv /\ AckInv /\ [Next]_vars => AckInv'
<1> SUFFICES ASSUME IInv, DataInv, AckInv, [Next]_vars PROVE AckInv'
  OBVIOUS
<1>0. pc \in [Threads -> CallerPCs] /\ group \in [Threads -> Group]
  BY DataTypes
<1>1. CASE UNCHANGED vars
  BY <1>1, AckKept DEF vars, callerVars, queueVars, dataVars
<1>2. CASE BackgroundThread
  BY <1>2, AckKept, BackgroundFrame DEF Untouched, callerVars, queueVars
<1>3. ASSUME NEW t \in Threads, Caller(t) PROVE AckInv'
  <2>1. CASE LogRecord(t) \/ SyncLog(t)
    <3>1. UNCHANGED <<req, opn, writers, done, status, acked>> /\ synced \subseteq synced'
          /\ pc[t] \in {"log", "sync"}
      BY <2>1 DEF LogRecord, SyncLog, UnlockedStep
    <3>2. \E x : x # "queued" /\ pc' = [pc EXCEPT ![t] = x]
      BY <2>1 DEF LogRecord, SyncLog, UnlockedStep, Skipped
    <3>3. \/ group' = group
          \/ group' = [group EXCEPT ![t] = [group[t] EXCEPT !.ok = FALSE]]
          \/ group' = [group EXCEPT ![t] = [[group[t] EXCEPT !.ok = FALSE] EXCEPT !.synced = FALSE]]
      BY <2>1 DEF LogRecord, SyncLog
    <3>4. group'[t] = group[t] \/ ~group'[t].ok
      BY <1>0, <3>3 DEF Group
    <3>5. \A u \in Threads \ {t} : pc'[u] = pc[u] /\ group'[u] = group[u]
      BY <1>0, <3>2, <3>3
    <3>6. pc'[t] # "queued" /\ pc[t] \in Grouped
      BY <1>0, <3>1, <3>2 DEF Grouped, Unlocked
    <3>7. \A u \in Threads : pc'[u] \in Grouped /\ group'[u].ok =>
            pc[u] \in Grouped /\ group'[u] = group[u]
      BY <3>4, <3>5, <3>6
    <3>8. QED  BY <3>1, <3>5, <3>6, <3>7, AckKept
  <2>2. CASE RoomError(t) \/ RoomSwitchFails(t)
    <3>1. UNCHANGED <<req, opn, writers, done, status, synced, acked>>
      BY <2>2 DEF RoomError, RoomSwitchFails, dataVars
    <3>2. pc' = [pc EXCEPT ![t] = "finish"]
      BY <2>2 DEF RoomError, RoomSwitchFails
    <3>3. ~group'[t].ok /\ \A u \in Threads \ {t} : group'[u] = group[u]
      BY <1>0, <2>2 DEF RoomError, RoomSwitchFails, LoneGroup, FirstOfGroup
    <3>4. QED  BY <1>0, <3>1, <3>2, <3>3, AckKept
  <2>3. CASE \/ RoomSlowdown(t) \/ RoomWait(t) \/ RoomSwitch(t) \/ WakeRoom(t)
             \/ GroupBuilt(t) \/ InsertEntry(t) \/ Commit(t)
             \/ GetEnd(t) \/ FlushWait(t) \/ ManualCompact(t) \/ Close(t)
    <3>1. UNCHANGED <<req, opn, writers, done, status, group, synced, acked>>
      BY <2>3 DEF RoomSlowdown, RoomWait, RoomSwitch, WakeRoom, GroupBuilt, InsertEntry,
         Commit, GetEnd, FlushWait, ManualCompact, Close, queueVars, callerVars, dataVars
    <3>2. pc' = pc \/ \E x : /\ x # "queued" /\ (x \in Grouped => pc[t] \in Grouped)
                             /\ pc' = [pc EXCEPT ![t] = x]
      BY <2>3 DEF RoomSlowdown, RoomWait, RoomSwitch, WakeRoom, GroupBuilt, InsertEntry,
         Commit, GetEnd, FlushWait, ManualCompact, Close, UnlockedStep, callerVars,
         Grouped, Unlocked
    <3>3. QED  BY <1>0, <3>1, <3>2, AckKept
  <2>4. QED
    BY <1>3, <2>1, <2>2, <2>3, BeginAcks, FinishAcks, WakeQueuedAcks, RoomFoundAcks,
       GroupJoinAcks DEF Caller, Writer
<1>4. QED  BY <1>1, <1>2, <1>3 DEF Next

LEMMA AckInvariant == Spec => []AckInv
<1>1. Init => AckInv
  BY DEF Init, InitState, AckInv, NullBatches, GroupsCarry, Grouped, Unlocked, ToldSynced,
     AckedSynced, Request0
<1>2. QED  BY <1>1, Invariant, DataInvariant, AckStep, PTL DEF Spec

\* A sync Write that returns OK, as a leader or from a group another thread
\* wrote for it, has all its updates in a log file that was fsynced.
THEOREM SyncHolds == Spec => []AckedSynced
<1>1. AckInv => AckedSynced
  BY DEF AckInv
<1>2. QED  BY <1>1, AckInvariant, PTL

(***************************************************************************)
(* DBImpl implements AtomicStore.  A group takes effect at its leader's    *)
(* Commit, when LastSequence() moves over it; the proof needs to know that a*)
(* group's numbers are shared out among its batches, that nothing of an    *)
(* operation is visible before its group commits, and that what a thread is*)
(* told on its return is whether its group took effect.                    *)
(***************************************************************************)

(***************************************************************************)
(* Runs of sequence numbers.                                               *)
(***************************************************************************)
RunOf(base, n) == (base + 1)..(base + n)
RunEntries(base, n, op) == {[seq |-> s, op |-> op, i |-> s - base] : s \in RunOf(base, n)}

\* S shares out the numbers after lo up to hi: u gets the n[u] after base[u].
Shares(S, base, n, lo, hi) ==
  /\ \A u, v \in S : u # v => RunOf(base[u], n[u]) \cap RunOf(base[v], n[v]) = {}
  /\ UNION {RunOf(base[u], n[u]) : u \in S} = (lo + 1)..hi

\* Updates numbers a batch with the run after its base.
LEMMA UpdatesRun ==
  ASSUME NEW u, NEW base \in Nat, req[u].count \in Nat
  PROVE  Updates(u, base) = RunEntries(base, req[u].count, <<u, opn[u]>>)
<1> DEFINE n == req[u].count
           entry(s, i) == [seq |-> s, op |-> <<u, opn[u]>>, i |-> i]
<1>1. ASSUME NEW j \in 1..n
      PROVE  base + j \in RunOf(base, n) /\ (base + j) - base = j
  BY <1>1 DEF RunOf
<1>2. ASSUME NEW s \in RunOf(base, n)
      PROVE  s - base \in 1..n /\ base + (s - base) = s
  BY <1>2 DEF RunOf
<1>3. ASSUME NEW e \in Updates(u, base) PROVE e \in RunEntries(base, n, <<u, opn[u]>>)
  <2>1. PICK j \in 1..n : e = entry(base + j, j)
    BY <1>3 DEF Updates
  <2>2. e = entry(base + j, (base + j) - base)
    BY <1>1, <2>1
  <2>3. QED  BY <1>1, <2>2 DEF RunEntries
<1>4. ASSUME NEW e \in RunEntries(base, n, <<u, opn[u]>>) PROVE e \in Updates(u, base)
  <2>1. PICK s \in RunOf(base, n) : e = entry(s, s - base)
    BY <1>4 DEF RunEntries
  <2>2. e = entry(base + (s - base), s - base)
    BY <1>2, <2>1
  <2>3. QED  BY <1>2, <2>2 DEF Updates
<1>5. QED  BY <1>3, <1>4

\* One more run after the last number: the share-out stays one.
LEMMA SharesGrow ==
  ASSUME NEW S, NEW u, u \notin S, NEW lo \in Nat, NEW hi \in Nat, lo <= hi,
         NEW n, n[u] \in Nat, NEW base, Shares(S, base, n, lo, hi),
         NEW more, more[u] = hi, \A v \in S : more[v] = base[v]
  PROVE  Shares(S \cup {u}, more, n, lo, hi + n[u])
<1> DEFINE run(v) == RunOf(more[v], n[v])
<1>1. \A v \in S : run(v) = RunOf(base[v], n[v])
  OBVIOUS
<1>2. {run(v) : v \in S} = {RunOf(base[v], n[v]) : v \in S}
  BY <1>1
<1>3. UNION {run(v) : v \in S} = (lo + 1)..hi
  BY <1>2 DEF Shares
<1>4. run(u) = (hi + 1)..(hi + n[u])
  BY DEF RunOf
<1>5. \A v, w \in S : v # w => run(v) \cap run(w) = {}
  BY <1>1 DEF Shares
<1> HIDE DEF run
<1>6. \A v \in S : run(v) \cap run(u) = {}
  <2>1. \A v \in S : run(v) \subseteq (lo + 1)..hi
    BY <1>3
  <2>2. QED  BY <1>4, <2>1
<1>7. UNION {run(v) : v \in S \cup {u}} = (lo + 1)..(hi + n[u])
  <2>1. UNION {run(v) : v \in S \cup {u}} = (UNION {run(v) : v \in S}) \cup run(u)
    OBVIOUS
  <2>2. (lo + 1)..hi \cup (hi + 1)..(hi + n[u]) = (lo + 1)..(hi + n[u])
    OBVIOUS
  <2>3. QED  BY <1>3, <1>4, <2>1, <2>2
<1>8. \A v, w \in S \cup {u} : v # w => run(v) \cap run(w) = {}
  BY <1>5, <1>6
<1>9. QED  BY <1>7, <1>8 DEF Shares, run

\* The share-out depends on the counts of its members only.
LEMMA SharesSame ==
  ASSUME NEW S, NEW base, NEW n, NEW m, NEW lo, NEW hi,
         \A u \in S : n[u] = m[u], Shares(S, base, n, lo, hi)
  PROVE  Shares(S, base, m, lo, hi)
<1>1. \A u \in S : RunOf(base[u], m[u]) = RunOf(base[u], n[u])
  OBVIOUS
<1>2. {RunOf(base[u], m[u]) : u \in S} = {RunOf(base[u], n[u]) : u \in S}
  BY <1>1
<1>3. \A u, v \in S : u # v => RunOf(base[u], m[u]) \cap RunOf(base[v], m[v]) = {}
  BY <1>1 DEF Shares
<1>4. QED  BY <1>2, <1>3 DEF Shares

(***************************************************************************)
(* The batches of a group, and how they share its numbers.                 *)
(***************************************************************************)
OpOf(u) == <<u, opn[u]>>
Counts == [u \in Threads |-> req[u].count]
Batches(t) ==
  {u \in Threads : req[u].kind = "write" /\ \E k \in 1..group[t].size : writers[k] = u}

GroupShares(t) ==
  \E base \in [Batches(t) -> lastSequence..group[t].end] :
    /\ Shares(Batches(t), base, Counts, lastSequence, group[t].end)
    /\ group[t].entries =
         UNION {RunEntries(base[u], req[u].count, OpOf(u)) : u \in Batches(t)}
GroupsShare == \A t \in Threads : pc[t] \in Building => GroupShares(t)

\* A Write carries a batch or is CompactRange's null batch, which never leads
\* a group.
Kinds ==
  \A t \in Threads :
    /\ pc[t] \in Leading \cup {"queued"} => req[t].kind \in {"write", "compact"}
    /\ pc[t] \in Building => req[t].kind = "write"

\* Nothing stored is of an operation that is still to come.
OldOps == \A e \in Stored : e.op[2] <= opn[e.op[1]]

ShareInv == Kinds /\ GroupsShare /\ OldOps

LEMMA SharesKept ==
  ASSUME NEW u \in Threads, GroupShares(u), Batches(u)' = Batches(u),
         lastSequence' = lastSequence,
         group'[u].entries = group[u].entries, group'[u].end = group[u].end,
         \A v \in Batches(u) : req'[v] = req[v] /\ opn'[v] = opn[v]
  PROVE  GroupShares(u)'
<1>1. PICK base \in [Batches(u) -> lastSequence..group[u].end] :
        /\ Shares(Batches(u), base, Counts, lastSequence, group[u].end)
        /\ group[u].entries =
             UNION {RunEntries(base[v], req[v].count, OpOf(v)) : v \in Batches(u)}
  BY DEF GroupShares
<1>2. \A v \in Batches(u) : v \in Threads /\ Counts'[v] = Counts[v] /\ OpOf(v)' = OpOf(v)
                            /\ req'[v].count = req[v].count
  BY DEF Batches, Counts, OpOf
<1>3. Shares(Batches(u), base, Counts', lastSequence, group[u].end)
  BY <1>1, <1>2, SharesSame
<1>4. group[u].entries =
        UNION {RunEntries(base[v], req'[v].count, OpOf(v)') : v \in Batches(u)}
  BY <1>1, <1>2
<1>5. /\ base \in [Batches(u)' -> lastSequence'..group'[u].end]
      /\ Shares(Batches(u)', base, Counts', lastSequence', group'[u].end)
      /\ group'[u].entries =
           UNION {RunEntries(base[v], req'[v].count, OpOf(v)') : v \in Batches(u)'}
  BY <1>3, <1>4
<1>6. QED  BY <1>5 DEF GroupShares

\* An update of a group is one of a member's current operation.
LEMMA EntryOp ==
  ASSUME NEW t \in Threads, GroupShares(t), NEW e \in group[t].entries
  PROVE  \E u \in Batches(t) : e.op = OpOf(u)
<1>1. PICK base : group[t].entries =
         UNION {RunEntries(base[u], req[u].count, OpOf(u)) : u \in Batches(t)}
  BY DEF GroupShares
<1>2. PICK u \in Batches(t) : e \in RunEntries(base[u], req[u].count, OpOf(u))
  BY <1>1
<1>3. QED  BY <1>2 DEF RunEntries

LEMMA KindsStep == IInv /\ Kinds /\ [Next]_vars => Kinds'
<1> SUFFICES ASSUME IInv, Kinds, [Next]_vars PROVE Kinds'
  OBVIOUS
<1>0. /\ pc \in [Threads -> CallerPCs] /\ req \in [Threads -> RequestSpace]
  BY DataTypes
<1>1. ASSUME UNCHANGED req,
             \A u \in Threads : pc'[u] \in Leading \cup {"queued"} => pc[u] \in Leading \cup {"queued"},
             \A u \in Threads : pc'[u] \in Building => req[u].kind = "write"
      PROVE  Kinds'
  BY <1>1 DEF Kinds
<1>2. CASE UNCHANGED vars \/ BackgroundThread
  <2>1. UNCHANGED <<pc, req>>
    BY <1>2, BackgroundFrame DEF vars, callerVars, Untouched
  <2>2. QED  BY <2>1 DEF Kinds
<1>3. ASSUME NEW t \in Threads, Enqueue(t) PROVE Kinds'
  <2>1. \A u \in Threads \ {t} : pc'[u] = pc[u] /\ req'[u] = req[u]
    BY <1>3, BeginFrame
  <2>2. req'[t].kind \in {"write", "compact"} /\ pc'[t] \notin Building
    BY <1>0, <1>3 DEF Enqueue, EnterRoom, Building, Unlocked
  <2>3. QED  BY <2>1, <2>2 DEF Kinds
<1>4. ASSUME NEW t \in Threads, GetBegin(t) PROVE Kinds'
  <2>1. \A u \in Threads \ {t} : pc'[u] = pc[u] /\ req'[u] = req[u]
    BY <1>4, BeginFrame
  <2>2. pc'[t] = "get"
    BY <1>0, <1>4 DEF GetBegin
  <2>3. QED  BY <2>1, <2>2 DEF Kinds, Building, Leading, Holding, Unlocked
<1>5. ASSUME NEW t \in Threads, Caller(t), ~Enqueue(t), ~GetBegin(t) PROVE Kinds'
  <2>1. UNCHANGED req
    BY <1>5 DEF Caller, Writer, callerVars, WakeQueued, RoomError, RoomSlowdown, RoomFound,
       RoomWait, RoomSwitch, RoomSwitchFails, WakeRoom, GroupJoin, GroupBuilt, LogRecord,
       SyncLog, InsertEntry, Commit, Finish, GetEnd, FlushWait, ManualCompact, Close
  <2>2. CASE pc' = pc
    BY <2>1, <2>2 DEF Kinds
  <2>3. CASE pc' # pc /\ pc[t] \in Leading \cup {"queued"}
    <3>1. \E x : pc' = [pc EXCEPT ![t] = x] /\ (x \in Building => pc[t] \in Building \/ RoomFound(t))
      <4>1. CASE WakeQueued(t) \/ Finish(t) \/ RoomError(t) \/ RoomSlowdown(t) \/ RoomWait(t)
                 \/ RoomSwitchFails(t) \/ WakeRoom(t)
        <5>1. Quiet(t)
          BY <4>1 DEF Quiet
        <5>2. pc' = pc \/ \E x : pc' = [pc EXCEPT ![t] = x]
          BY <4>1, Zenon DEF WakeQueued, EnterRoom, Return, RoomError, RoomSlowdown,
             RoomWait, RoomSwitchFails, WakeRoom, Finish
        <5>3. QED  BY <1>0, <2>3, <5>1, <5>2, QuietFrame
      <4>2. CASE RoomFound(t)
        BY <4>2 DEF RoomFound
      <4>3. CASE GroupBuilt(t) \/ LogRecord(t) \/ SyncLog(t) \/ InsertEntry(t) \/ Commit(t)
        <5>1. pc[t] \in Building
          BY <4>3, WorkFrame
        <5>2. pc' = pc \/ \E x : pc' = [pc EXCEPT ![t] = x]
          BY <4>3, Zenon DEF GroupBuilt, LogRecord, SyncLog, InsertEntry, Commit, UnlockedStep
        <5>3. QED  BY <2>3, <5>1, <5>2
      <4>4. QED
        BY <1>5, <2>2, <2>3, <4>1, <4>2, <4>3 DEF Caller, Writer, RoomSwitch, GroupJoin, callerVars,
           GetEnd, FlushWait, ManualCompact, Close, Leading, Holding, Unlocked
    <3>2. RoomFound(t) => pc'[t] = "finish" \/ req[t].kind # "compact"
      BY <1>0 DEF RoomFound
    <3>3. req[t].kind \in {"write", "compact"}
      BY <2>3 DEF Kinds
    <3>4. "finish" \notin Building
      BY DEF Building, Unlocked
    <3>5. QED  BY <1>0, <1>1, <2>1, <2>3, <3>1, <3>2, <3>3, <3>4 DEF Kinds
  <2>4. CASE pc[t] \notin Leading \cup {"queued"}
    <3>1. \/ GetEnd(t) \/ FlushWait(t) \/ ManualCompact(t) \/ Close(t)
      BY <1>5, <2>4 DEF Caller, Writer, WakeQueued, RoomError, RoomSlowdown, RoomFound,
         RoomWait, RoomSwitch, RoomSwitchFails, WakeRoom, GroupJoin, GroupBuilt, LogRecord,
         SyncLog, InsertEntry, Commit, Finish, InRoom, UnlockedStep, Leading, Holding, Unlocked
    <3>2. \E x : x \notin Leading \cup {"queued"} \cup Building /\ pc' = [pc EXCEPT ![t] = x]
      BY <3>1 DEF GetEnd, FlushWait, ManualCompact, Close, Leading, Holding, Unlocked, Building
    <3>3. QED  BY <1>0, <1>1, <2>1, <3>2 DEF Kinds
  <2>5. QED  BY <2>2, <2>3, <2>4
<1>6. QED  BY <1>2, <1>3, <1>4, <1>5 DEF Next
(***************************************************************************)
(* Every step keeps the shares of the groups.                              *)
(***************************************************************************)
LEMMA BatchesKept ==
  ASSUME NEW u \in Threads, group'[u].size = group[u].size,
         \A k \in 1..group[u].size : /\ writers'[k] = writers[k] /\ writers[k] \in Threads
                                     /\ req'[writers[k]] = req[writers[k]]
  PROVE  Batches(u)' = Batches(u)
BY DEF Batches

\* Who is in a group is waiting in the queue.
LEMMA InGroup ==
  ASSUME IInv, NEW u \in Threads, pc[u] \in Grouped, NEW k \in 1..group[u].size
  PROVE  k \in 1..Len(writers) /\ writers[k] \in Threads
<1>1. writers \in Seq(Threads) /\ group[u].size \in 1..Len(writers)
  BY DataTypes DEF IInv, QueueInv, GroupFits
<1>2. k \in 1..Len(writers)
  BY <1>1
<1>3. QED  BY <1>1, <1>2, ElementOfSeq

LEMMA ShareKept ==
  ASSUME IInv, GroupsShare, UNCHANGED <<writers, req, opn, lastSequence>>,
         \A u \in Threads : pc'[u] \in Building =>
           /\ pc[u] \in Building /\ group'[u].size = group[u].size
           /\ group'[u].entries = group[u].entries /\ group'[u].end = group[u].end
  PROVE  GroupsShare'
<1> SUFFICES ASSUME NEW u \in Threads, pc'[u] \in Building PROVE GroupShares(u)'
  BY DEF GroupsShare
<1>1. /\ pc[u] \in Grouped /\ GroupShares(u) /\ group'[u].size = group[u].size
      /\ group'[u].entries = group[u].entries /\ group'[u].end = group[u].end
  BY DEF GroupsShare, Building, Grouped
<1>2. Batches(u)' = Batches(u)
  BY <1>1, InGroup, BatchesKept
<1>3. QED  BY <1>1, <1>2, SharesKept

LEMMA BeginShares ==
  ASSUME IInv, GroupsShare, NEW t \in Threads, Enqueue(t) \/ GetBegin(t)
  PROVE  GroupsShare'
<1> SUFFICES ASSUME NEW u \in Threads, pc'[u] \in Building PROVE GroupShares(u)'
  BY DEF GroupsShare
<1>1. /\ UNCHANGED group
      /\ \A v \in Threads \ {t} : pc'[v] = pc[v] /\ req'[v] = req[v] /\ opn'[v] = opn[v]
      /\ \A k \in 1..Len(writers) : writers'[k] = writers[k] /\ writers[k] \in Threads \ {t}
      /\ pc'[t] \notin Grouped
  BY BeginFrame
<1>2. u # t /\ pc[u] \in Grouped /\ GroupShares(u)
  BY <1>1 DEF GroupsShare, Building, Grouped
<1>3. \A k \in 1..group[u].size : k \in 1..Len(writers)
  BY <1>2, InGroup
<1>4. Batches(u)' = Batches(u)
  BY <1>1, <1>3, BatchesKept
<1>5. \A v \in Batches(u) : v # t
  BY <1>1, <1>3 DEF Batches
<1>6. lastSequence' = lastSequence
  BY DEF Enqueue, GetBegin, dataVars
<1>7. \A v \in Batches(u) : req'[v] = req[v] /\ opn'[v] = opn[v]
  BY <1>1, <1>5 DEF Batches
<1>8. QED  BY <1>1, <1>2, <1>4, <1>6, <1>7, SharesKept

\* The leader starts with its own batch and its own run of numbers.
LEMMA RoomFoundShares ==
  ASSUME IInv, Kinds, GroupsShare, NEW t \in Threads, RoomFound(t)
  PROVE  GroupsShare'
<1>0. /\ pc \in [Threads -> CallerPCs] /\ req \in [Threads -> RequestSpace]
      /\ group \in [Threads -> Group] /\ lastSequence \in Nat /\ req[t].count \in Nat
  BY DataTypes DEF RequestSpace
<1>1. /\ pc[t] = "room" /\ UNCHANGED <<req, opn, writers, lastSequence>>
      /\ req[t].kind \in {"write", "compact"}
  BY DEF RoomFound, InRoom, dataVars, Kinds, Leading, Holding
<1>2. \A u \in Threads \ {t} : pc[u] \notin Leading /\ pc'[u] = pc[u]
  <2>1. \E x : pc' = [pc EXCEPT ![t] = x]
    BY DEF RoomFound
  <2>2. QED  BY <1>0, <1>1, <2>1, OthersOutside DEF Leading, Holding
<1>3. CASE req[t].kind = "compact"
  <2>1. pc'[t] = "finish"
    BY <1>0, <1>3 DEF RoomFound
  <2>2. QED  BY <1>2, <2>1 DEF GroupsShare, Building, Leading, Holding, Unlocked
<1>4. CASE req[t].kind = "write"
  <2> DEFINE base == [u \in {t} |-> lastSequence]
             end == lastSequence + req[t].count
  <2>1. /\ group'[t].size = 1 /\ group'[t].end = end
        /\ group'[t].entries = Updates(t, lastSequence)
    BY <1>0, <1>4 DEF RoomFound, FirstOfGroup
  <2>2. writers[1] = t
    BY <1>1, DataTypes DEF IInv, QueueInv, LeaderIsHead, Leading, Holding
  <2>3. Batches(t)' = {t}
    <3>1. 1..group'[t].size = {1}
      BY <2>1
    <3>2. QED  BY <1>1, <1>4, <2>2, <3>1 DEF Batches
  <2>4. base \in [Batches(t)' -> lastSequence'..group'[t].end]
    <3>1. lastSequence \in lastSequence..end
      BY <1>0
    <3>2. QED  BY <1>1, <2>1, <2>3, <3>1
  <2>5. Shares(Batches(t)', base, Counts', lastSequence', group'[t].end)
    <3>1. Counts'[t] = req[t].count /\ base[t] = lastSequence
      BY <1>1 DEF Counts
    <3>2. RunOf(base[t], Counts'[t]) = (lastSequence + 1)..end
      BY <3>1 DEF RunOf
    <3>3. UNION {RunOf(base[u], Counts'[u]) : u \in {t}} = (lastSequence + 1)..end
      BY <3>2
    <3>4. QED  BY <1>1, <2>1, <2>3, <3>3 DEF Shares
  <2>6. group'[t].entries =
          UNION {RunEntries(base[u], req'[u].count, OpOf(u)') : u \in Batches(t)'}
    <3>1. OpOf(t)' = <<t, opn[t]>>
      BY <1>1 DEF OpOf
    <3>2. group'[t].entries = RunEntries(base[t], req'[t].count, OpOf(t)')
      BY <1>0, <1>1, <2>1, <3>1, UpdatesRun
    <3>3. QED  BY <2>3, <3>2
  <2>7. GroupShares(t)'
    BY <2>4, <2>5, <2>6 DEF GroupShares
  <2>8. QED  BY <1>2, <2>7 DEF GroupsShare, Building, Leading, Holding
<1>5. QED  BY <1>1, <1>3, <1>4

\* The writer that joins gets the next run, or brings no updates.
LEMMA GroupJoinShares ==
  ASSUME IInv, DataInv, NullBatches, GroupsShare, NEW t \in Threads, GroupJoin(t)
  PROVE  GroupsShare'
<1>0. /\ pc \in [Threads -> CallerPCs] /\ req \in [Threads -> RequestSpace]
      /\ group \in [Threads -> Group] /\ lastSequence \in Nat
      /\ writers \in Seq(Threads) /\ group[t] \in Group
  BY DataTypes
<1>1. pc[t] = "group" /\ UNCHANGED <<pc, req, opn, writers, lastSequence>>
  BY DEF GroupJoin, dataVars, callerVars
<1>2. \A v \in Threads \ {t} : pc[v] \notin Leading /\ pc'[v] = pc[v]
  BY WorkFrame
<1> DEFINE n == group[t].size + 1
           u == writers[n]
           count == req[u].count
           end == group[t].end
<1>3. n \in 1..Len(writers) /\ group[t].size \in Nat /\ end \in Nat /\ lastSequence <= end
  <2>1. Numbered(t)
    BY <1>1 DEF DataInv, GroupsNumbered, Building
  <2>2. QED  BY <1>0, <2>1 DEF GroupJoin, Group, Numbered
<1>4. u \in Threads /\ count \in Nat
  <2>1. u \in Threads
    BY <1>0, <1>3, ElementOfSeq
  <2> HIDE DEF u
  <2>2. QED  BY <1>0, <2>1 DEF RequestSpace
<1>5. /\ group'[t].entries = group[t].entries \cup Updates(u, end)
      /\ group'[t].end = end + count /\ group'[t].size = n
  <2>1. group'[t] = Joined(t, u)
    BY <1>0 DEF GroupJoin
  <2>2. QED  BY <2>1 DEF Joined
<1>6. \A k \in 1..group[t].size : writers[k] # u
  BY <1>0, <1>3 DEF IInv, QueueInv, QueueMembers
<1> HIDE DEF u
<1>7. u \notin Batches(t)
  BY <1>6 DEF Batches
<1>8. Batches(t)' = Batches(t) \cup (IF req[u].kind = "write" THEN {u} ELSE {})
  <2>1. 1..n = 1..group[t].size \cup {n} /\ writers[n] = u
    BY <1>3 DEF u
  <2>2. \A v \in Threads : (\E k \in 1..n : writers[k] = v)
                             <=> (\E k \in 1..group[t].size : writers[k] = v) \/ v = u
    BY <2>1
  <2>3. QED  BY <1>1, <1>4, <1>5, <2>2 DEF Batches
<1>9. PICK base \in [Batches(t) -> lastSequence..end] :
        /\ Shares(Batches(t), base, Counts, lastSequence, end)
        /\ group[t].entries =
             UNION {RunEntries(base[v], req[v].count, OpOf(v)) : v \in Batches(t)}
  BY <1>1 DEF GroupsShare, GroupShares, Building
<1>10. Counts' = Counts /\ \A v : OpOf(v)' = OpOf(v)
  BY <1>1 DEF Counts, OpOf
<1>11. CASE req[u].kind = "write"
  <2> DEFINE S == Batches(t) \cup {u}
             more == [v \in S |-> IF v = u THEN end ELSE base[v]]
  <2>1. Counts[u] = count
    BY <1>4 DEF Counts
  <2>2. more \in [S -> lastSequence..(end + count)]
        /\ Shares(S, more, Counts, lastSequence, end + count)
    <3>1. more[u] = end /\ \A v \in Batches(t) : more[v] = base[v]
      BY <1>7
    <3>2. more \in [S -> lastSequence..(end + count)]
      <4>1. end \in lastSequence..(end + count)
            /\ \A v \in Batches(t) : base[v] \in lastSequence..(end + count)
        BY <1>0, <1>3, <1>4
      <4>2. QED  BY <4>1
    <3> HIDE DEF more, end, count
    <3>3. Shares(Batches(t) \cup {u}, more, Counts, lastSequence, end + Counts[u])
      <4>1. lastSequence \in Nat /\ end \in Nat /\ lastSequence <= end /\ Counts[u] \in Nat
        BY <1>0, <1>3, <1>4, <2>1
      <4>2. Shares(Batches(t), base, Counts, lastSequence, end)
        BY <1>9
      <4>3. QED  BY <1>7, <3>1, <4>1, <4>2, SharesGrow
    <3>4. QED  BY <2>1, <3>2, <3>3
  <2>3. UNION {RunEntries(more[v], req[v].count, OpOf(v)) : v \in S}
          = group[t].entries \cup Updates(u, end)
    <3>1. more[u] = end /\ \A v \in Batches(t) : more[v] = base[v]
      BY <1>7
    <3> HIDE DEF more
    <3>2. UNION {RunEntries(more[v], req[v].count, OpOf(v)) : v \in S}
            = (UNION {RunEntries(more[v], req[v].count, OpOf(v)) : v \in Batches(t)})
              \cup RunEntries(more[u], req[u].count, OpOf(u))
      OBVIOUS
    <3>3. UNION {RunEntries(more[v], req[v].count, OpOf(v)) : v \in Batches(t)}
            = group[t].entries
      BY <1>9, <3>1
    <3>4. RunEntries(more[u], req[u].count, OpOf(u)) = Updates(u, end)
      BY <1>3, <1>4, <3>1, UpdatesRun DEF OpOf
    <3>5. QED  BY <3>2, <3>3, <3>4
  <2> HIDE DEF more
  <2>4. Batches(t)' = S
    BY <1>8, <1>11
  <2>5. /\ more \in [Batches(t)' -> lastSequence'..group'[t].end]
        /\ Shares(Batches(t)', more, Counts', lastSequence', group'[t].end)
        /\ group'[t].entries =
             UNION {RunEntries(more[v], req'[v].count, OpOf(v)') : v \in Batches(t)'}
    BY <1>1, <1>5, <1>10, <2>2, <2>3, <2>4
  <2>6. GroupShares(t)'
    BY <2>5 DEF GroupShares
  <2>7. QED  BY <1>2, <2>6 DEF GroupsShare, Building, Leading, Holding
<1>12. CASE req[u].kind # "write"
  <2>1. count = 0 /\ Batches(t)' = Batches(t)
    BY <1>4, <1>8, <1>12 DEF NullBatches
  <2>2. Updates(u, end) = {}
    BY <2>1 DEF Updates
  <2>3. group'[t].end = end /\ group'[t].entries = group[t].entries
    BY <1>3, <1>5, <2>1, <2>2
  <2>4. GroupShares(t)'
    <3>1. GroupShares(t)
      BY <1>9 DEF GroupShares
    <3>2. QED  BY <1>1, <2>1, <2>3, <3>1, SharesKept
  <2>5. QED  BY <1>2, <2>4 DEF GroupsShare, Building, Leading, Holding
<1>13. QED  BY <1>11, <1>12
\* No step leaves another thread's group at work, or changes what is its.
LEMMA SharesStep ==
  ASSUME IInv, DataInv, NullBatches, Kinds, GroupsShare, [Next]_vars
  PROVE  GroupsShare'
<1>0. pc \in [Threads -> CallerPCs] /\ group \in [Threads -> Group]
  BY DataTypes
<1>1. CASE UNCHANGED vars \/ BackgroundThread
  BY <1>1, ShareKept, BackgroundFrame DEF vars, callerVars, queueVars, dataVars, Untouched
<1>2. ASSUME NEW t \in Threads, Caller(t) PROVE GroupsShare'
  <2>1. CASE Enqueue(t) \/ GetBegin(t)
    BY <2>1, BeginShares
  <2>2. CASE RoomFound(t)
    BY <2>2, RoomFoundShares
  <2>3. CASE GroupJoin(t)
    BY <2>3, GroupJoinShares
  <2>4. CASE Finish(t) \/ Commit(t)
    <3>1. pc[t] \in Leading /\ pc'[t] \notin Building
      <4>1. CASE Finish(t)
        <5>1. Quiet(t) /\ pc[t] = "finish"
          BY <4>1 DEF Quiet, Finish
        <5>2. QED  BY <5>1, QuietFrame DEF Leading, Holding
      <4>2. CASE Commit(t)
        BY <1>0, <4>2 DEF Commit, UnlockedStep, Leading, Unlocked, Building
      <4>3. QED  BY <2>4, <4>1, <4>2
    <3>2. \A u \in Threads \ {t} : pc[u] \notin Leading /\ pc'[u] = pc[u]
      BY <2>4, <3>1, OthersOutside, QuietFrame, WorkFrame DEF Quiet
    <3>3. QED  BY <3>1, <3>2 DEF GroupsShare, Building, Leading, Holding
  <2>5. CASE \/ WakeQueued(t) \/ RoomError(t) \/ RoomSlowdown(t) \/ RoomWait(t)
             \/ RoomSwitchFails(t) \/ WakeRoom(t) \/ GetEnd(t) \/ FlushWait(t)
             \/ ManualCompact(t) \/ Close(t)
    <3>1. UNCHANGED <<writers, req, opn, lastSequence>>
      BY <2>5 DEF WakeQueued, RoomError, RoomSlowdown, RoomWait, RoomSwitchFails, WakeRoom,
         GetEnd, FlushWait, ManualCompact, Close, queueVars, dataVars
    <3>2. Quiet(t)
      BY <2>5 DEF Quiet
    <3>3. QED  BY <3>1, <3>2, QuietFrame, ShareKept
  <2>6. CASE RoomSwitch(t)
    BY <2>6, ShareKept DEF RoomSwitch, callerVars
  <2>7. CASE GroupBuilt(t) \/ LogRecord(t) \/ SyncLog(t) \/ InsertEntry(t)
    <3>1. UNCHANGED <<writers, req, opn, lastSequence>>
      BY <2>7 DEF GroupBuilt, LogRecord, SyncLog, InsertEntry, queueVars, dataVars
    <3>2. pc[t] \in Building /\ \A u \in Threads \ {t} : pc'[u] = pc[u] /\ group'[u] = group[u]
      BY <2>7, WorkFrame
    <3>3. \/ group' = group
          \/ group' = [group EXCEPT ![t] = [group[t] EXCEPT !.ok = FALSE]]
          \/ group' = [group EXCEPT ![t] = [[group[t] EXCEPT !.ok = FALSE] EXCEPT !.synced = FALSE]]
      BY <2>7 DEF GroupBuilt, LogRecord, SyncLog, InsertEntry, queueVars
    <3>4. /\ group'[t].size = group[t].size
          /\ group'[t].entries = group[t].entries /\ group'[t].end = group[t].end
      <4> DEFINE g == group[t]
      <4>1. /\ [g EXCEPT !.ok = FALSE].size = g.size /\ [g EXCEPT !.ok = FALSE].end = g.end
            /\ [g EXCEPT !.ok = FALSE].entries = g.entries
            /\ [[g EXCEPT !.ok = FALSE] EXCEPT !.synced = FALSE].size = g.size
            /\ [[g EXCEPT !.ok = FALSE] EXCEPT !.synced = FALSE].end = g.end
            /\ [[g EXCEPT !.ok = FALSE] EXCEPT !.synced = FALSE].entries = g.entries
        <5>1. g \in Group
          BY <1>0
        <5> HIDE DEF g
        <5>2. QED  BY <5>1 DEF Group
      <4>2. \/ group'[t] = g
            \/ group'[t] = [g EXCEPT !.ok = FALSE]
            \/ group'[t] = [[g EXCEPT !.ok = FALSE] EXCEPT !.synced = FALSE]
        BY <1>0, <3>3
      <4> HIDE DEF g
      <4>3. /\ group'[t].size = g.size
            /\ group'[t].entries = g.entries /\ group'[t].end = g.end
        BY <4>1, <4>2
      <4>4. QED  BY <4>3 DEF g
    <3>5. \A u \in Threads : pc'[u] \in Building =>
            /\ pc[u] \in Building /\ group'[u].size = group[u].size
            /\ group'[u].entries = group[u].entries /\ group'[u].end = group[u].end
      BY <3>2, <3>4
    <3>6. QED  BY <3>1, <3>5, ShareKept
  <2>8. QED
    BY <1>2, <2>1, <2>2, <2>3, <2>4, <2>5, <2>6, <2>7 DEF Caller, Writer
<1>3. QED  BY <1>1, <1>2 DEF Next

\* Operations of a thread are numbered upwards as they begin.
LEMMA OpsGrow ==
  ASSUME IInv, [Next]_vars
  PROVE  \A u \in Threads : opn[u] <= opn'[u]
<1>0. opn \in [Threads -> Nat]
  BY DataTypes
<1>1. CASE UNCHANGED opn
  BY <1>0, <1>1
<1>2. CASE UNCHANGED vars \/ BackgroundThread
  BY <1>1, <1>2, BackgroundFrame DEF vars, Untouched, callerVars
<1>3. ASSUME NEW t \in Threads, Enqueue(t) \/ GetBegin(t)
      PROVE  \A u \in Threads : opn[u] <= opn'[u]
  <2>1. opn' = [opn EXCEPT ![t] = opn[t] + 1]
    BY <1>3 DEF Enqueue, GetBegin
  <2>2. QED  BY <1>0, <2>1
<1>4. ASSUME NEW t \in Threads, Caller(t), ~Enqueue(t), ~GetBegin(t) PROVE UNCHANGED opn
  BY <1>4 DEF Caller, Writer, callerVars, WakeQueued, RoomError, RoomSlowdown, RoomFound,
     RoomWait, RoomSwitch, RoomSwitchFails, WakeRoom, GroupJoin, GroupBuilt, LogRecord,
     SyncLog, InsertEntry, Commit, Finish, GetEnd, FlushWait, ManualCompact, Close
<1>5. QED  BY <1>1, <1>2, <1>3, <1>4 DEF Next

\* What is stored was stored before, or is of the group that is inserted.
LEMMA StoredStep ==
  ASSUME IInv, DataInv, [Next]_vars, NEW e \in Stored'
  PROVE  e \in Stored \/ \E t \in Threads : pc[t] = "insert" /\ e \in group[t].entries
<1>1. CASE e.seq <= lastSequence
  BY <1>1, VisibleKept DEF Visible
<1>2. CASE UNCHANGED Stored
  BY <1>2
<1>3. CASE UNCHANGED vars
  BY <1>2, <1>3 DEF vars, dataVars, Stored
<1>4. CASE BackgroundThread
  BY <1>2, <1>4, BackgroundFrame DEF Untouched, NoData, Stored
<1>5. ASSUME NEW t \in Threads, Caller(t)
      PROVE  e \in Stored \/ \E u \in Threads : pc[u] = "insert" /\ e \in group[u].entries
  <2>1. CASE InsertEntry(t)
    <3>1. pc[t] = "insert" /\ mem' \subseteq mem \cup group[t].entries /\ UNCHANGED <<imm, tables>>
      BY <2>1 DEF InsertEntry, UnlockedStep
    <3>2. QED  BY <3>1 DEF Stored
  <2>2. CASE RoomSwitch(t)
    BY <2>2 DEF RoomSwitch, Stored
  <2>3. CASE Quiet(t)
    BY <2>3, QuietFrame DEF dataVars, Stored
  <2>4. CASE RoomFound(t) \/ GroupJoin(t) \/ GroupBuilt(t) \/ LogRecord(t) \/ SyncLog(t) \/ Commit(t)
    BY <2>4 DEF RoomFound, GroupJoin, GroupBuilt, LogRecord, SyncLog, Commit, dataVars, Stored
  <2>5. QED  BY <1>5, <2>1, <2>2, <2>3, <2>4, CallerSplit
<1>6. QED  BY <1>3, <1>4, <1>5 DEF Next

LEMMA OldOpsStep ==
  ASSUME IInv, DataInv, GroupsShare, OldOps, [Next]_vars
  PROVE  OldOps'
<1> SUFFICES ASSUME NEW e \in Stored' PROVE e.op[2] <= opn'[e.op[1]]
  BY DEF OldOps
<1>0. opn \in [Threads -> Nat] /\ opn' \in [Threads -> Nat]
  <2>1. IInv'
    BY Inductive
  <2>2. QED  BY <2>1, DataTypes DEF IInv, Typed, TypeOK, CallersOK
<1>1. CASE e \in Stored
  <2>1. e.op \in Op
    BY <1>1, DataTypes DEF Stored, Entry
  <2>2. e.op[1] \in Threads /\ e.op[2] \in Nat
    BY <2>1 DEF Op
  <2>3. e.op[2] <= opn[e.op[1]] /\ opn[e.op[1]] <= opn'[e.op[1]]
    BY <1>1, <2>2, OpsGrow DEF OldOps
  <2>4. QED  BY <1>0, <2>2, <2>3
<1>2. ASSUME NEW t \in Threads, pc[t] = "insert", e \in group[t].entries
      PROVE  e.op[2] <= opn'[e.op[1]]
  <2>1. PICK u \in Batches(t) : e.op = OpOf(u)
    BY <1>2, EntryOp DEF GroupsShare, Building, Unlocked
  <2>2. u \in Threads /\ e.op[1] = u /\ e.op[2] = opn[u]
    BY <2>1 DEF OpOf, Batches
  <2>3. QED  BY <2>2, OpsGrow
<1>3. QED  BY <1>1, <1>2, StoredStep

LEMMA ShareInvariant == Spec => []ShareInv
<1>1. Init => ShareInv
  BY DEF Init, InitState, ShareInv, Kinds, GroupsShare, OldOps, Leading, Holding, Building,
     Unlocked, Stored
<1>2. IInv /\ DataInv /\ AckInv /\ ShareInv /\ [Next]_vars => ShareInv'
  BY KindsStep, SharesStep, OldOpsStep DEF ShareInv, AckInv
<1>3. QED  BY <1>1, <1>2, Invariant, DataInvariant, AckInvariant, PTL DEF Spec
(***************************************************************************)
(* What a Write is told is what became of it.                              *)
(***************************************************************************)
Took(u) == \E e \in Visible(lastSequence) : e.op = OpOf(u)
Verdict(u, ok) == IF ok THEN Took(u) \/ req[u].count = 0 ELSE ~Took(u)

\* A member that is done knows; a leader at its end is about to tell; before
\* that nothing of a Write in progress has taken effect.
Answered(u) == pc[u] = "queued" /\ done[u]
Told == \A u \in Threads : Answered(u) /\ req[u].kind = "write" => Verdict(u, status[u])
Ending == \A t \in Threads : pc[t] = "finish" => \A u \in Batches(t) : Verdict(u, group[t].ok)
Undecided(u) ==
  /\ InWrite(u) /\ ~Answered(u)
  /\ \A t \in Threads : pc[t] = "finish" => u \notin Batches(t)
Pending == \A u \in Threads : Undecided(u) => ~Took(u)

ReplyInv == Told /\ Ending /\ Pending

\* What is visible changes only with LastSequence().
LEMMA ContentsKept ==
  ASSUME IInv, DataInv, [Next]_vars, UNCHANGED lastSequence
  PROVE  Visible(lastSequence)' = Visible(lastSequence)
BY VisibleKept DEF Visible

\* Commit shows the whole group, or nothing of one that failed.
LEMMA CommitContents ==
  ASSUME IInv, DataInv, NEW t \in Threads, Commit(t)
  PROVE  /\ lastSequence' = group[t].end
         /\ Visible(lastSequence)' =
              Visible(lastSequence) \cup (IF group[t].ok THEN group[t].entries ELSE {})
<1>0. group[t] \in Group /\ lastSequence \in Nat /\ Stored \subseteq Entry
  BY DataTypes DEF Stored
<1>1. /\ UNCHANGED <<mem, imm, tables>> /\ pc[t] = "commit"
      /\ lastSequence' = group[t].end
  BY DEF Commit, UnlockedStep, CommittedSequence
<1>2. \A u \in Threads \ {t} : pc[u] \notin Leading
  BY WorkFrame
<1>3. Numbered(t) /\ Progress(t)
  BY <1>1 DEF DataInv, GroupsNumbered, GroupsProgress, Building, Unlocked
<1>4. Stored' = Stored
  BY <1>1 DEF Stored
<1>5. /\ lastSequence <= group[t].end /\ group[t].end \in Nat
      /\ \A e \in group[t].entries : ~(e.seq <= lastSequence) /\ e.seq <= group[t].end
      /\ group[t].ok => group[t].entries \subseteq Stored
  BY <1>0, <1>1, <1>3 DEF Numbered, Progress, Group, Entry, Stored
<1>6. \A e \in Stored : e.seq \in Nat
  BY <1>0 DEF Entry
<1>7. \A e \in Stored : ~(e.seq <= lastSequence) => group[t].ok /\ e \in group[t].entries
  BY <1>0, <1>2, <1>6 DEF DataInv, StoredOwned, Leading, Unlocked
<1>8. Visible(lastSequence)' = {e \in Stored : e.seq <= group[t].end}
  BY <1>1, <1>4 DEF Visible
<1>9. ASSUME NEW e \in Stored
      PROVE  e.seq <= group[t].end <=>
               e.seq <= lastSequence \/ (group[t].ok /\ e \in group[t].entries)
  BY <1>0, <1>5, <1>6, <1>7, <1>9
<1>10. CASE group[t].ok
  <2>1. Visible(lastSequence)' = Visible(lastSequence) \cup group[t].entries
    BY <1>5, <1>8, <1>9, <1>10 DEF Visible
  <2>2. QED  BY <1>1, <1>10, <2>1
<1>11. CASE ~group[t].ok
  <2>1. Visible(lastSequence)' = Visible(lastSequence)
    BY <1>8, <1>9, <1>11 DEF Visible
  <2>2. QED  BY <1>1, <1>11, <2>1
<1>12. QED  BY <1>10, <1>11

\* A step that tells nobody anything and commits nothing keeps the verdicts.
LEMMA ReplyKept ==
  ASSUME ReplyInv, UNCHANGED <<req, opn, done, status>>,
         Visible(lastSequence)' = Visible(lastSequence),
         \A u \in Threads : Answered(u)' => Answered(u),
         \A u \in Threads : InWrite(u)' /\ ~Answered(u)' => InWrite(u) /\ ~Answered(u),
         \A t \in Threads : pc[t] = "finish" => pc'[t] = "finish",
         \A t \in Threads : pc'[t] = "finish" =>
           pc[t] = "finish" /\ Batches(t)' = Batches(t) /\ group'[t].ok = group[t].ok
  PROVE  ReplyInv'
<1>1. \A u \in Threads : Took(u)' = Took(u)
  BY DEF Took, OpOf
<1>2. \A u \in Threads : \A ok : Verdict(u, ok)' <=> Verdict(u, ok)
  BY <1>1 DEF Verdict
<1>3. \A u \in Threads : Undecided(u)' => Undecided(u)
  BY DEF Undecided
<1>4. Told'
  BY <1>2 DEF ReplyInv, Told, Verdict
<1>5. Ending'
  <2> SUFFICES ASSUME NEW t \in Threads, pc'[t] = "finish", NEW u \in Batches(t)
               PROVE  Verdict(u, group[t].ok)'
    BY DEF Ending
  <2>1. Verdict(u, group[t].ok) /\ u \in Threads /\ group'[t].ok = group[t].ok
    BY DEF ReplyInv, Ending, Batches
  <2>2. QED  BY <1>1, <2>1, Zenon DEF Verdict
<1>6. Pending'
  BY <1>1, <1>3 DEF ReplyInv, Pending
<1>7. QED  BY <1>4, <1>5, <1>6 DEF ReplyInv
LEMMA NoneEnding ==
  ASSUME IInv, mutex = Null, NEW t \in Threads
  PROVE  pc[t] \notin Holding
BY DataTypes DEF IInv, QueueInv, MutexOwner

\* An operation that begins has nothing stored.
LEMMA BeginReply ==
  ASSUME IInv, DataInv, ShareInv, ReplyInv, [Next]_vars,
         NEW t \in Threads, Enqueue(t) \/ GetBegin(t)
  PROVE  ReplyInv' /\ ~Took(t)'
<1>0. pc \in [Threads -> CallerPCs] /\ opn \in [Threads -> Nat]
  BY DataTypes
<1>1. /\ UNCHANGED <<group, status>>
      /\ \A u \in Threads \ {t} : pc'[u] = pc[u] /\ req'[u] = req[u] /\ opn'[u] = opn[u]
                                  /\ done'[u] = done[u]
      /\ pc'[t] \notin Grouped /\ ~Answered(t)'
  BY BeginFrame DEF Answered
<1>2. opn' = [opn EXCEPT ![t] = opn[t] + 1] /\ mutex = Null
  BY DEF Enqueue, GetBegin
<1>3. Visible(lastSequence)' = Visible(lastSequence)
  <2>1. UNCHANGED lastSequence
    BY DEF Enqueue, GetBegin, dataVars
  <2>2. QED  BY <2>1, ContentsKept
<1>4. ~Took(t)'
  <2> SUFFICES ASSUME NEW e \in Visible(lastSequence), e.op = OpOf(t)' PROVE FALSE
    BY <1>3 DEF Took
  <2>1. e.op[1] = t /\ e.op[2] = opn[t] + 1
    BY <1>0, <1>2 DEF OpOf
  <2>2. e.op[2] <= opn[e.op[1]]
    BY DEF Visible, ShareInv, OldOps
  <2>3. QED  BY <1>0, <2>1, <2>2
<1>5. \A u \in Threads \ {t} : Took(u)' = Took(u)
  BY <1>1, <1>3 DEF Took, OpOf
<1>6. \A u \in Threads : pc[u] # "finish" /\ pc'[u] # "finish"
  BY <1>1, <1>2, NoneEnding DEF Holding, Grouped
<1>7. Told'
  <2> SUFFICES ASSUME NEW u \in Threads, Answered(u)', req'[u].kind = "write"
               PROVE  Verdict(u, status[u])'
    BY DEF Told
  <2>1. u # t /\ Verdict(u, status[u]) /\ req'[u] = req[u]
    BY <1>1 DEF Answered, ReplyInv, Told
  <2>2. QED  BY <1>1, <1>5, <2>1 DEF Verdict
<1>8. Ending'
  BY <1>6 DEF Ending
<1>9. Pending'
  <2> SUFFICES ASSUME NEW u \in Threads \ {t}, Undecided(u)' PROVE ~Took(u)'
    BY <1>4 DEF Pending
  <2>1. Undecided(u)
    BY <1>1, <1>6 DEF Undecided, Answered, InWrite
  <2>2. QED  BY <1>5, <2>1 DEF ReplyInv, Pending
<1>10. QED  BY <1>4, <1>7, <1>8, <1>9 DEF ReplyInv

\* A leader that writes nothing reports an error for its batch, or OK for a
\* null batch.
LEMMA LoneReply ==
  ASSUME IInv, DataInv, ShareInv, ReplyInv, [Next]_vars, NEW t \in Threads,
         RoomError(t) \/ RoomSwitchFails(t) \/ (RoomFound(t) /\ req[t].kind = "compact")
  PROVE  ReplyInv'
<1>0. pc \in [Threads -> CallerPCs] /\ group \in [Threads -> Group]
  BY DataTypes
<1>1. /\ pc[t] = "room" /\ pc' = [pc EXCEPT ![t] = "finish"]
      /\ UNCHANGED <<req, opn, done, status, writers>>
      /\ group'[t].size = 1 /\ (req[t].kind = "write" => ~group'[t].ok)
  BY <1>0 DEF RoomError, RoomSwitchFails, RoomFound, InRoom, LoneGroup, FirstOfGroup
<1>2. Visible(lastSequence)' = Visible(lastSequence)
  <2>1. UNCHANGED lastSequence
    BY DEF RoomError, RoomSwitchFails, RoomFound, dataVars
  <2>2. QED  BY <2>1, ContentsKept
<1>3. \A u \in Threads : Took(u)' = Took(u)
  BY <1>1, <1>2 DEF Took, OpOf
<1>4. \A u \in Threads \ {t} : pc[u] \notin Leading /\ pc'[u] = pc[u]
  BY <1>0, <1>1, OthersOutside DEF Leading, Holding
<1>5. \A u \in Threads : pc[u] # "finish"
  BY <1>1, <1>4 DEF Leading, Holding
<1>6. Batches(t)' = {u \in {t} : req[u].kind = "write"}
  <2>1. writers[1] = t /\ 1..group'[t].size = {1}
    BY <1>1, DataTypes DEF IInv, QueueInv, LeaderIsHead, Leading, Holding
  <2>2. QED  BY <1>1, <2>1 DEF Batches
<1>7. pc'[t] = "finish" /\ \A u \in Threads : Answered(u)' => Answered(u) /\ u # t
  BY <1>0, <1>1 DEF Answered
<1>8. Told'
  <2> SUFFICES ASSUME NEW u \in Threads, Answered(u)', req'[u].kind = "write"
               PROVE  Verdict(u, status[u])'
    BY DEF Told
  <2>1. Verdict(u, status[u])
    BY <1>1, <1>7 DEF ReplyInv, Told
  <2>2. QED  BY <1>1, <1>3, <2>1 DEF Verdict
<1>9. Ending'
  <2> SUFFICES ASSUME NEW v \in Threads, pc'[v] = "finish", NEW u \in Batches(v)'
               PROVE  Verdict(u, group[v].ok)'
    BY DEF Ending
  <2>1. v = t /\ u = t /\ req[t].kind = "write"
    BY <1>4, <1>5, <1>6
  <2>2. Undecided(t)
    BY <1>1, <1>5, <2>1 DEF Undecided, Answered, InWrite, Leading, Holding
  <2>3. ~Took(t)' /\ ~group'[t].ok
    BY <1>1, <1>3, <2>1, <2>2 DEF ReplyInv, Pending
  <2>4. QED  BY <2>1, <2>3 DEF Verdict
<1>10. Pending'
  <2> SUFFICES ASSUME NEW u \in Threads, Undecided(u)' PROVE ~Took(u)
    BY <1>3 DEF Pending
  <2>1. u # t
    BY <1>1, <1>6, <1>7 DEF Undecided, InWrite
  <2>2. Undecided(u)
    BY <1>1, <1>4, <1>5, <2>1 DEF Undecided, Answered, InWrite
  <2>3. QED  BY <2>2 DEF ReplyInv, Pending
<1>11. QED  BY <1>8, <1>9, <1>10 DEF ReplyInv

\* Who is in the group of a leader waits in the queue and knows nothing yet.
LEMMA BatchWaits ==
  ASSUME IInv, NEW t \in Threads, pc[t] \in Grouped, NEW u \in Batches(t)
  PROVE  InWrite(u) /\ ~Answered(u) /\ (u = t \/ pc[u] = "queued")
<1>1. PICK k \in 1..group[t].size : writers[k] = u
  BY DEF Batches
<1>2. k \in 1..Len(writers) /\ u \in Threads /\ req[u].kind = "write"
  BY <1>1, InGroup DEF Batches
<1>3. pc[u] \in Leading \/ (pc[u] = "queued" /\ ~done[u])
  BY <1>1, <1>2 DEF IInv, QueueInv, QueueMembers
<1>4. pc[t] \in Leading
  BY DEF Grouped, Leading, Holding
<1>5. u = t \/ pc[u] \notin Leading
  BY <1>2, <1>4, OthersOutside
<1>6. QED  BY <1>2, <1>3, <1>5 DEF InWrite, Answered, Leading, Holding, Unlocked
\* A group that commits makes its own operations visible, and no other.
LEMMA CommitTook ==
  ASSUME IInv, DataInv, ShareInv, AckInv, NEW t \in Threads, Commit(t), NEW u \in Threads
  PROVE  /\ u \notin Batches(t) \/ ~group[t].ok => Took(u)' = Took(u)
         /\ u \in Batches(t) /\ group[t].ok /\ req[u].count # 0 => Took(u)'
<1>1. pc[t] = "commit" /\ UNCHANGED opn
  BY DEF Commit, UnlockedStep
<1>2. Visible(lastSequence)' =
        Visible(lastSequence) \cup (IF group[t].ok THEN group[t].entries ELSE {})
  BY CommitContents
<1>3. OpOf(u)' = OpOf(u)
  BY <1>1 DEF OpOf
<1>4. CASE ~group[t].ok
  BY <1>2, <1>3, <1>4 DEF Took
<1>5. CASE group[t].ok /\ u \notin Batches(t)
  <2>1. ASSUME NEW e \in group[t].entries PROVE e.op # OpOf(u)
    <3>1. PICK v \in Batches(t) : e.op = OpOf(v)
      BY <1>1, EntryOp DEF ShareInv, GroupsShare, Building, Unlocked
    <3>2. v # u
      BY <1>5, <3>1
    <3>3. QED  BY <3>1, <3>2 DEF OpOf
  <2>2. QED  BY <1>2, <1>3, <1>5, <2>1 DEF Took
<1>6. CASE u \in Batches(t) /\ group[t].ok /\ req[u].count # 0
  <2>1. PICK k \in 1..group[t].size : writers[k] = u
    BY <1>6 DEF Batches
  <2>2. Has(group[t].entries, OpOf(u), req[u].count)
    BY <1>1, <1>6, <2>1 DEF AckInv, GroupsCarry, Carries, HasUpdates, OpOf, Grouped, Unlocked
  <2>3. 1 \in 1..req[u].count
    BY <1>6, DataTypes DEF RequestSpace
  <2>4. \E e \in group[t].entries : e.op = OpOf(u)
    BY <2>2, <2>3 DEF Has
  <2>5. QED  BY <1>2, <1>3, <1>6, <2>4 DEF Took
<1>7. QED  BY <1>4, <1>5, <1>6

LEMMA CommitReply ==
  ASSUME IInv, DataInv, ShareInv, AckInv, ReplyInv, NEW t \in Threads, Commit(t)
  PROVE  ReplyInv'
<1>0. pc \in [Threads -> CallerPCs]
  BY DataTypes
<1>1. /\ pc[t] = "commit" /\ pc' = [pc EXCEPT ![t] = "finish"]
      /\ UNCHANGED <<req, opn, done, status, group, writers>>
  BY DEF Commit, UnlockedStep, queueVars
<1>2. \A u \in Threads \ {t} : pc[u] \notin Leading /\ pc'[u] = pc[u]
  BY <1>1, WorkFrame
<1>3. \A u \in Threads : pc[u] # "finish"
  BY <1>1, <1>2 DEF Leading, Holding
<1>4. pc'[t] = "finish" /\ Batches(t)' = Batches(t)
  BY <1>0, <1>1 DEF Batches
<1>5. \A u \in Batches(t) : u \in Threads /\ InWrite(u) /\ ~Answered(u)
  BY <1>1, BatchWaits DEF Grouped, Unlocked, Batches
<1>6. Told'
  <2> SUFFICES ASSUME NEW u \in Threads, Answered(u)', req'[u].kind = "write"
               PROVE  Verdict(u, status[u])'
    BY DEF Told
  <2>1. Answered(u) /\ Verdict(u, status[u])
    BY <1>1, <1>2, <1>4 DEF Answered, ReplyInv, Told
  <2>2. Took(u)' = Took(u)
    BY <1>5, <2>1, CommitTook
  <2>3. QED  BY <1>1, <2>1, <2>2 DEF Verdict
<1>7. Ending'
  <2> SUFFICES ASSUME NEW v \in Threads, pc'[v] = "finish", NEW u \in Batches(v)'
               PROVE  Verdict(u, group[v].ok)'
    BY DEF Ending
  <2>1. v = t /\ u \in Batches(t)
    BY <1>2, <1>3, <1>4
  <2>2. ~Took(u)
    BY <1>3, <1>5, <2>1 DEF ReplyInv, Pending, Undecided
  <2>3. /\ group[t].ok => Took(u)' \/ req[u].count = 0
        /\ ~group[t].ok => ~Took(u)'
    BY <1>5, <2>1, <2>2, CommitTook
  <2>4. QED  BY <1>1, <2>1, <2>3 DEF Verdict
<1>8. Pending'
  <2> SUFFICES ASSUME NEW u \in Threads, Undecided(u)' PROVE ~Took(u)'
    BY DEF Pending
  <2>1. u \notin Batches(t)
    BY <1>4 DEF Undecided
  <2>2. Undecided(u)
    BY <1>1, <1>2, <1>3 DEF Undecided, Answered, InWrite, Leading, Unlocked
  <2>3. QED  BY <2>1, <2>2, CommitTook DEF ReplyInv, Pending
<1>9. QED  BY <1>6, <1>7, <1>8 DEF ReplyInv

\* The leader hands its members their verdict.
LEMMA FinishReply ==
  ASSUME IInv, DataInv, ReplyInv, [Next]_vars, NEW t \in Threads, Finish(t)
  PROVE  ReplyInv'
<1>0. /\ pc \in [Threads -> CallerPCs] /\ done \in [Threads -> BOOLEAN]
      /\ group[t].size \in Nat
  BY DataTypes DEF Group
<1>1. /\ pc[t] = "finish" /\ UNCHANGED <<req, opn, lastSequence>>
      /\ pc'[t] \notin Leading \cup {"queued"}
  <2>1. pc[t] = "finish" /\ UNCHANGED <<req, opn, lastSequence>>
    BY DEF Finish, dataVars
  <2>2. \/ pc' = [pc EXCEPT ![t] = "idle"] \/ pc' = [pc EXCEPT ![t] = "flush"]
        \/ pc' = [pc EXCEPT ![t] = "manual"]
    BY DEF Finish, Return
  <2>3. QED  BY <1>0, <2>1, <2>2 DEF Leading, Holding, Unlocked
<1>2. \A u \in Threads \ {t} : pc[u] \notin Leading /\ pc'[u] = pc[u]
  <2>1. Quiet(t) /\ pc[t] \in Leading
    BY <1>1 DEF Quiet, Leading, Holding
  <2>2. QED  BY <2>1, QuietFrame, OthersOutside
<1>3. \A u \in Threads : Took(u)' = Took(u)
  BY <1>1, ContentsKept DEF Took, OpOf
<1>4. \A u \in Threads \ {t} : u \in Members(t) /\ req[u].kind = "write" => u \in Batches(t)
  BY DEF Members, Batches
<1>5. \A u \in Batches(t) : u = t \/ u \in Members(t)
  BY DEF Members, Batches
<1>6. /\ done' = [u \in Threads |-> done[u] \/ u \in Members(t)]
      /\ status' = [u \in Threads |-> IF u \in Members(t) THEN group[t].ok ELSE status[u]]
  BY DEF Finish, MemberStatus
<1>7. Told'
  <2> SUFFICES ASSUME NEW u \in Threads, Answered(u)', req'[u].kind = "write"
               PROVE  Verdict(u, status[u])'
    BY DEF Told
  <2>1. u # t /\ pc[u] = "queued" /\ done'[u] /\ req[u].kind = "write"
    BY <1>1, <1>2 DEF Answered
  <2>2. CASE u \in Members(t)
    <3>1. Verdict(u, group[t].ok) /\ status'[u] = group[t].ok
      BY <1>1, <1>4, <1>6, <2>1, <2>2 DEF ReplyInv, Ending
    <3>2. QED  BY <1>1, <1>3, <3>1 DEF Verdict
  <2>3. CASE u \notin Members(t)
    <3>1. Verdict(u, status[u]) /\ status'[u] = status[u]
      BY <1>6, <2>1, <2>3 DEF ReplyInv, Told, Answered
    <3>2. QED  BY <1>1, <1>3, <3>1 DEF Verdict
  <2>4. QED  BY <2>2, <2>3
<1>8. \A u \in Threads : pc'[u] # "finish"
  BY <1>1, <1>2 DEF Leading, Holding
<1>9. Ending'
  BY <1>8 DEF Ending
<1>10. Pending'
  <2> SUFFICES ASSUME NEW u \in Threads, Undecided(u)' PROVE ~Took(u)
    BY <1>3 DEF Pending
  <2>1. u # t /\ pc[u] = "queued" /\ ~done'[u] /\ req[u].kind = "write"
    BY <1>1, <1>2 DEF Undecided, InWrite, Answered
  <2>2. ~done[u] /\ u \notin Batches(t)
    BY <1>5, <1>6, <2>1
  <2>3. Undecided(u)
    BY <1>2, <2>1, <2>2 DEF Undecided, InWrite, Answered, Leading, Holding
  <2>4. QED  BY <2>3 DEF ReplyInv, Pending
<1>11. QED  BY <1>7, <1>9, <1>10 DEF ReplyInv
\* The steps that neither begin nor end anything, seen from the callers: where
\* they leave a thread, and which calls they keep in progress.
Passing(t) ==
  \/ RoomSlowdown(t) \/ RoomWait(t) \/ RoomSwitch(t) \/ WakeRoom(t)
  \/ RoomFound(t) /\ req[t].kind # "compact"
  \/ GroupJoin(t) \/ GroupBuilt(t) \/ LogRecord(t) \/ SyncLog(t) \/ InsertEntry(t)
  \/ GetEnd(t) \/ FlushWait(t) \/ ManualCompact(t) \/ Close(t)

LEMMA PassingFrame ==
  ASSUME IInv, NEW t \in Threads, Passing(t)
  PROVE  /\ UNCHANGED <<req, opn, done, status, writers, lastSequence, acked>>
         /\ pc[t] \notin {"queued", "finish"} /\ pc'[t] \notin {"queued", "finish"}
         /\ pc[t] \in Leading <=> pc'[t] \in Leading
         /\ \A u \in Threads \ {t} : pc'[u] = pc[u] /\ group'[u] = group[u]
<1>0. pc \in [Threads -> CallerPCs] /\ group \in [Threads -> Group]
  BY DataTypes
<1>1. CASE RoomSlowdown(t) \/ RoomWait(t) \/ RoomSwitch(t) \/ WakeRoom(t)
           \/ (RoomFound(t) /\ req[t].kind # "compact")
  <2>1. UNCHANGED <<req, opn, done, status, writers, lastSequence, acked>>
    BY <1>1 DEF RoomSlowdown, RoomWait, RoomSwitch, WakeRoom, RoomFound, queueVars, dataVars,
       callerVars
  <2>2. /\ pc[t] \in {"room", "delay", "roomwait"}
        /\ pc' = pc \/ \E x : /\ x \in {"room", "delay", "roomwait", "group"}
                              /\ pc' = [pc EXCEPT ![t] = x]
    BY <1>1 DEF RoomSlowdown, RoomWait, RoomSwitch, WakeRoom, RoomFound, InRoom, callerVars
  <2>3. group' = group \/ \E x : group' = [group EXCEPT ![t] = x]
    BY <1>1 DEF RoomSlowdown, RoomWait, RoomSwitch, WakeRoom, RoomFound, FirstOfGroup,
       LoneGroup, queueVars
  <2>4. QED  BY <1>0, <2>1, <2>2, <2>3 DEF Leading, Holding
<1>2. CASE GroupJoin(t) \/ GroupBuilt(t) \/ LogRecord(t) \/ SyncLog(t) \/ InsertEntry(t)
  <2>1. UNCHANGED <<req, opn, done, status, writers, lastSequence, acked>>
    BY <1>2 DEF GroupJoin, GroupBuilt, LogRecord, SyncLog, InsertEntry, queueVars, dataVars,
       callerVars
  <2>2. pc' = pc \/ \E x : x \in Building /\ pc' = [pc EXCEPT ![t] = x]
    BY <1>2 DEF GroupJoin, GroupBuilt, LogRecord, SyncLog, InsertEntry, UnlockedStep, Skipped,
       callerVars, Building, Unlocked
  <2>3. pc[t] \in Building
        /\ \A u \in Threads \ {t} : pc'[u] = pc[u] /\ group'[u] = group[u]
    BY <1>2, WorkFrame
  <2>4. QED  BY <1>0, <2>1, <2>2, <2>3 DEF Building, Leading, Holding, Unlocked
<1>3. CASE GetEnd(t) \/ FlushWait(t) \/ ManualCompact(t) \/ Close(t)
  <2>1. UNCHANGED <<req, opn, done, status, writers, group, lastSequence, acked>>
    BY <1>3 DEF GetEnd, FlushWait, ManualCompact, Close, queueVars, dataVars
  <2>2. \E x : /\ x \in {"idle", "flushwait", "manual", "manualwait", "closewait", "closed"}
               /\ pc' = [pc EXCEPT ![t] = x]
    BY <1>3 DEF GetEnd, FlushWait, ManualCompact, Close
  <2>3. pc[t] \in {"idle", "get", "flush", "flushwait", "manual", "manualwait", "closewait"}
    BY <1>3 DEF GetEnd, FlushWait, ManualCompact, Close
  <2>4. QED  BY <1>0, <2>1, <2>2, <2>3 DEF Leading, Holding, Unlocked
<1>4. QED  BY <1>1, <1>2, <1>3 DEF Passing

LEMMA StepSplit ==
  ASSUME NEW t \in Threads, Caller(t)
  PROVE  \/ Enqueue(t) \/ GetBegin(t) \/ WakeQueued(t) \/ Commit(t) \/ Finish(t) \/ Passing(t)
         \/ RoomError(t) \/ RoomSwitchFails(t) \/ (RoomFound(t) /\ req[t].kind = "compact")
BY DEF Caller, Writer, Passing

LEMMA WakeQueuedReply ==
  ASSUME IInv, DataInv, ReplyInv, [Next]_vars, NEW t \in Threads, WakeQueued(t)
  PROVE  ReplyInv'
<1>0. pc \in [Threads -> CallerPCs]
  BY DataTypes
<1>1. /\ pc[t] = "queued"
      /\ UNCHANGED <<req, opn, done, status, group, writers, lastSequence>>
  BY DEF WakeQueued, dataVars
<1>2. /\ pc'[t] # "finish" /\ (pc'[t] \in Leading \cup {"queued"} => ~done[t])
      /\ \A u \in Threads \ {t} : pc'[u] = pc[u]
  <2>1. CASE done[t] /\ Return(t, status[t])
    <3>1. \/ pc' = [pc EXCEPT ![t] = "idle"] \/ pc' = [pc EXCEPT ![t] = "flush"]
          \/ pc' = [pc EXCEPT ![t] = "manual"]
      BY <2>1 DEF Return
    <3>2. QED  BY <1>0, <3>1 DEF Leading, Holding, Unlocked
  <2>2. CASE ~done[t] /\ (pc' = pc \/ pc' = [pc EXCEPT ![t] = "room"])
    BY <1>0, <1>1, <2>2
  <2>3. QED  BY <2>1, <2>2 DEF WakeQueued, EnterRoom
<1>3. Visible(lastSequence)' = Visible(lastSequence)
  BY <1>1, ContentsKept
<1>4. \A u \in Threads : Answered(u)' => Answered(u)
  BY <1>1, <1>2 DEF Answered
<1>5. \A u \in Threads : InWrite(u)' /\ ~Answered(u)' => InWrite(u) /\ ~Answered(u)
  BY <1>1, <1>2 DEF Answered, InWrite, Leading, Holding, Unlocked
<1>6. \A u \in Threads : pc'[u] = "finish" <=> pc[u] = "finish"
  BY <1>1, <1>2
<1>7. \A u \in Threads : Batches(u)' = Batches(u) /\ group'[u].ok = group[u].ok
  BY <1>1 DEF Batches
<1>8. QED  BY <1>1, <1>3, <1>4, <1>5, <1>6, <1>7, ReplyKept

LEMMA PassingReply ==
  ASSUME IInv, DataInv, ReplyInv, [Next]_vars, NEW t \in Threads, Passing(t)
  PROVE  ReplyInv'
<1>1. /\ UNCHANGED <<req, opn, done, status, writers, lastSequence>>
      /\ pc[t] \notin {"queued", "finish"} /\ pc'[t] \notin {"queued", "finish"}
      /\ pc[t] \in Leading <=> pc'[t] \in Leading
      /\ \A u \in Threads \ {t} : pc'[u] = pc[u] /\ group'[u] = group[u]
  BY PassingFrame
<1>2. Visible(lastSequence)' = Visible(lastSequence)
  BY <1>1, ContentsKept
<1>3. \A u \in Threads : Answered(u)' => Answered(u)
  BY <1>1 DEF Answered
<1>4. \A u \in Threads : InWrite(u)' /\ ~Answered(u)' => InWrite(u) /\ ~Answered(u)
  BY <1>1 DEF Answered, InWrite
<1>5. \A u \in Threads : pc'[u] = "finish" <=> pc[u] = "finish"
  BY <1>1
<1>6. \A u \in Threads \ {t} : Batches(u)' = Batches(u) /\ group'[u].ok = group[u].ok
  BY <1>1 DEF Batches
<1>7. QED  BY <1>1, <1>2, <1>3, <1>4, <1>5, <1>6, ReplyKept

LEMMA ReplyInvariant == Spec => []ReplyInv
<1>1. Init => ReplyInv
  BY DEF Init, InitState, ReplyInv, Told, Ending, Pending, Answered, Undecided, InWrite,
     Leading, Holding, Unlocked
<1>2. ASSUME IInv, DataInv, ShareInv, AckInv, ReplyInv, [Next]_vars PROVE ReplyInv'
  <2>1. CASE UNCHANGED vars \/ BackgroundThread
    <3>1. UNCHANGED <<req, opn, done, status, pc, group, writers, lastSequence>>
      BY <2>1, BackgroundFrame DEF vars, callerVars, queueVars, dataVars, Untouched
    <3>2. Visible(lastSequence)' = Visible(lastSequence)
      BY <1>2, <3>1, ContentsKept
    <3>3. \A u \in Threads : Batches(u)' = Batches(u)
      BY <3>1 DEF Batches
    <3>4. \A u \in Threads : Answered(u)' = Answered(u) /\ InWrite(u)' = InWrite(u)
      BY <3>1 DEF Answered, InWrite
    <3>5. QED  BY <1>2, <3>1, <3>2, <3>3, <3>4, ReplyKept
  <2>2. ASSUME NEW t \in Threads, Caller(t) PROVE ReplyInv'
    BY <1>2, <2>2, StepSplit, BeginReply, LoneReply, WakeQueuedReply, CommitReply, FinishReply,
       PassingReply
  <2>3. QED  BY <1>2, <2>1, <2>2 DEF Next
<1>3. QED
  BY <1>1, <1>2, Invariant, DataInvariant, AckInvariant, ShareInvariant, PTL DEF Spec
(***************************************************************************)
(* The refinement, step by step.                                           *)
(***************************************************************************)
CallOf(u) == [op |-> OpOf(u), count |-> req[u].count]
Calls == [u \in Threads |-> IF InWrite(u) THEN CallOf(u) ELSE Null]
Replies == {a.op : a \in acked}

LEMMA MapInit == Init => Atomic!Init
<1> SUFFICES ASSUME Init PROVE Atomic!Init
  OBVIOUS
<1>1. \A u \in Threads : ~InWrite(u)
  BY DEF Init, InitState, InWrite, Leading, Holding, Unlocked
<1>2. Visible(lastSequence) = {} /\ lastSequence = 0 /\ {a.op : a \in acked} = {}
  BY DEF Init, InitState, Visible, Stored
<1>3. QED  BY <1>1, <1>2 DEF Atomic!Init

LEMMA RecordNotNull ==
  ASSUME NEW op \in Op, NEW count \in Nat
  PROVE  [op |-> op, count |-> count] # Null
BY NullAssumption

LEMMA CallsKept ==
  ASSUME \A u \in Threads : /\ InWrite(u)' <=> InWrite(u)
                            /\ InWrite(u) => req'[u] = req[u] /\ opn'[u] = opn[u]
  PROVE  Calls' = Calls
<1>1. ASSUME NEW u \in Threads
      PROVE  (IF InWrite(u) THEN CallOf(u) ELSE Null)' = IF InWrite(u) THEN CallOf(u) ELSE Null
  BY DEF CallOf, OpOf
<1>2. QED  BY <1>1 DEF Calls

LEMMA MapStutter ==
  ASSUME UNCHANGED <<lastSequence, acked>>,
         Visible(lastSequence)' = Visible(lastSequence),
         \A u \in Threads : /\ InWrite(u)' <=> InWrite(u)
                            /\ InWrite(u) => req'[u] = req[u] /\ opn'[u] = opn[u]
  PROVE  UNCHANGED Atomic!storeVars
<1>1. Calls' = Calls
  BY CallsKept
<1>2. QED  BY <1>1 DEF Atomic!storeVars, Calls, CallOf, OpOf

\* A Write that is pushed on the queue begins; nothing of it is stored.
LEMMA MapCall ==
  ASSUME IInv, NEW t \in Threads, ~InWrite(t), InWrite(t)', IInv', ~Took(t)',
         UNCHANGED <<lastSequence, acked>>, Visible(lastSequence)' = Visible(lastSequence),
         \A u \in Threads \ {t} : /\ InWrite(u)' <=> InWrite(u)
                                  /\ req'[u] = req[u] /\ opn'[u] = opn[u]
  PROVE  Atomic!Call(t)
<1>1. Calls[t] = Null /\ Calls'[t] = CallOf(t)'
  BY DEF Calls
<1>2. CallOf(t)' # Null
  <2>1. opn' \in [Threads -> Nat] /\ req' \in [Threads -> RequestSpace]
    BY DEF IInv, Typed, TypeOK, CallersOK
  <2>2. <<t, opn'[t]>> \in Op /\ req'[t].count \in Nat
    BY <2>1 DEF Op, RequestSpace
  <2>3. QED  BY <2>2, RecordNotNull DEF CallOf, OpOf
<1>3. Calls' = [Calls EXCEPT ![t] = Calls'[t]]
  <2>1. \A u \in Threads \ {t} : Calls'[u] = Calls[u]
    BY DEF Calls, CallOf, OpOf
  <2>2. Calls \in [Threads -> {Calls[u] : u \in Threads}] /\ DOMAIN Calls' = Threads
    BY DEF Calls
  <2>3. QED  BY <2>1, <2>2 DEF Calls
<1>4. \A e \in Visible(lastSequence) : e.op # Calls'[t].op
  BY <1>1 DEF Took, CallOf
<1>5. QED  BY <1>1, <1>2, <1>3, <1>4 DEF Atomic!Call, Calls, CallOf, OpOf

\* A Write that returns says what became of it.
LEMMA MapReturn ==
  ASSUME IInv, NEW t \in Threads, InWrite(t), ~InWrite(t)', NEW ok \in BOOLEAN, Verdict(t, ok),
         Return(t, ok), UNCHANGED <<lastSequence, req, opn>>,
         Visible(lastSequence)' = Visible(lastSequence),
         \A u \in Threads \ {t} : InWrite(u)' <=> InWrite(u)
  PROVE  Atomic!Return(t)
<1>1. Calls[t] = CallOf(t) /\ Calls[t].op = OpOf(t) /\ Calls[t].count = req[t].count
  BY DEF Calls, CallOf
<1>2. Calls[t] # Null
  <2>1. <<t, opn[t]>> \in Op /\ req[t].count \in Nat
    BY DataTypes DEF Op, RequestSpace
  <2>2. QED  BY <1>1, <2>1, RecordNotNull DEF CallOf, OpOf
<1>3. Calls' = [Calls EXCEPT ![t] = Null]
  BY DEF Calls, CallOf, OpOf
<1>4. Took(t) <=> \E e \in Visible(lastSequence) : e.op = Calls[t].op
  BY <1>1 DEF Took
<1>5. \/ (Took(t) \/ Calls[t].count = 0) /\ Replies' = Replies \cup {Calls[t].op}
      \/ ~Took(t) /\ Replies' = Replies
  <2>1. req[t].kind = "write"
    BY DEF InWrite
  <2>2. CASE ok
    <3> DEFINE a == [op |-> OpOf(t), count |-> req[t].count, sync |-> req[t].sync]
    <3>1. acked' = acked \cup {a} /\ a.op = OpOf(t)
      BY <2>1, <2>2 DEF Return, OpOf
    <3> HIDE DEF a
    <3>2. Replies' = Replies \cup {OpOf(t)}
      BY <3>1 DEF Replies
    <3>3. QED  BY <1>1, <2>2, <3>2 DEF Verdict
  <2>3. CASE ~ok
    <3>1. acked' = acked
      BY <2>3 DEF Return
    <3>2. QED  BY <2>3, <3>1 DEF Verdict, Replies
  <2>4. QED  BY <2>2, <2>3
<1>6. QED
  BY <1>2, <1>3, <1>4, <1>5 DEF Atomic!Return, Atomic!Applied, Calls, CallOf, OpOf, Replies
\* The commit of a group applies its calls; that of a failed group skips its
\* numbers, if it has any.
LEMMA MapCommit ==
  ASSUME IInv, DataInv, ShareInv, ReplyInv, NEW t \in Threads, Commit(t)
  PROVE  [Atomic!Next]_(Atomic!storeVars)
<1>0. /\ pc \in [Threads -> CallerPCs] /\ lastSequence \in Nat /\ group[t].end \in Nat
      /\ req \in [Threads -> RequestSpace] /\ opn \in [Threads -> Nat]
  BY DataTypes DEF Group
<1>1. /\ pc[t] = "commit" /\ pc' = [pc EXCEPT ![t] = "finish"]
      /\ UNCHANGED <<req, opn, acked>> /\ lastSequence' = group[t].end
      /\ lastSequence <= group[t].end
  <2>1. pc[t] = "commit" /\ pc' = [pc EXCEPT ![t] = "finish"]
        /\ UNCHANGED <<req, opn, acked>> /\ lastSequence' = group[t].end
    BY DEF Commit, UnlockedStep, CommittedSequence
  <2>2. Numbered(t)
    BY <2>1 DEF DataInv, GroupsNumbered, Building, Unlocked
  <2>3. QED  BY <2>1, <2>2 DEF Numbered
<1>2. \A u \in Threads : InWrite(u)' <=> InWrite(u)
  BY <1>0, <1>1 DEF InWrite, Leading, Holding, Unlocked
<1>3. Calls' = Calls
  BY <1>1, <1>2, CallsKept
<1>4. CASE group[t].ok
  <2>1. PICK base \in [Batches(t) -> lastSequence..group[t].end] :
          /\ Shares(Batches(t), base, Counts, lastSequence, group[t].end)
          /\ group[t].entries =
               UNION {RunEntries(base[u], req[u].count, OpOf(u)) : u \in Batches(t)}
    BY <1>1 DEF ShareInv, GroupsShare, GroupShares, Building, Unlocked
  <2>2. ASSUME NEW u \in Batches(t)
        PROVE  /\ Calls[u].op = OpOf(u) /\ Calls[u].count = req[u].count /\ Calls[u] # Null
               /\ Counts[u] = req[u].count /\ ~Took(u)
    <3>1. InWrite(u) /\ ~Answered(u) /\ u \in Threads
      BY <1>1, BatchWaits DEF Grouped, Unlocked, Batches
    <3>2. \A v \in Threads : pc[v] # "finish"
      BY <1>1, OthersOutside DEF Leading, Holding, Unlocked
    <3>3. ~Took(u)
      BY <3>1, <3>2 DEF ReplyInv, Pending, Undecided
    <3>4. Calls[u] = CallOf(u)
      BY <3>1 DEF Calls
    <3>5. <<u, opn[u]>> \in Op /\ req[u].count \in Nat
      BY <1>0, <3>1 DEF Op, RequestSpace
    <3>6. Calls[u] # Null
      BY <3>4, <3>5, RecordNotNull DEF CallOf, OpOf
    <3>7. QED  BY <3>1, <3>3, <3>4, <3>6 DEF Counts, CallOf
  <2> DEFINE run(u) == (base[u] + 1)..(base[u] + Calls[u].count)
             updates(u) == {[seq |-> s, op |-> Calls[u].op, i |-> s - base[u]] : s \in run(u)}
  <2>3. \A u \in Batches(t) : Calls[u] # Null /\ ~\E e \in Visible(lastSequence) : e.op = Calls[u].op
    BY <2>2 DEF Took
  <2>4. \A u \in Batches(t) : run(u) = RunOf(base[u], Counts[u])
    BY <2>2 DEF RunOf
  <2>5. \A u \in Batches(t) : updates(u) = RunEntries(base[u], req[u].count, OpOf(u))
    BY <2>2 DEF RunEntries, RunOf
  <2>6. /\ \A u, v \in Batches(t) : u # v => run(u) \cap run(v) = {}
        /\ UNION {run(u) : u \in Batches(t)} = (lastSequence + 1)..lastSequence'
    <3> HIDE DEF run
    <3>1. {run(u) : u \in Batches(t)} = {RunOf(base[u], Counts[u]) : u \in Batches(t)}
      BY <2>4
    <3>2. QED  BY <1>1, <2>1, <2>4, <3>1 DEF Shares
  <2>7. Visible(lastSequence)' = Visible(lastSequence) \cup UNION {updates(u) : u \in Batches(t)}
    <3> HIDE DEF updates
    <3>1. {updates(u) : u \in Batches(t)}
            = {RunEntries(base[u], req[u].count, OpOf(u)) : u \in Batches(t)}
      BY <2>5
    <3>2. QED  BY <1>4, <2>1, <3>1, CommitContents
  <2>8. base \in [Batches(t) -> lastSequence..lastSequence'] /\ lastSequence' >= lastSequence
    BY <1>0, <1>1, <2>1
  <2>9. Batches(t) \in (SUBSET Threads) \ {{}}
    <3>1. writers[1] = t /\ group[t].size \in 1..Len(writers) /\ writers \in Seq(Threads)
      BY <1>1, DataTypes DEF IInv, QueueInv, LeaderIsHead, Leading, GroupFits, Grouped, Unlocked
    <3>2. req[t].kind = "write"
      BY <1>1 DEF ShareInv, Kinds, Building, Unlocked
    <3>3. t \in Batches(t)
      BY <3>1, <3>2 DEF Batches
    <3>4. QED  BY <3>3 DEF Batches
  <2>10. Atomic!Apply(Batches(t))
    BY <1>1, <1>3, <2>3, <2>6, <2>7, <2>8 DEF Atomic!Apply, Atomic!Applied, Calls, CallOf, OpOf
  <2>11. QED  BY <2>9, <2>10 DEF Atomic!Next
<1>5. CASE ~group[t].ok
  <2>1. Visible(lastSequence)' = Visible(lastSequence)
    BY <1>5, CommitContents
  <2>2. CASE lastSequence' = lastSequence
    BY <1>1, <1>2, <2>1, <2>2, MapStutter
  <2>3. CASE lastSequence' > lastSequence
    BY <1>1, <1>3, <2>1, <2>3 DEF Atomic!Next, Atomic!Skip, Calls, CallOf, OpOf
  <2>4. QED  BY <1>0, <1>1, <2>2, <2>3
<1>6. QED  BY <1>4, <1>5
LEMMA MapBegin ==
  ASSUME IInv, IInv', DataInv, ShareInv, ReplyInv, [Next]_vars,
         NEW t \in Threads, Enqueue(t) \/ GetBegin(t)
  PROVE  [Atomic!Next]_(Atomic!storeVars)
<1>1. /\ pc[t] = "idle"
      /\ \A u \in Threads \ {t} : pc'[u] = pc[u] /\ req'[u] = req[u] /\ opn'[u] = opn[u]
  BY BeginFrame
<1>2. /\ UNCHANGED <<lastSequence, acked>> /\ Visible(lastSequence)' = Visible(lastSequence)
      /\ ~Took(t)'
  <2>1. UNCHANGED <<lastSequence, acked>>
    BY DEF Enqueue, GetBegin, dataVars
  <2>2. QED  BY <2>1, ContentsKept, BeginReply
<1>3. ~InWrite(t) /\ \A u \in Threads \ {t} : InWrite(u)' <=> InWrite(u)
  BY <1>1 DEF InWrite, Leading, Holding, Unlocked
<1>4. CASE InWrite(t)'
  BY <1>1, <1>2, <1>3, <1>4, MapCall DEF Atomic!Next
<1>5. CASE ~InWrite(t)'
  BY <1>1, <1>2, <1>3, <1>5, MapStutter
<1>6. QED  BY <1>4, <1>5

LEMMA MapWake ==
  ASSUME IInv, DataInv, ReplyInv, [Next]_vars, NEW t \in Threads, WakeQueued(t)
  PROVE  [Atomic!Next]_(Atomic!storeVars)
<1>0. pc \in [Threads -> CallerPCs] /\ status \in [Threads -> BOOLEAN]
  BY DataTypes
<1>1. pc[t] = "queued" /\ UNCHANGED <<req, opn, lastSequence>>
      /\ Visible(lastSequence)' = Visible(lastSequence)
  <2>1. pc[t] = "queued" /\ UNCHANGED <<req, opn, lastSequence>>
    BY DEF WakeQueued, dataVars
  <2>2. QED  BY <2>1, ContentsKept
<1>2. CASE done[t] /\ Return(t, status[t])
  <2>1. /\ pc'[t] \notin Leading \cup {"queued"}
        /\ \A u \in Threads \ {t} : pc'[u] = pc[u]
    <3>1. \/ pc' = [pc EXCEPT ![t] = "idle"] \/ pc' = [pc EXCEPT ![t] = "flush"]
          \/ pc' = [pc EXCEPT ![t] = "manual"]
      BY <1>2 DEF Return
    <3>2. QED  BY <1>0, <3>1 DEF Leading, Holding, Unlocked
  <2>2. ~InWrite(t)' /\ \A u \in Threads \ {t} : InWrite(u)' <=> InWrite(u)
    BY <1>1, <2>1 DEF InWrite
  <2>3. CASE req[t].kind = "write"
    <3>1. InWrite(t) /\ Verdict(t, status[t])
      BY <1>1, <1>2, <2>3 DEF InWrite, ReplyInv, Told, Answered
    <3>2. status[t] \in BOOLEAN
      BY <1>0
    <3>3. Atomic!Return(t)
      BY <1>1, <1>2, <2>2, <3>1, <3>2, MapReturn
    <3>4. QED  BY <3>3 DEF Atomic!Next
  <2>4. CASE req[t].kind # "write"
    <3>1. ~InWrite(t) /\ acked' = acked
      BY <1>2, <2>4 DEF InWrite, Return
    <3>2. QED  BY <1>1, <2>2, <3>1, MapStutter
  <2>5. QED  BY <2>3, <2>4
<1>3. CASE acked' = acked /\ (pc' = pc \/ pc' = [pc EXCEPT ![t] = "room"])
  <2>1. \A u \in Threads : InWrite(u)' <=> InWrite(u)
    BY <1>0, <1>1, <1>3 DEF InWrite, Leading, Holding
  <2>2. QED  BY <1>1, <1>3, <2>1, MapStutter
<1>4. QED  BY <1>2, <1>3 DEF WakeQueued, EnterRoom

LEMMA MapFinish ==
  ASSUME IInv, DataInv, ReplyInv, [Next]_vars, NEW t \in Threads, Finish(t)
  PROVE  [Atomic!Next]_(Atomic!storeVars)
<1>0. pc \in [Threads -> CallerPCs] /\ group[t] \in Group
  BY DataTypes
<1>1. pc[t] = "finish" /\ UNCHANGED <<req, opn, lastSequence>> /\ Return(t, group[t].ok)
      /\ Visible(lastSequence)' = Visible(lastSequence)
  <2>1. pc[t] = "finish" /\ UNCHANGED <<req, opn, lastSequence>> /\ Return(t, group[t].ok)
    BY DEF Finish, dataVars
  <2>2. QED  BY <2>1, ContentsKept
<1>2. /\ pc'[t] \notin Leading \cup {"queued"}
      /\ \A u \in Threads \ {t} : pc'[u] = pc[u]
  <2>1. \/ pc' = [pc EXCEPT ![t] = "idle"] \/ pc' = [pc EXCEPT ![t] = "flush"]
        \/ pc' = [pc EXCEPT ![t] = "manual"]
    BY <1>1 DEF Return
  <2>2. QED  BY <1>0, <2>1 DEF Leading, Holding, Unlocked
<1>3. ~InWrite(t)' /\ \A u \in Threads \ {t} : InWrite(u)' <=> InWrite(u)
  BY <1>1, <1>2 DEF InWrite
<1>4. CASE req[t].kind = "write"
  <2>1. writers[1] = t /\ group[t].size \in 1..Len(writers) /\ writers \in Seq(Threads)
    BY <1>1, DataTypes DEF IInv, QueueInv, LeaderIsHead, Leading, Holding, GroupFits, Grouped
  <2>2. t \in Batches(t)
    BY <1>4, <2>1 DEF Batches
  <2>3. InWrite(t) /\ Verdict(t, group[t].ok) /\ group[t].ok \in BOOLEAN
    BY <1>0, <1>1, <1>4, <2>2 DEF InWrite, Leading, Holding, ReplyInv, Ending, Group
  <2>4. Atomic!Return(t)
    BY <1>1, <1>3, <2>3, MapReturn
  <2>5. QED  BY <2>4 DEF Atomic!Next
<1>5. CASE req[t].kind # "write"
  <2>1. ~InWrite(t) /\ acked' = acked
    BY <1>1, <1>5 DEF InWrite, Return
  <2>2. QED  BY <1>1, <1>3, <2>1, MapStutter
<1>6. QED  BY <1>4, <1>5

LEMMA MapStep ==
  ASSUME IInv, IInv', DataInv, ShareInv, ReplyInv, [Next]_vars
  PROVE  [Atomic!Next]_(Atomic!storeVars)
<1>1. CASE UNCHANGED vars \/ BackgroundThread
  <2>1. UNCHANGED <<req, opn, pc, lastSequence, acked>>
    BY <1>1, BackgroundFrame DEF vars, callerVars, dataVars, Untouched
  <2>2. QED  BY <2>1, ContentsKept, MapStutter DEF InWrite
<1>2. ASSUME NEW t \in Threads, Caller(t)
      PROVE  [Atomic!Next]_(Atomic!storeVars)
  <2>1. CASE Passing(t)
    <3>1. UNCHANGED <<req, opn, lastSequence, acked>>
          /\ \A u \in Threads : InWrite(u)' <=> InWrite(u)
      BY <2>1, PassingFrame DEF InWrite
    <3>2. QED  BY <3>1, ContentsKept, MapStutter
  <2>2. CASE RoomError(t) \/ RoomSwitchFails(t) \/ (RoomFound(t) /\ req[t].kind = "compact")
    <3>1. UNCHANGED <<req, opn, lastSequence, acked>>
          /\ pc[t] = "room" /\ pc' = [pc EXCEPT ![t] = "finish"]
      BY <2>2 DEF RoomError, RoomSwitchFails, RoomFound, InRoom, dataVars
    <3>2. \A u \in Threads : InWrite(u)' <=> InWrite(u)
      BY <3>1, DataTypes DEF InWrite, Leading, Holding
    <3>3. QED  BY <3>1, <3>2, ContentsKept, MapStutter
  <2>3. QED
    BY <1>2, <2>1, <2>2, StepSplit, MapBegin, MapWake, MapFinish, MapCommit
<1>3. QED  BY <1>1, <1>2 DEF Next

\* Every interleaving of Writes, failed log records and syncs, flushes and
\* compactions looks like writes that take effect one after the other, each at
\* one moment between its call and its return, and return OK only if they did.
THEOREM WritesAtomic == Spec => ImplementsAtomicStore
<1>1. IInv /\ IInv' /\ DataInv /\ ShareInv /\ ReplyInv /\ [Next]_vars
        => [Atomic!Next]_(Atomic!storeVars)
  BY MapStep
<1>2. QED
  BY <1>1, MapInit, Invariant, DataInvariant, ShareInvariant, ReplyInvariant, PTL
     DEF Spec, ImplementsAtomicStore, Atomic!Spec
===============================================================================
