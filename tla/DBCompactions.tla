---------------------------- MODULE DBCompactions ----------------------------
(***************************************************************************)
(* The background side of DBImpl: BackgroundCall, BackgroundCompaction,    *)
(* CompactMemTable and DoCompactionWork.  One background thread runs one   *)
(* call at a time (PosixEnv::Schedule's queue); it gives up mutex_ while   *)
(* it builds tables, while LogAndApply writes the MANIFEST and while       *)
(* RemoveObsoleteFiles deletes, and those are the places where bg.pc rests:*)
(*   build    CompactMemTable's BuildTable                                 *)
(*   compact  DoCompactionWork's loop over the merged input                *)
(*   install  LogAndApply of bg.kind (memtable, moved file, new tables)    *)
(*   gc       RemoveObsoleteFiles after installing bg.kind                 *)
(*   crashed  a null manual_compaction_ was dereferenced                   *)
(* What the tables hold is the same before and after a compaction, so only *)
(* the flush of imm_ changes "tables" here; LsmTree models the contents.   *)
(***************************************************************************)
EXTENDS DBState

(***************************************************************************)
(* The end of BackgroundCall: the manual compaction's frame is told, then  *)
(* the call is unscheduled, perhaps rescheduled, and every waiter woken.   *)
(***************************************************************************)
EndCall(isManual, over, waiters) ==
  IF isManual /\ manual = Null
  THEN /\ bg' = [BgIdle EXCEPT !.pc = "crashed"]
       /\ awake' = awake \cup waiters
       /\ UNCHANGED <<manual, mdone, bgScheduled>>
  ELSE /\ bg' = BgIdle
       /\ mdone' = [t \in Threads |-> mdone[t] \/ (isManual /\ over /\ t = manual)]
       /\ manual' = IF isManual THEN Null ELSE manual
       /\ MaybeScheduleCompaction(FALSE)
       /\ awake' = awake \cup BgWaiters

Untouched == UNCHANGED <<mutex, callerVars, queueVars, lastSequence, mem, log,
                         synced, shuttingDown, acked, mlevels>>
NoData == UNCHANGED <<imm, hasImm, tables>>
NoVersion == UNCHANGED <<level0, due, fresh, extra>>

Starts == bg.pc = "none" /\ bgScheduled /\ mutex = Null

(***************************************************************************)
(* BackgroundCall starts: nothing to do (any more), the memtable, a manual *)
(* compaction or the one PickCompaction picks.                             *)
(***************************************************************************)
BgSkip ==
  /\ Starts /\ (shuttingDown \/ bgError # "ok")
  /\ Untouched /\ NoData /\ NoVersion /\ NoFault /\ UNCHANGED <<bgError, mpieces>>
  /\ EndCall(FALSE, FALSE, {})

BgFlush ==
  /\ Starts /\ ~shuttingDown /\ bgError = "ok" /\ hasImm
  /\ bg' = [BgIdle EXCEPT !.pc = "build"]
  /\ Untouched /\ NoData /\ NoVersion /\ NoFault
  /\ UNCHANGED <<bgError, bgScheduled, awake, manual, mdone, mpieces>>

MayCompact == Starts /\ ~shuttingDown /\ bgError = "ok" /\ ~hasImm

\* versions_->CompactRange returns nullptr: nothing is left in the range.
BgManualOver ==
  /\ MayCompact /\ manual # Null
  /\ Untouched /\ NoData /\ NoVersion /\ NoFault /\ UNCHANGED <<bgError, mpieces>>
  /\ EndCall(TRUE, TRUE, {})

\* A manual compaction of level 0 takes level-0 files; mlevels counts down.
BgManual ==
  /\ MayCompact /\ manual # Null
  /\ mpieces[manual] > 0
  /\ mpieces' = [mpieces EXCEPT ![manual] = @ - 1]
  /\ \E n \in {0} \cup 1..level0 :
       bg' = [pc |-> "compact", kind |-> "tables", manual |-> TRUE,
              nested |-> FALSE, inputs |-> n]
  /\ Untouched /\ NoData /\ NoVersion /\ NoFault
  /\ UNCHANGED <<bgError, bgScheduled, awake, manual, mdone>>

\* PickCompaction: level 0 if it has CompactionTrigger files (another level
\* may have the higher score), else another level or a seek compaction, else
\* nothing.  One input and nothing to merge it with is a trivial move.
BgPick ==
  /\ MayCompact /\ manual = Null /\ NeedsCompaction
  /\ \E n \in 0..level0, kind \in {"move", "tables"} :
       /\ n = 0 => due
       /\ kind = "move" => n <= 1
       /\ bg' = [pc |-> IF kind = "move" THEN "install" ELSE "compact",
                 kind |-> kind, manual |-> FALSE, nested |-> FALSE, inputs |-> n]
  /\ Untouched /\ NoData /\ NoVersion /\ NoFault
  /\ UNCHANGED <<bgError, bgScheduled, awake, manual, mdone, mpieces>>

(***************************************************************************)
(* DoCompactionWork's loop: a waiting memtable is compacted first (even    *)
(* after an error); the loop ends, or fails, or is shut down.              *)
(***************************************************************************)
BgNestedFlush ==
  /\ bg.pc = "compact" /\ mutex = Null /\ hasImm /\ ~shuttingDown
  /\ bg' = [bg EXCEPT !.pc = "build", !.nested = TRUE]
  /\ Untouched /\ NoData /\ NoVersion /\ NoFault
  /\ UNCHANGED <<bgError, bgScheduled, awake, manual, mdone, mpieces>>

BgMerged ==
  /\ bg.pc = "compact" /\ mutex = Null /\ ~shuttingDown
  /\ bg' = [bg EXCEPT !.pc = "install"]
  /\ Untouched /\ NoData /\ NoVersion /\ NoFault
  /\ UNCHANGED <<bgError, bgScheduled, awake, manual, mdone, mpieces>>

\* An error, of the merge or of the MANIFEST, ends the call: the obsolete
\* files stay because bg_error_ is set.
BgCompactionFails ==
  /\ bg.pc \in {"compact", "install"} /\ mutex = Null
  /\ bg.pc = "install" => bg.kind # "memtable"
  /\ \/ Fault
     \/ bg.pc = "compact" /\ shuttingDown /\ NoFault
  /\ RecordBackgroundError("bg")
  /\ Untouched /\ NoData /\ NoVersion /\ UNCHANGED mpieces
  /\ EndCall(bg.manual, TRUE, ErrorWaiters)

(***************************************************************************)
(* The new version is current: the inputs have left their level and the    *)
(* next level's score, or L0's, may call for another compaction.           *)
(***************************************************************************)
NewVersionOneLess(files) == \* mutant: off by one
  /\ level0' = files - 1
  /\ fresh' = {}
  /\ due' = FALSE /\ extra' = extra

NewVersion(files) ==
  /\ level0' = files
  /\ fresh' = {}
  /\ \/ due' = FALSE /\ extra' = extra
     \/ due' = TRUE /\ extra < MaxExtra /\ extra' = extra + 1

BgInstallTables ==
  /\ bg.pc = "install" /\ bg.kind # "memtable" /\ mutex = Null
  /\ NoFault /\ NewVersion(level0 - bg.inputs)
  /\ Untouched /\ NoData /\ UNCHANGED <<bgError, mpieces>>
  /\ IF bg.kind = "tables" /\ bgError = "ok"
     THEN /\ bg' = [bg EXCEPT !.pc = "gc"]
          /\ UNCHANGED <<bgScheduled, awake, manual, mdone>>
     ELSE EndCall(bg.manual, FALSE, {})

\* RemoveObsoleteFiles has deleted its files; the call ends.
BgCollected ==
  /\ bg.pc = "gc" /\ mutex = Null /\ bg.kind = "tables"
  /\ Untouched /\ NoData /\ NoVersion /\ NoFault /\ UNCHANGED <<bgError, mpieces>>
  /\ EndCall(bg.manual, FALSE, {})

(***************************************************************************)
(* CompactMemTable, called first thing by the background call or from the  *)
(* compaction loop, which signals the waiters and goes on.                 *)
(***************************************************************************)
FlushReturns(waiters) ==
  IF bg.nested
  THEN /\ bg' = [bg EXCEPT !.pc = "compact", !.kind = "tables", !.nested = FALSE]
       /\ awake' = awake \cup BgWaiters
       /\ UNCHANGED <<bgScheduled, manual, mdone>>
  ELSE EndCall(FALSE, FALSE, waiters)

BgBuilt ==
  /\ bg.pc = "build" /\ mutex = Null /\ ~shuttingDown
  /\ bg' = [bg EXCEPT !.pc = "install", !.kind = "memtable"]
  /\ Untouched /\ NoData /\ NoVersion /\ NoFault
  /\ UNCHANGED <<bgError, bgScheduled, awake, manual, mdone, mpieces>>

BgFlushFails ==
  /\ bg.pc \in {"build", "install"} /\ mutex = Null
  /\ bg.pc = "install" => bg.kind = "memtable"
  /\ \/ Fault
     \/ bg.pc = "build" /\ shuttingDown /\ NoFault
  /\ RecordBackgroundError("bg")
  /\ Untouched /\ NoData /\ NoVersion /\ UNCHANGED mpieces
  /\ FlushReturns(ErrorWaiters)

\* The new version's tables hold what imm_ held.
FlushedLost == tables \* mutant: the edit does not add the file
Flushed == tables \cup imm

\* The table goes to level 0, or deeper when nothing there overlaps it; an
\* empty memtable leaves no table.  bg_error_ may be set by now: then the
\* obsolete files are left alone.
BgInstallMemTable ==
  /\ bg.pc = "install" /\ bg.kind = "memtable" /\ mutex = Null
  /\ NoFault
  /\ \E n \in IF imm = {} THEN {0} ELSE {0, 1} : NewVersion(level0 + n)
  /\ tables' = Flushed
  /\ imm' = {} /\ hasImm' = FALSE
  /\ Untouched /\ UNCHANGED <<bgError, mpieces>>
  /\ IF bgError = "ok"
     THEN /\ bg' = [bg EXCEPT !.pc = "gc"]
          /\ UNCHANGED <<bgScheduled, awake, manual, mdone>>
     ELSE FlushReturns({})

BgMemTableCollected ==
  /\ bg.pc = "gc" /\ mutex = Null /\ bg.kind = "memtable"
  /\ Untouched /\ NoData /\ NoVersion /\ NoFault /\ UNCHANGED <<bgError, mpieces>>
  /\ FlushReturns({})

BackgroundThread ==
  \/ BgSkip \/ BgFlush \/ BgManualOver \/ BgManual \/ BgPick
  \/ BgNestedFlush \/ BgMerged \/ BgCompactionFails \/ BgInstallTables
  \/ BgCollected \/ BgBuilt \/ BgFlushFails \/ BgInstallMemTable
  \/ BgMemTableCollected
==============================================================================
