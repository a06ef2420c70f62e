----------------------------- MODULE Durability -----------------------------
(***************************************************************************)
(* The files of a database and what is left of them: logs, tables, the     *)
(* MANIFEST and CURRENT, from creating and opening the database            *)
(* (DBImpl::NewDB, Recover, RecoverLogFile, VersionSet::Recover, DB::Open),*)
(* through writes, memtable switches, flushes and compactions              *)
(* (VersionSet::LogAndApply, RemoveObsoleteFiles), to a crash after any    *)
(* file operation.                                                         *)
(*                                                                         *)
(* One writer stands for the queue (module DBImpl has the queue), and one  *)
(* thread, whose place is pc, first opens the database and then works in   *)
(* the background.  Levels are left out: a version is a set of tables.     *)
(***************************************************************************)
EXTENDS Disk, FiniteSets

CONSTANTS
  ReuseLogs,       \* options_.reuse_logs
  Failing,         \* the calls that may fail
  MaxWrites,       \* BOUND: writes
  MaxEvents        \* BOUND: writes, crashes, power failures, failing calls, compactions

Calls == {"append", "fsync", "newlog", "table", "manifest", "current", "remove", "read"}

ASSUME BoundsAssumption ==
  /\ ReuseLogs \in BOOLEAN /\ Failing \subseteq Calls
  /\ MaxWrites \in Nat /\ MaxEvents \in Nat

VARIABLES
  pc,          \* where the opening, then background thread is
  job,         \* for whom LogAndApply works: "new", "open", "flush", "merge"
  up,          \* DB::Open has returned OK
  \* VersionSet
  version, nextFile, manifestNo, logNo, lastSeq,
  descriptor,  \* descriptor_log_ # nullptr
  \* DBImpl
  mem, imm,    \* entries [op, seq]; imm = {}: nullptr
  logFileNo,   \* logfile_number_; 0: no log_
  bgError,
  pending,     \* pending_outputs_
  \* Recover
  logs,        \* logs not yet replayed
  replay,      \* [left: records of the log not yet in a table, cut: compactions > 0]
  maxSeq, save,
  \* work in progress
  table,       \* the memtable's table being built: [no, entries]
  edit,        \* the VersionEdit
  inputs, output, \* the running compaction; output 0: not opened
  garbage,     \* files_to_delete
  writing,     \* the Write in progress: [op, seq, sync, at]
  \* HISTORY
  writes,      \* Writes begun: they number the operations
  acked, synced, \* operations that returned OK, those of them with sync
  losses,      \* power failures
  faulty,      \* a call has failed
  events       \* crashes, power failures, failing calls and compactions

versionVars == <<version, nextFile, manifestNo, logNo, lastSeq, descriptor>>
memVars == <<mem, imm, logFileNo, bgError, pending>>
openVars == <<logs, replay, maxSeq, save>>
workVars == <<table, edit, inputs, output, garbage>>
history == <<writes, acked, synced, losses>>
bounds == <<faulty, events>>
vars == <<diskVars, pc, job, up, versionVars, memVars, openVars, workVars, writing,
          history, bounds>>

NoTable == [no |-> 0, entries |-> {}]
NoReplay == [left |-> <<>>, cut |-> FALSE]
NotWriting == [op |-> 0, seq |-> 0, sync |-> FALSE, at |-> "idle"]
NoEdit == [log |-> 0, next |-> 0, seq |-> 0, add |-> {}, del |-> {}]

(***************************************************************************)
(* The process is gone, or a failed open has deleted its DBImpl.           *)
(***************************************************************************)
Forget ==
  /\ pc' = "down" /\ job' = "none" /\ up' = FALSE
  /\ version' = {} /\ nextFile' = 2 /\ manifestNo' = 0 /\ logNo' = 0 /\ lastSeq' = 0
  /\ descriptor' = FALSE
  /\ mem' = {} /\ imm' = {} /\ logFileNo' = 0 /\ bgError' = FALSE /\ pending' = {}
  /\ logs' = {} /\ replay' = NoReplay /\ maxSeq' = 0 /\ save' = FALSE
  /\ table' = NoTable /\ edit' = NoEdit /\ inputs' = {} /\ output' = 0 /\ garbage' = {}
  /\ writing' = NotWriting

Init ==
  /\ DiskInit
  /\ pc = "down" /\ job = "none" /\ up = FALSE
  /\ version = {} /\ nextFile = 2 /\ manifestNo = 0 /\ logNo = 0 /\ lastSeq = 0
  /\ descriptor = FALSE
  /\ mem = {} /\ imm = {} /\ logFileNo = 0 /\ bgError = FALSE /\ pending = {}
  /\ logs = {} /\ replay = NoReplay /\ maxSeq = 0 /\ save = FALSE
  /\ table = NoTable /\ edit = NoEdit /\ inputs = {} /\ output = 0 /\ garbage = {}
  /\ writing = NotWriting
  /\ writes = 0 /\ acked = {} /\ synced = {} /\ losses = 0
  /\ faulty = FALSE /\ events = 0

Event == events + writes < MaxEvents /\ events' = events + 1
Fails(call) == call \in Failing /\ Event /\ faulty' = TRUE

(***************************************************************************)
(* What is in the files.                                                   *)
(***************************************************************************)
\* VersionSet::Recover: the MANIFEST's edits, one after the other.
Tables(recs) ==
  {t \in UNION {recs[i].add : i \in DOMAIN recs} :
     \E i \in DOMAIN recs : t \in recs[i].add /\ \A j \in i..Len(recs) : t \notin recs[j].del}
\* The last edit that carries the counters: a snapshot does not.
Numbered(recs) == {i \in DOMAIN recs : recs[i].next # 0}
LastEdit(recs) == recs[CHOOSE i \in Numbered(recs) : \A j \in Numbered(recs) : j <= i]

\* mutant: the log that is being compacted is not needed any more
NewerLogs(n) == {l \in Numbers("log") : l > n}
LogsFrom(n) == {l \in Numbers("log") : l >= n}

\* CURRENT names a MANIFEST that can be read and whose tables are all there.
Intact ==
  LET f == Manifest(Dir.current)
  IN  /\ f \in Dir.names /\ Numbered(Recs(f)) # {}
      /\ \A t \in Tables(Recs(f)) : Table(t) \in Dir.names /\ Recs(Table(t)) # <<>>

EntriesOf(recs) == {recs[i] : i \in DOMAIN recs}
TableEntries(ts) == UNION {Recs(Table(t))[1] : t \in ts}

(***************************************************************************)
(* DB::Open until the MANIFEST has been read.                              *)
(***************************************************************************)
\* Without a CURRENT file NewDB makes the first MANIFEST.
Open ==
  /\ pc = "down"
  /\ IF Dir.current = 0
     THEN pc' = "create" /\ job' = "new" /\ manifestNo' = 1
     ELSE pc' = "recover" /\ UNCHANGED <<job, manifestNo>>
  /\ UNCHANGED <<diskVars, up, version, nextFile, logNo, lastSeq, descriptor, memVars,
                 openVars, workVars, writing, history, bounds>>

OpenFails == Forget /\ UNCHANGED history

\* VersionSet::Recover and the test for missing tables.  Whether a MANIFEST is
\* small enough to be reused is left open.
RecoverVersions ==
  /\ pc = "recover" /\ Intact
  /\ \E reuse \in {FALSE, ReuseLogs} :
       LET recs == Recs(Manifest(Dir.current))
           last == LastEdit(recs)
       IN  /\ version' = Tables(recs)
           /\ manifestNo' = IF reuse THEN Dir.current ELSE last.next
           /\ nextFile' = last.next + 1
           /\ logNo' = last.log /\ lastSeq' = last.seq
           /\ descriptor' = reuse /\ save' = ~reuse
           /\ logs' = LogsFrom(last.log)
           /\ pc' = IF logs' = {} THEN "replayed" ELSE "replay"
  /\ UNCHANGED <<diskVars, job, up, memVars, replay, maxSeq, workVars, writing, history, bounds>>

\* Recover returns Corruption, or an error of the file system.
RecoverFails ==
  /\ pc = "recover"
  /\ IF Intact THEN Fails("read") ELSE UNCHANGED bounds
  /\ OpenFails /\ UNCHANGED diskVars

(***************************************************************************)
(* RecoverLogFile, for one log after the other.                            *)
(***************************************************************************)
OldestLog == CHOOSE n \in logs : \A m \in logs : n <= m

Greatest(numbers) == CHOOSE n \in numbers : \A m \in numbers : m <= n

ReadLog ==
  /\ pc = "replay"
  /\ LET recs == Recs(Log(OldestLog))
     IN  /\ replay' = [left |-> recs, cut |-> FALSE]
         /\ maxSeq' = Greatest({recs[i].seq : i \in DOMAIN recs} \cup {maxSeq})
  /\ pc' = "replaying"
  /\ UNCHANGED <<diskVars, job, up, versionVars, memVars, logs, save, workVars, writing,
                 history, bounds>>

\* WriteLevel0Table up to BuildTable's NewWritableFile.
NewTable(entries) ==
  /\ table' = [no |-> nextFile, entries |-> entries]
  /\ nextFile' = nextFile + 1
  /\ pending' = pending \cup {nextFile}
  /\ NewWritableFile(Table(nextFile), <<>>)
  /\ pc' = "build"

\* The memtable is full, or the log has ended.
ReplayTable ==
  /\ pc = "replaying"
  /\ \E k \in 1..Len(replay.left) :
       /\ NewTable(EntriesOf(SubSeq(replay.left, 1, k)))
       /\ replay' = [left |-> SubSeq(replay.left, k + 1, Len(replay.left)), cut |-> TRUE]
  /\ job' = "open" /\ save' = TRUE
  /\ UNCHANGED <<up, version, manifestNo, logNo, lastSeq, descriptor, mem, imm, logFileNo,
                 bgError, logs, maxSeq, edit, inputs, output, garbage, writing, history, bounds>>

\* mutant: the numbers of replayed logs are not marked
NotMarked(n) == nextFile
\* MarkFileNumberUsed.
MarkFileNumberUsed(n) == IF nextFile <= n THEN n + 1 ELSE nextFile

\* With reuse_logs the last log goes on being used, unless a table was made of it.
ReplayDone ==
  /\ pc = "replaying"
  /\ LET n == OldestLog
         reuse == ReuseLogs /\ logs = {n} /\ ~replay.cut
     IN  /\ replay.left = <<>> \/ reuse
         /\ mem' = IF reuse THEN EntriesOf(replay.left) ELSE {}
         /\ logFileNo' = IF reuse THEN n ELSE 0
         /\ nextFile' = MarkFileNumberUsed(n)
         /\ logs' = logs \ {n}
  /\ replay' = NoReplay
  /\ pc' = IF logs' = {} THEN "replayed" ELSE "replay"
  /\ UNCHANGED <<diskVars, job, up, version, manifestNo, logNo, lastSeq, descriptor, imm,
                 bgError, pending, maxSeq, save, workVars, writing, history, bounds>>

(***************************************************************************)
(* RemoveObsoleteFiles makes its list under the mutex, which is held since *)
(* the version was installed, and removes the files without it.            *)
(***************************************************************************)
\* mutant: files being written are not protected
LiveVersionOnly == version'
Live == version' \cup pending'

Obsolete ==
  {Log(n) : n \in {n \in Numbers("log") : n < logNo'}} \cup
  {Manifest(n) : n \in {n \in Numbers("manifest") : n < manifestNo}} \cup
  {Table(n) : n \in Numbers("table") \ Live} \cup
  {Temp(n) : n \in Numbers("temp") \ Live}

RemoveObsoleteFiles ==
  /\ garbage' = IF bgError THEN {} ELSE Obsolete
  /\ edit' = NoEdit
  /\ pc' = "delete"

\* One file after the other, in some order of the directory.  An error of
\* RemoveFile is ignored.
DeleteFile ==
  /\ pc = "delete" /\ garbage # {}
  /\ LET f == CHOOSE f \in garbage : TRUE IN
       /\ garbage' = garbage \ {f}
       /\ \/ RemoveFile(f) /\ UNCHANGED bounds
          \/ Fails("remove") /\ UNCHANGED diskVars
  /\ UNCHANGED <<pc, job, up, versionVars, memVars, openVars, table, edit, inputs, output,
                 writing, history>>

\* Where the thread goes on when a flush is over: in the compaction that it
\* interrupted, or nowhere.
Resume == IF inputs # {} THEN "merge" ELSE "idle"

\* At the end of an open, DB::Open returns.
Collected ==
  /\ pc = "delete" /\ garbage = {}
  /\ up' = TRUE
  /\ pc' = Resume /\ job' = "none"
  /\ logs' = {} /\ replay' = NoReplay /\ maxSeq' = 0 /\ save' = FALSE
  /\ edit' = NoEdit
  /\ UNCHANGED <<diskVars, versionVars, memVars, table, inputs, output, garbage, writing,
                 history, bounds>>

(***************************************************************************)
(* The end of DB::Open.                                                    *)
(***************************************************************************)
\* mutant: the MANIFEST's sequence number is taken
LoggedSequence == lastSeq
\* SetLastSequence(max_sequence), if it is greater.
RecoveredSequence == Greatest({lastSeq, maxSeq})

\* The rest of DB::Open: a new log unless the last one is reused, and a new
\* MANIFEST record if there is something to save.
OpenLog ==
  /\ pc = "replayed"
  /\ lastSeq' = RecoveredSequence
  /\ IF logFileNo # 0
     THEN UNCHANGED <<diskVars, nextFile, logFileNo>>
     ELSE /\ NewWritableFile(Log(nextFile), <<>>)
          /\ logFileNo' = nextFile /\ nextFile' = nextFile + 1
  /\ job' = "open"
  /\ UNCHANGED <<up, version, manifestNo, logNo, descriptor, mem, imm, bgError, pending,
                 openVars, table, inputs, output, writing, history, bounds>>
  /\ IF save THEN pc' = "apply" /\ UNCHANGED <<edit, garbage>> ELSE RemoveObsoleteFiles

OpenLogFails ==
  /\ pc = "replayed" /\ logFileNo = 0 /\ Fails("newlog")
  /\ OpenFails /\ UNCHANGED diskVars

(***************************************************************************)
(* WriteLevel0Table, for a log that is replayed or for imm_.               *)
(***************************************************************************)
\* BuildTable is done; the table goes into the edit.
TableBuilt ==
  /\ pc = "build"
  /\ SyncFile(Table(table.no), <<table.entries>>)
  /\ pending' = pending \ {table.no}
  /\ edit' = [edit EXCEPT !.add = @ \cup {table.no}]
  /\ table' = NoTable
  /\ pc' = IF up THEN "apply" ELSE "replaying"
  /\ UNCHANGED <<job, up, versionVars, mem, imm, logFileNo, bgError, openVars, inputs, output,
                 garbage, writing, history, bounds>>

\* A background job has failed.
RecordBackgroundError ==
  /\ bgError' = TRUE
  /\ edit' = NoEdit /\ table' = NoTable
  /\ IF job = "flush"
     THEN pc' = Resume /\ UNCHANGED <<inputs, output>>
     ELSE pc' = "idle" /\ inputs' = {} /\ output' = 0
  /\ UNCHANGED <<up, version, nextFile, manifestNo, logNo, lastSeq, mem, imm, logFileNo,
                 openVars, garbage, writing, history>>

TableFails ==
  /\ pc = "build" /\ Fails("table")
  /\ RemoveFile(Table(table.no))
  /\ IF up
     THEN /\ RecordBackgroundError /\ pending' = pending \ {table.no}
          /\ UNCHANGED <<job, descriptor>>
     ELSE OpenFails

(***************************************************************************)
(* The background thread.  Its first test is for bg_error_; inside a       *)
(* compaction imm_ is flushed without one.                                 *)
(***************************************************************************)
BeginFlush ==
  /\ up /\ imm # {}
  /\ \/ pc = "idle" /\ ~bgError
     \/ pc = "merge"
  /\ NewTable(imm)
  /\ job' = "flush"
  /\ UNCHANGED <<up, version, manifestNo, logNo, lastSeq, descriptor, mem, imm, logFileNo,
                 bgError, openVars, edit, inputs, output, garbage, writing, history, bounds>>

BeginCompaction ==
  /\ up /\ pc = "idle" /\ ~bgError /\ imm = {}
  /\ inputs' \in (SUBSET version) \ {{}}
  /\ pc' = "merge"
  /\ Event
  /\ UNCHANGED <<diskVars, job, up, versionVars, memVars, openVars, table, edit, output,
                 garbage, writing, history, faulty>>

OpenOutput ==
  /\ pc = "merge" /\ output = 0
  /\ output' = nextFile /\ nextFile' = nextFile + 1
  /\ pending' = pending \cup {nextFile}
  /\ NewWritableFile(Table(nextFile), <<>>)
  /\ UNCHANGED <<pc, job, up, version, manifestNo, logNo, lastSeq, descriptor, mem, imm,
                 logFileNo, bgError, openVars, table, edit, inputs, garbage, writing, history,
                 bounds>>

FinishOutput ==
  /\ pc = "merge" /\ output # 0
  /\ SyncFile(Table(output), <<TableEntries(inputs)>>)
  /\ job' = "merge"
  /\ edit' = [NoEdit EXCEPT !.add = {output}, !.del = inputs]
  /\ pc' = "apply"
  /\ UNCHANGED <<up, versionVars, memVars, openVars, table, inputs, output, garbage, writing,
                 history, bounds>>

\* The output stays where it is; CleanupCompaction forgets its number.
OutputFails ==
  /\ pc = "merge" /\ output # 0 /\ Fails("table")
  /\ bgError' = TRUE
  /\ pending' = pending \ {output}
  /\ pc' = "idle" /\ inputs' = {} /\ output' = 0
  /\ UNCHANGED <<diskVars, job, up, versionVars, mem, imm, logFileNo, openVars, table, edit,
                 garbage, writing, history>>

(***************************************************************************)
(* LogAndApply.  The edit takes the counters as they are now; the mutex is *)
(* released until the new version is installed.                            *)
(***************************************************************************)
\* mutant: a flush does not release the old log
OldLog == logNo
\* SetLogNumber: after an open or a flush the earlier logs are not needed.
EditLogNumber == IF job = "merge" THEN logNo ELSE logFileNo

\* NewDB's MANIFEST has one record, another new one begins with a snapshot.
FirstEdit == [NoEdit EXCEPT !.next = 2]
Snapshot == [NoEdit EXCEPT !.add = version]

\* NewDB.
CreateDB ==
  /\ pc = "create"
  /\ NewWritableFile(Manifest(manifestNo), <<>>)
  /\ edit' = FirstEdit
  /\ pc' = "append"
  /\ UNCHANGED <<job, up, versionVars, memVars, openVars, table, inputs, output, garbage,
                 writing, history, bounds>>

\* The mutex is held up to here.
LogAndApply ==
  /\ pc = "apply"
  /\ edit' = [edit EXCEPT !.log = EditLogNumber, !.next = nextFile, !.seq = lastSeq]
  /\ IF descriptor
     THEN UNCHANGED diskVars
     ELSE NewWritableFile(Manifest(manifestNo), <<Snapshot>>)
  /\ descriptor' = TRUE
  /\ pc' = "append"
  /\ UNCHANGED <<job, up, version, nextFile, manifestNo, logNo, lastSeq, memVars, openVars,
                 table, inputs, output, garbage, writing, history, bounds>>

AppendEdit ==
  /\ pc = "append"
  /\ AppendRecord(Manifest(manifestNo), edit)
  /\ pc' = "sync"
  /\ UNCHANGED <<job, up, versionVars, memVars, openVars, workVars, writing, history, bounds>>

NewManifest == Dir.current # manifestNo

SyncManifest ==
  /\ pc = "sync"
  /\ SyncFile(Manifest(manifestNo), Recs(Manifest(manifestNo)))
  /\ pc' = IF NewManifest THEN "temp" ELSE "install"
  /\ UNCHANGED <<job, up, versionVars, memVars, openVars, workVars, writing, history, bounds>>

\* SetCurrentFile.
WriteTemp ==
  /\ pc = "temp"
  /\ WriteFileSync(Temp(manifestNo), manifestNo)
  /\ pc' = "rename"
  /\ UNCHANGED <<job, up, versionVars, memVars, openVars, workVars, writing, history, bounds>>

RenameTemp ==
  /\ pc = "rename"
  /\ SetCurrent(Temp(manifestNo), manifestNo)
  /\ IF job = "new" THEN pc' = "recover" /\ edit' = NoEdit
                    ELSE pc' = "install" /\ UNCHANGED edit
  /\ UNCHANGED <<job, up, versionVars, memVars, openVars, table, inputs, output, garbage,
                 writing, history, bounds>>

\* A new MANIFEST and its temporary file are removed, except that NewDB removes
\* its own only if writing it failed.
ApplyFails ==
  /\ LET less == Without(dirs, Temp(manifestNo))
     IN  dirs' = IF ~NewManifest \/ pc = "create" THEN dirs
                 ELSE IF job = "new" /\ pc \in {"temp", "rename"} THEN less
                 ELSE Without(less, Manifest(manifestNo))
  /\ UNCHANGED files
  /\ IF up
     THEN /\ RecordBackgroundError
          /\ pending' = IF job = "flush" THEN pending ELSE pending \ {output}
          /\ UNCHANGED <<job, descriptor>>
     ELSE OpenFails

ManifestFails ==
  /\ \/ pc \in {"create", "append", "sync"}
     \/ pc = "apply" /\ ~descriptor
  /\ Fails("manifest")
  /\ ApplyFails

CurrentFails ==
  /\ pc \in {"temp", "rename"} /\ Fails("current")
  /\ ApplyFails

Install ==
  /\ pc = "install"
  /\ version' = (version \ edit.del) \cup edit.add
  /\ logNo' = edit.log
  /\ IF job = "flush" THEN imm' = {} ELSE UNCHANGED imm
  /\ IF job = "merge"
     THEN pending' = pending \ {output} /\ inputs' = {} /\ output' = 0
     ELSE UNCHANGED <<pending, inputs, output>>
  /\ RemoveObsoleteFiles
  /\ UNCHANGED <<diskVars, job, up, nextFile, manifestNo, lastSeq, descriptor, mem, logFileNo,
                 bgError, openVars, table, writing, history, bounds>>

(***************************************************************************)
(* The writer: Write and the memtable switch of MakeRoomForWrite.          *)
(***************************************************************************)
\* BOUND: after the last of the counted events nothing new is begun.
Writable == up /\ ~bgError /\ writing = NotWriting /\ events + writes < MaxEvents

Entry(w) == [op |-> w.op, seq |-> w.seq]

BeginWrite(sync) ==
  /\ Writable /\ writes < MaxWrites
  /\ LET w == [op |-> writes + 1, seq |-> lastSeq + 1, sync |-> sync,
               at |-> IF sync THEN "sync" ELSE "insert"]
     IN  /\ AppendRecord(Log(logFileNo), Entry(w))
         /\ writing' = w
  /\ writes' = writes + 1
  /\ UNCHANGED <<pc, job, up, versionVars, memVars, openVars, workVars, acked, synced, losses,
                 bounds>>

\* AddRecord fails and has written nothing.
AppendFails ==
  /\ Writable /\ writes < MaxWrites /\ Fails("append")
  /\ writes' = writes + 1
  /\ lastSeq' = lastSeq + 1
  /\ UNCHANGED <<diskVars, pc, job, up, version, nextFile, manifestNo, logNo, descriptor, memVars,
                 openVars, workVars, writing, acked, synced, losses>>

SyncWrite ==
  /\ writing.at = "sync"
  /\ SyncFile(Log(logFileNo), Recs(Log(logFileNo)))
  /\ writing' = [writing EXCEPT !.at = "insert"]
  /\ UNCHANGED <<pc, job, up, versionVars, memVars, openVars, workVars, history, bounds>>

\* "The log record we just added may or may not show up when the DB is re-opened."
SyncFails ==
  /\ writing.at = "sync" /\ Fails("fsync")
  /\ bgError' = TRUE
  /\ lastSeq' = writing.seq
  /\ writing' = NotWriting
  /\ UNCHANGED <<diskVars, pc, job, up, version, nextFile, manifestNo, logNo, descriptor, mem, imm,
                 logFileNo, pending, openVars, workVars, history>>

FinishWrite ==
  /\ writing.at = "insert"
  /\ mem' = mem \cup {Entry(writing)}
  /\ lastSeq' = writing.seq
  /\ acked' = acked \cup {writing.op}
  /\ synced' = IF writing.sync THEN synced \cup {writing.op} ELSE synced
  /\ writing' = NotWriting
  /\ UNCHANGED <<diskVars, pc, job, up, version, nextFile, manifestNo, logNo, descriptor, imm,
                 logFileNo, bgError, pending, openVars, workVars, writes, losses, bounds>>

\* The old log file is closed, not synced.
SwitchMemTable ==
  /\ Writable /\ mem # {} /\ imm = {}
  /\ NewWritableFile(Log(nextFile), <<>>)
  /\ logFileNo' = nextFile /\ nextFile' = nextFile + 1
  /\ imm' = mem /\ mem' = {}
  /\ UNCHANGED <<pc, job, up, version, manifestNo, logNo, lastSeq, descriptor, bgError, pending,
                 openVars, workVars, writing, history, bounds>>

(***************************************************************************)
(* The process dies, or the machine does.                                  *)
(***************************************************************************)
Crash ==
  /\ Event
  /\ \/ pc # "down" /\ UNCHANGED <<diskVars, losses>>
     \/ PowerFails /\ losses' = losses + 1
  /\ Forget
  /\ UNCHANGED <<writes, acked, synced, faulty>>

Next ==
  \/ Open \/ RecoverVersions \/ RecoverFails
  \/ ReadLog \/ ReplayTable \/ ReplayDone \/ OpenLog \/ OpenLogFails
  \/ TableBuilt \/ TableFails
  \/ BeginFlush \/ BeginCompaction \/ OpenOutput \/ FinishOutput \/ OutputFails
  \/ CreateDB \/ LogAndApply \/ AppendEdit \/ SyncManifest \/ WriteTemp \/ RenameTemp
  \/ ManifestFails \/ CurrentFails \/ Install
  \/ DeleteFile \/ Collected
  \/ \E sync \in BOOLEAN : BeginWrite(sync)
  \/ AppendFails \/ SyncWrite \/ SyncFails \/ FinishWrite \/ SwitchMemTable
  \/ Crash

Spec == Init /\ [][Next]_vars

(***************************************************************************)
(* Properties.                                                             *)
(***************************************************************************)
Places == {"down", "create", "recover", "replay", "replaying", "replayed", "build", "apply",
           "append", "sync", "temp", "rename", "install", "delete", "idle", "merge"}
Numbering == 0..(nextFile + 1)

\* Types, and what the file numbers must be: NewFileNumber gives out no number of
\* a log or table that is there, also when the MANIFEST knows nothing of it, and a
\* table being written is not one of the version.
TypeOK ==
  /\ pc \in Places /\ job \in {"none", "new", "open", "flush", "merge"}
  /\ {up, descriptor, bgError, save, faulty} \subseteq BOOLEAN
  /\ nextFile \in Nat /\ {manifestNo, logNo, logFileNo, output} \subseteq Numbering
  /\ version \cup pending \cup inputs \cup edit.add \subseteq Numbering
  /\ writing.at \in {"idle", "sync", "insert"} /\ writes \in 0..MaxWrites
  /\ events \in 0..MaxEvents
  /\ \A f \in garbage : f[1] \in {"log", "table", "manifest", "temp"} /\ f[2] \in Nat
  /\ up => /\ Log(logFileNo) \in Dir.names
            /\ pending \cap version = {}
            /\ ~faulty => \A n \in Numbers("log") \cup Numbers("table") : n < nextFile

Entries ==
  IF up THEN mem \cup imm \cup TableEntries(version)
  ELSE IF Dir.current = 0 \/ ~Intact THEN {}
  ELSE LET recs == Recs(Manifest(Dir.current))
       IN  TableEntries(Tables(recs)) \cup
           UNION {EntriesOf(Recs(Log(n))) : n \in LogsFrom(LastEdit(recs).log)}

Ops == {e.op : e \in Entries}

\* What can be read, or could be after opening the database, is a store that
\* loses nothing acknowledged when the process dies and nothing synced when
\* the machine does, wherever it happens, also while opening.
Store == INSTANCE DurableStore WITH contents <- Ops
ImplementsDurableStore == Store!Spec

\* A crash anywhere leaves a database that opens: CURRENT names a MANIFEST
\* that is whole, and every table it lists is there.
CanOpen == pc = "down" => Dir.current = 0 \/ Intact

\* Sequence numbers are in the order of the writes, also across crashes that
\* lose some of the numbers.
SequenceOrder == \A d, e \in Entries : d.op < e.op => d.seq < e.seq

\* When the background thread rests, nothing is lost sight of: the directory has
\* the version's tables and no others, a log for each memtable, and no MANIFEST or
\* temporary file but the current one and those of attempts to open that were cut
\* short, whose numbers are still ahead or were taken again.
NothingLeftBehind ==
  up /\ pc = "idle" /\ ~faulty =>
    /\ Numbers("table") = version
    /\ \A n \in Numbers("log") \ {logFileNo} : imm = {} => Recs(Log(n)) = <<>>
    /\ manifestNo \in Numbers("manifest")
    /\ \A n \in Numbers("manifest") : n \in manifestNo..(nextFile - 1)
    /\ Numbers("temp") \subseteq version
==============================================================================
