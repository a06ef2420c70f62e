--------------------------- MODULE DurabilityProofs ---------------------------
(***************************************************************************)
(* Proofs about Durability without reuse_logs, for any number of writes,   *)
(* crashes, power failures and failing calls.                              *)
(*                                                                         *)
(* The inductive invariant is DiskInv, what the files say, and ProcessInv: *)
(* for each phase of opening and of the background work, where the         *)
(* entries are still to be found that the files have to keep.              *)
(***************************************************************************)
EXTENDS DiskProofs

(***************************************************************************)
(* Types.                                                                  *)
(***************************************************************************)
ProcessTyped ==
  /\ pc \in Places /\ job \in {"none", "new", "open", "flush", "merge"}
  /\ up \in BOOLEAN /\ descriptor \in BOOLEAN /\ bgError \in BOOLEAN /\ save \in BOOLEAN
  /\ version \in SUBSET Nat /\ pending \in SUBSET Nat /\ inputs \in SUBSET Nat
  /\ logs \in SUBSET Nat /\ garbage \in SUBSET FileNames
  /\ nextFile \in Nat /\ nextFile >= 2
  /\ manifestNo \in Nat /\ logNo \in Nat /\ lastSeq \in Nat
  /\ logFileNo \in Nat /\ output \in Nat /\ maxSeq \in Nat
  /\ mem \in SUBSET Update /\ imm \in SUBSET Update
  /\ table \in [no : Nat, entries : SUBSET Update]
  /\ edit \in VersionEdit
  /\ replay \in [left : Seq(Update), cut : BOOLEAN]
  /\ writing \in [op : Nat, seq : Nat, sync : BOOLEAN, at : {"idle", "sync", "insert"}]

HistoryTyped ==
  /\ writes \in 0..MaxWrites /\ events \in 0..MaxEvents /\ losses \in Nat /\ faulty \in BOOLEAN
  /\ synced \subseteq acked /\ acked \subseteq 1..writes

(***************************************************************************)
(* Where the thread is, and what it holds there.                           *)
(***************************************************************************)
Creating == ~up /\ job = "new" /\ pc \in {"create", "append", "sync", "temp", "rename"}
Saving == ~up /\ job = "open" /\ pc \in {"append", "sync", "temp", "rename"}
Opening ==
  \/ ~up /\ pc \in {"replay", "replaying", "build", "replayed"}
  \/ ~up /\ job = "open" /\ pc = "apply"
  \/ Saving
\* The MANIFEST of this session is the one that CURRENT names.
Serving == up \/ pc \in {"install", "delete"}
Applying == up /\ pc \in {"apply", "append", "sync", "install"}

PhaseInv ==
  /\ up => pc \in {"idle", "merge", "build", "delete"} \/ Applying
  /\ up /\ pc = "build" => job = "flush" /\ table.entries = imm /\ imm # {}
  /\ Applying => job \in {"flush", "merge"}
  /\ ~up => \/ pc \in {"down", "recover"} \/ Creating \/ Opening
            \/ job = "open" /\ pc \in {"install", "delete"}
  /\ ~up => mem = {} /\ imm = {} /\ ~bgError /\ inputs = {} /\ output = 0 /\ writing = NotWriting
  /\ pc \in {"down", "recover"} \/ Creating =>
       /\ version = {} /\ ~descriptor /\ logFileNo = 0 /\ edit.add = {} /\ edit.del = {}
       /\ logs = {} /\ replay = NoReplay /\ maxSeq = 0
       /\ logNo = 0 /\ lastSeq = 0 /\ ~save /\ nextFile = 2 /\ manifestNo <= 1
  /\ pc \in {"down", "recover", "create", "delete", "idle", "merge"} => edit = NoEdit
  /\ up /\ pc = "build" => edit = NoEdit
  /\ pc = "recover" => Dir.current # 0
  /\ pc # "build" => table = NoTable
  /\ pc # "delete" => garbage = {}
  /\ pc = "merge" => inputs # {}
  /\ pc = "idle" => inputs = {}
  /\ output # 0 => inputs # {}
  /\ pending = (IF pc = "build" THEN {table.no} ELSE {})
               \cup (IF output # 0 THEN {output} ELSE {})

\* A table that is being written is in nobody's view.
Fresh(t) ==
  t < nextFile /\ t # 0 /\ t \notin version \cup edit.add \cup InUse /\ Table(t) \in Dir.names
FreshInv ==
  /\ pc = "build" => Fresh(table.no) /\ table.no # output
  /\ output # 0 /\ ~(Applying /\ job = "merge") => Fresh(output)

\* NewDB: the MANIFEST that is being written.
CreateInv ==
  Creating =>
    /\ Dir.current = 0 /\ manifestNo = 1
    /\ pc # "create" => edit = FirstEdit /\ Manifest(1) \in Dir.names
    /\ pc = "append" => Recs(Manifest(1)) = <<>>
    /\ pc \in {"sync", "temp", "rename"} => Recs(Manifest(1)) = <<FirstEdit>>
    /\ pc \in {"temp", "rename"} => files[Manifest(1)].durable = 1

(***************************************************************************)
(* While the database is opened.                                           *)
(***************************************************************************)
\* An edit that has its counters, and those of LogAndApply.
EditCounters ==
  /\ manifestNo < edit.next /\ edit.next <= nextFile
  /\ edit.log < edit.next /\ Final.next <= edit.next /\ edit.seq <= lastSeq
  /\ \A t \in edit.add : t < edit.next
  /\ \A e \in TableEntries(Final.tables) \cup TableEntries(edit.add) : e.seq <= edit.seq

RecoveredInv ==
  Opening =>
    /\ Dir.current # 0 /\ version = Final.tables /\ logNo = Final.log
    /\ Final.seq <= lastSeq /\ lastSeq <= writes /\ maxSeq <= writes
    /\ Final.next <= manifestNo /\ manifestNo < nextFile
    /\ \A d \in Dirs : d.current < manifestNo
    /\ save /\ edit.del = {} /\ (descriptor <=> Saving)
    /\ \A t \in edit.add : /\ t < nextFile /\ Table(t) \in Dir.names /\ Whole(t)
                           /\ t \notin version \cup InUse
    /\ TableEntries(edit.add) \subseteq Full

\* What is left of the log, or is in the table that is being made of it.
Replaying == table.entries \cup EntriesOf(replay.left)

ReplayInv ==
  Opening =>
    /\ logs \subseteq LogsFor(Dir, logNo)
    /\ \A l \in LogsFor(Dir, logNo) \ logs :
         /\ l < nextFile \/ l = logFileNo
         /\ LogEntries(l) \subseteq TableEntries(edit.add)
         /\ \A e \in LogEntries(l) : e.seq <= maxSeq
    /\ pc \in {"replay", "replaying", "build"} => logs # {} /\ logFileNo = 0
    /\ pc \in {"replaying", "build"} =>
         /\ LogEntries(OldestLog) \subseteq TableEntries(edit.add) \cup Replaying
         /\ Replaying \subseteq LogEntries(OldestLog)
         /\ \A e \in LogEntries(OldestLog) : e.seq <= maxSeq
    /\ pc \notin {"replaying", "build"} => replay.left = <<>>
    /\ pc = "replayed" => logs = {} /\ logFileNo = 0

SaveInv ==
  /\ Saving \/ (~up /\ job = "open" /\ pc = "apply") =>
       /\ logs = {} /\ logNo <= logFileNo /\ logFileNo < nextFile /\ Log(logFileNo) \in Dir.names
       /\ LogEntries(logFileNo) = {}
       /\ \A l \in Nat : Log(l) \in Reachable(dirs) => l <= logFileNo
       /\ \A e \in Full : e.seq <= lastSeq
  /\ Saving =>
       /\ edit.log = logFileNo /\ EditCounters /\ Manifest(manifestNo) \in Dir.names
       /\ pc = "append" => Recs(Manifest(manifestNo)) = <<Snapshot>>
       /\ pc # "append" => Recs(Manifest(manifestNo)) = <<Snapshot, edit>>
       /\ pc \in {"temp", "rename"} => files[Manifest(manifestNo)].durable = 2

(***************************************************************************)
(* While the database is served, and at the end of the open.               *)
(***************************************************************************)
\* The edit is the last one of the MANIFEST.
Recorded == pc \in {"sync", "install"}
Target == IF Recorded THEN (version \ edit.del) \cup edit.add ELSE version
TargetLog == IF Recorded THEN edit.log ELSE logNo
\* What the open's only edit has brought.
Brought == IF ~up /\ pc = "install" THEN TableEntries(edit.add) ELSE {}

ManifestInv ==
  Serving =>
    /\ Dir.current # 0 /\ Dir.current = manifestNo /\ descriptor
    /\ \A v \in Views(manifestNo) : /\ logNo <= v.log /\ v.log <= logFileNo
                                    /\ v.next <= nextFile /\ v.seq <= lastSeq
    /\ lastSeq <= writes
    /\ ~bgError => Final.tables = Target /\ Final.log = TargetLog
    /\ TableEntries(version) \subseteq TableEntries(Final.tables)
    /\ TableEntries(Final.tables) \subseteq TableEntries(version) \cup imm \cup Brought
    /\ Recorded => /\ Final.log = edit.log
                   /\ TableEntries(edit.add) \subseteq TableEntries(Final.tables)
    /\ pc = "install" => Views(manifestNo) = {Final}

LogInv ==
  Serving =>
    /\ logFileNo < nextFile /\ Log(logFileNo) \in Dir.names
    /\ \A l \in Nat : Log(l) \in Reachable(dirs) =>
         l <= logFileNo /\ (Log(l) \notin Dir.names => l < logNo)
    /\ imm \subseteq Full /\ mem \subseteq LogEntries(logFileNo)
    /\ \A l \in LogsFor(Dir, logNo) \ {logFileNo} :
         LogEntries(l) \subseteq TableEntries(version) \cup imm \cup Brought
    /\ \A e \in LogEntries(logFileNo) :
         \/ e \in mem
         \/ writing.op # 0 /\ e = Entry(writing)
         \/ bgError /\ e.op \notin acked /\ e.op # writing.op
    /\ \A e \in mem \cup imm \cup TableEntries(Final.tables) : e.seq <= lastSeq
    /\ \A e \in LogEntries(logFileNo) :
         e.seq <= lastSeq \/ (writing.op # 0 /\ e = Entry(writing))

VersionInv ==
  Serving =>
    /\ inputs \subseteq version
    /\ \A t \in version : t < nextFile /\ Table(t) \in Dir.names /\ Whole(t)
    /\ \A f \in garbage : /\ f # Manifest(manifestNo)
                          /\ \A t \in version : f # Table(t)
                          /\ \A v \in Views(manifestNo) : \A t \in v.tables : f # Table(t)
                          /\ \A l \in Nat : f = Log(l) => l < logNo

ApplyInv ==
  /\ Applying \/ pc = "install" =>
       \A t \in edit.add : /\ t < nextFile /\ t \notin version /\ Whole(t)
                           /\ Table(t) \in Dir.names
  /\ Applying =>
       \A d \in Dirs : d.current = manifestNo /\ \A t \in edit.add : Table(t) \in d.names
  /\ Applying /\ job = "flush" => imm # {} /\ TableEntries(edit.add) = imm /\ edit.del = {}
  /\ Applying /\ job = "merge" =>
       /\ edit.add = {output} /\ output # 0 /\ edit.del = inputs /\ output \notin inputs
       /\ TableEntries(edit.add) = TableEntries(inputs)
  /\ Applying /\ pc # "apply" => edit.log = (IF job = "merge" THEN logNo ELSE logFileNo)
  /\ Applying /\ pc = "append" => EditCounters
  /\ ~up /\ pc = "install" => edit.del = {} /\ edit.log = logFileNo

WriteInv ==
  IF writing.at = "idle" THEN writing = NotWriting
  ELSE /\ up /\ writing.op = writes /\ writing.op # 0 /\ writing.op \notin acked
       /\ writing.seq = lastSeq + 1 /\ writing.seq <= writing.op
       /\ Entry(writing) \in LogEntries(logFileNo)
       /\ writing.at = "insert" /\ writing.sync =>
            /\ \A d \in Dirs : d.current = manifestNo /\ Log(logFileNo) \in d.names
            /\ Entry(writing) \in SafeEntries(logFileNo)
       /\ writing.at = "sync" => writing.sync

\* Without a failing call no table is left that a new number may meet.
NumbersInv ==
  ~faulty /\ (up \/ pc = "delete") =>
    \A t \in Nat : Table(t) \in Dir.names => t < nextFile \/ (Table(t) \in garbage /\ ~up)

\* No file that is still being written is removed.
GarbageInv == pc = "delete" => \A f \in garbage : \A t \in pending : f # Table(t)

ProcessInv ==
  /\ GarbageInv /\ ProcessTyped /\ HistoryTyped /\ PhaseInv /\ FreshInv /\ CreateInv
  /\ RecoveredInv /\ ReplayInv /\ SaveInv
  /\ ManifestInv /\ LogInv /\ VersionInv /\ ApplyInv /\ WriteInv /\ NumbersInv
IInv == DiskInv /\ ProcessInv
(***************************************************************************)
(* Steps of the disk that touch no table of the version or of the edit,    *)
(* and, those that are Still, no log.                                      *)
(***************************************************************************)
Calm(X, Y) ==
  /\ Frame(X, Y) /\ Harmless(X, Y) /\ DiskTyped'
  /\ \A t \in version \cup edit.add : Table(t) \notin X \cup Y
Still(X, Y) == Calm(X, Y) /\ \A l \in Nat : Log(l) \notin X \cup Y
\* No log that is needed.
Steady(X, Y) == Calm(X, Y) /\ \A l \in Nat : l >= logNo => Log(l) \notin X \cup Y

LEMMA FinalFacts ==
  ASSUME IInv, Dir.current # 0
  PROVE  /\ Final \in Views(Dir.current) /\ Final \in ViewType /\ Sound(Dir, Final)
         /\ Full = Says(Dir, Final)
         /\ \A v \in Views(Dir.current) : v \in ViewType /\ Sound(Dir, v)
<1>1. DiskTyped /\ Dir \in Dirs /\ DirInv(Dir)
  BY DirFacts DEF IInv, DiskInv
<1>2. /\ View(Recs(Manifest(Dir.current))) \in Views(Dir.current)
      /\ \A v \in Views(Dir.current) : v \in ViewType /\ Sound(Dir, v)
  BY <1>1, DirOpen
<1>3. QED  BY <1>2 DEF Final, Full

LEMMA Typed ==
  ASSUME IInv
  PROVE  /\ DiskTyped /\ FilesTyped /\ Dir \in Dirs /\ Dir \in Directory
         /\ \A d \in Dirs : d.names \subseteq Reachable(dirs) /\ DirInv(d)
         /\ Reachable(dirs) \subseteq DOMAIN files
         /\ ProcessTyped /\ HistoryTyped
BY DirFacts DEF IInv, DiskInv, ProcessInv

LEMMA Present ==
  ASSUME IInv
  PROVE  \A t \in version \cup edit.add : Table(t) \in Dir.names /\ Whole(t) /\ t < nextFile
<1>1. ProcessTyped /\ PhaseInv /\ RecoveredInv /\ VersionInv /\ ApplyInv
  BY DEF IInv, ProcessInv
<1>2. CASE Serving
  <2>1. edit.add = {} \/ Applying \/ pc = "install"
    BY <1>1, <1>2 DEF PhaseInv, Serving, NoEdit
  <2>2. QED  BY <1>1, <1>2, <2>1 DEF VersionInv, ApplyInv
<1>3. CASE Opening
  <2>1. Dir.current # 0 /\ version = Final.tables /\ Final.next <= manifestNo /\ manifestNo < nextFile
    BY <1>1, <1>3 DEF RecoveredInv
  <2>2. Sound(Dir, Final) /\ Final \in ViewType
    BY <2>1, FinalFacts
  <2>3. \A t \in version : t \in Nat /\ Table(t) \in Dir.names /\ Whole(t) /\ t < Final.next
    BY <1>1, <2>1, <2>2 DEF Sound, ProcessTyped
  <2>4. Final.next \in Nat /\ manifestNo \in Nat /\ nextFile \in Nat
    BY <1>1, <2>2 DEF ViewType, ProcessTyped
  <2>5. \A t \in version : t < nextFile
    BY <2>1, <2>3, <2>4
  <2>6. QED  BY <1>1, <1>3, <2>3, <2>5 DEF RecoveredInv
<1>4. CASE ~Serving /\ ~Opening
  <2>1. pc \in {"down", "recover"} \/ Creating
    BY <1>1, <1>4 DEF PhaseInv, Serving
  <2>2. QED  BY <1>1, <2>1 DEF PhaseInv
<1>5. QED  BY <1>2, <1>3, <1>4

LEMMA KeptTables ==
  ASSUME IInv, NEW X, NEW Y, DiskTyped', Frame(X, Y),
         \A t \in version \cup edit.add : Table(t) \notin X \cup Y
  PROVE  /\ \A T : T \subseteq version \cup edit.add => TableEntries(T)' = TableEntries(T)
         /\ \A t \in version \cup edit.add : Table(t) \in Dir'.names /\ Whole(t)'
<1>1. DiskTyped /\ Dir'.names \ X = Dir.names \ X
  BY Typed DEF Frame
<1>2. Dir' \in Dirs' /\ \A d \in Dirs' : d.names \subseteq DOMAIN files'
  BY NextDirs
<1>3. ASSUME NEW t \in version \cup edit.add PROVE Table(t) \in Dir'.names /\ Whole(t)'
  <2>1. Table(t) \in Dir.names /\ Whole(t) /\ Table(t) \notin X /\ Table(t) \notin Y
    BY Present
  <2>2. Table(t) \in Dir'.names
    BY <1>1, <2>1
  <2>3. QED  BY <1>1, <1>2, <2>1, <2>2, FrameWhole
<1>4. ASSUME NEW T, T \subseteq version \cup edit.add PROVE TableEntries(T)' = TableEntries(T)
  <2>1. \A t \in T : Table(t) \in DOMAIN files' \ Y
    BY <1>2, <1>3, <1>4
  <2>2. QED  BY <2>1, FrameTables
<1>5. QED  BY <1>3, <1>4

LEMMA KeptLogs ==
  ASSUME IInv, NEW X, NEW Y, DiskTyped', Frame(X, Y), NEW l \in Nat, Log(l) \notin X \cup Y
  PROVE  /\ Log(l) \in Dir'.names <=> Log(l) \in Dir.names
         /\ Log(l) \in Reachable(dirs)' => Log(l) \in Reachable(dirs)
         /\ Log(l) \in Dir.names => /\ LogEntries(l)' = LogEntries(l)
                                    /\ SafeEntries(l) \subseteq SafeEntries(l)'
<1>1. DiskTyped /\ Dir'.names \ X = Dir.names \ X /\ Dir.names \subseteq Reachable(dirs)
  BY Typed DEF Frame
<1>2. /\ Dir' \in Dirs' /\ \A d \in Dirs' : d.names \subseteq DOMAIN files'
      /\ \A f : f \in Reachable(dirs)' <=> \E d \in Dirs' : f \in d.names
  BY NextDirs
<1>3. Log(l) \notin X /\ Log(l) \notin Y
  OBVIOUS
<1>4. Log(l) \in Dir'.names <=> Log(l) \in Dir.names
  BY <1>1, <1>3
<1>5. ASSUME Log(l) \in Reachable(dirs)' PROVE Log(l) \in Reachable(dirs)
  <2>1. PICK d \in Dirs' : Log(l) \in d.names
    BY <1>2, <1>5
  <2>2. d \in Dirs \/ d.names \ X = Dir.names \ X
    BY DEF Frame
  <2>3. QED  BY <1>1, <1>3, <2>1, <2>2, Typed
<1>6. ASSUME Log(l) \in Dir.names
      PROVE  LogEntries(l)' = LogEntries(l) /\ SafeEntries(l) \subseteq SafeEntries(l)'
  BY <1>1, <1>2, <1>3, <1>4, <1>6, FrameLogs
<1>7. QED  BY <1>4, <1>5, <1>6

LEMMA CalmFacts ==
  ASSUME IInv, NEW X, NEW Y, Calm(X, Y)
  PROVE  /\ Full' = Full /\ InUse' \subseteq InUse /\ Dir'.current = Dir.current
         /\ Dir.current # 0 => /\ Final' = Final /\ Views(Dir.current)' \subseteq Views(Dir.current)
                               /\ Final \in Views(Dir.current)'
                               /\ TableEntries(Final.tables)' = TableEntries(Final.tables)
         /\ \A T : T \subseteq version \cup edit.add => TableEntries(T)' = TableEntries(T)
         /\ \A t \in version \cup edit.add : Table(t) \in Dir'.names /\ Whole(t)'
         /\ \A d \in Dirs' : \/ d \in Dirs
                             \/ d.current = Dir.current /\ d.names \ X = Dir.names \ X
<1>1. /\ DiskInv /\ DiskTyped /\ DiskTyped' /\ Frame(X, Y) /\ Harmless(X, Y)
      /\ Dir.names \subseteq Reachable(dirs) /\ DirInv(Dir) /\ Dir \in Dirs
  BY Typed DEF Calm, IInv
<1>2. /\ Full' = Full /\ Dir'.current = Dir.current
      /\ Dir.current # 0 => /\ Final' = Final /\ Final \in Views(Dir.current)
                            /\ Views(Dir.current)' \subseteq Views(Dir.current)
  BY <1>1, FrameFull
<1>3. InUse' \subseteq InUse
  BY <1>1, FrameInUse
<1>4. /\ Dir' \in Dirs' /\ \A d \in Dirs' : d.names \subseteq DOMAIN files'
      /\ \A f : f \in Reachable(dirs)' <=> \E d \in Dirs' : f \in d.names
  BY <1>1, NextDirs
<1>5. Dir'.names \ X = Dir.names \ X
  BY <1>1 DEF Frame
<1>6. /\ \A T : T \subseteq version \cup edit.add => TableEntries(T)' = TableEntries(T)
      /\ \A t \in version \cup edit.add : Table(t) \in Dir'.names /\ Whole(t)'
  BY <1>1, KeptTables DEF Calm
<1>7. ASSUME Dir.current # 0
      PROVE  Final \in Views(Dir.current)' /\ TableEntries(Final.tables)' = TableEntries(Final.tables)
  <2>1. PICK k, v : k = Dir.current /\ v = Final
    OBVIOUS
  <2>2. v \in Views(k) /\ k # 0 /\ k = Dir.current
    BY <1>2, <1>7, <2>1
  <2>3. PICK d1 \in Dirs' : d1 = Dir'
    BY <1>4
  <2>4. Follows(d1, Dir, X)
    BY <1>1, <1>2, <1>5, <2>3 DEF Follows
  <2>5. TableEntries(v.tables)' = TableEntries(v.tables)
    BY <1>1, <2>2, <2>3, <2>4, FrameSays
  <2>6. HasCounters(k)' /\ Manifest(k) \in DOMAIN files'
    <3>1. Manifest(k) \in d1.names /\ HasCounters(k)'
      BY <1>1, <2>2, <2>3, <2>4, FrameCurrent
    <3>2. QED  BY <1>4, <3>1
  <2>7. View(Recs(Manifest(k)))' \in Views(k)'
    <3>1. FilesTyped'
      BY <1>1 DEF DiskTyped
    <3>2. files'[Manifest(k)].durable \in Nat /\ Len(Recs(Manifest(k))') \in Nat
          /\ files'[Manifest(k)].durable <= Len(Recs(Manifest(k))')
          /\ Recs(Manifest(k))' \in Seq(RecordsOf(Manifest(k)[1]))
      BY <2>6, <3>1 DEF FilesTyped, Recs
    <3>3. PICK recs : recs = Recs(Manifest(k))'
      OBVIOUS
    <3>4. SubSeq(recs, 1, Len(recs)) = recs
      BY <3>2, <3>3, SubSeqFull
    <3>5. View(recs) \in Views(k)'
      <4>1. Len(recs) \in files'[Manifest(k)].durable..Len(recs)
        BY <3>2, <3>3
      <4>2. View(SubSeq(recs, 1, Len(recs))) \in {View(SubSeq(recs, 1, n)) : n \in files'[Manifest(k)].durable..Len(recs)}
        BY <4>1
      <4>3. \A r : View(r)' = View(r)
        BY DEF View, Tables, LastEdit, Numbered
      <4>4. Views(k)' = {View(SubSeq(recs, 1, n)) : n \in files'[Manifest(k)].durable..Len(recs)}
        BY <3>3, <4>3 DEF Views, ViewOf, Manifest
      <4>5. QED  BY <3>4, <4>2, <4>4
    <3>6. View(Recs(Manifest(k)))' = View(recs)
      <4>1. \A r : View(r)' = View(r)
        BY DEF View, Tables, LastEdit, Numbered
      <4>2. QED  BY <3>3, <4>1
    <3>7. QED  BY <3>5, <3>6
  <2>8. Final' = View(Recs(Manifest(k)))'
    BY <1>2, <2>1, <2>2 DEF Final
  <2>9. v \in Views(k)'
    BY <1>2, <1>7, <2>1, <2>7, <2>8
  <2>10. Views(k)' = Views(Dir.current)'
    BY <1>2, <2>1
  <2>11. QED  BY <1>2, <1>7, <2>1, <2>5, <2>9, <2>10
<1>8. \A d \in Dirs' : d \in Dirs \/ (d.current = Dir.current /\ d.names \ X = Dir.names \ X)
  BY <1>1 DEF Frame
<1>9. QED  BY <1>2, <1>3, <1>6, <1>7, <1>8

\* What steps keep that may also append to a log.
Firm(X) ==
  /\ InUse' \subseteq InUse /\ Dir'.current = Dir.current /\ Dir'.names \ X = Dir.names \ X
  /\ Dir.current # 0 => /\ Final' = Final /\ Views(Dir.current)' \subseteq Views(Dir.current)
                        /\ Final \in Views(Dir.current)'
                        /\ TableEntries(Final.tables)' = TableEntries(Final.tables)
  /\ \A T : T \subseteq version \cup edit.add => TableEntries(T)' = TableEntries(T)
  /\ \A t \in version \cup edit.add : Table(t) \in Dir'.names /\ Whole(t)' /\ Table(t) \notin X
  /\ \A d \in Dirs' : d \in Dirs \/ (d.current = Dir.current /\ d.names \ X = Dir.names \ X)

LEMMA CalmFirm ==
  ASSUME IInv, NEW X, NEW Y, Calm(X, Y)
  PROVE  Firm(X)
<1>1. Dir'.names \ X = Dir.names \ X /\ \A t \in version \cup edit.add : Table(t) \notin X
  BY DEF Calm, Frame
<1>2. QED  BY <1>1, CalmFacts DEF Firm

LEMMA StillFacts ==
  ASSUME IInv, NEW X, NEW Y, Still(X, Y)
  PROVE  /\ Full' = Full /\ InUse' \subseteq InUse /\ Dir'.current = Dir.current
         /\ Dir.current # 0 => /\ Final' = Final /\ Views(Dir.current)' \subseteq Views(Dir.current)
                               /\ Final \in Views(Dir.current)'
                               /\ TableEntries(Final.tables)' = TableEntries(Final.tables)
         /\ \A T : T \subseteq version \cup edit.add => TableEntries(T)' = TableEntries(T)
         /\ \A t \in version \cup edit.add : Table(t) \in Dir'.names /\ Whole(t)'
         /\ \A l \in Nat : /\ Log(l) \in Dir'.names <=> Log(l) \in Dir.names
                           /\ Log(l) \in Reachable(dirs)' => Log(l) \in Reachable(dirs)
                           /\ Log(l) \in Dir.names => /\ LogEntries(l)' = LogEntries(l)
                                                      /\ SafeEntries(l) \subseteq SafeEntries(l)'
         /\ \A n : LogsFor(Dir, n)' = LogsFor(Dir, n)
         /\ \A d \in Dirs' : \/ d \in Dirs
                             \/ d.current = Dir.current /\ d.names \ X = Dir.names \ X
<1>1. /\ Calm(X, Y) /\ DiskTyped' /\ Frame(X, Y)
      /\ \A l \in Nat : Log(l) \notin X \cup Y
  BY DEF Still, Calm
<1>2. \A l \in Nat : /\ Log(l) \in Dir'.names <=> Log(l) \in Dir.names
                     /\ Log(l) \in Reachable(dirs)' => Log(l) \in Reachable(dirs)
                     /\ Log(l) \in Dir.names => /\ LogEntries(l)' = LogEntries(l)
                                                /\ SafeEntries(l) \subseteq SafeEntries(l)'
  BY <1>1, KeptLogs
<1>3. \A n : LogsFor(Dir, n)' = LogsFor(Dir, n)
  BY <1>2 DEF LogsFor, Log
<1>4. QED  BY <1>1, <1>2, <1>3, CalmFacts
LEMMA StillSteady ==
  ASSUME NEW X, NEW Y, Still(X, Y)
  PROVE  Steady(X, Y)
BY DEF Still, Steady

LEMMA SteadyFacts ==
  ASSUME IInv, NEW X, NEW Y, Steady(X, Y)
  PROVE  /\ \A l \in Nat : l >= logNo =>
              /\ Log(l) \in Dir'.names <=> Log(l) \in Dir.names
              /\ Log(l) \in Reachable(dirs)' => Log(l) \in Reachable(dirs)
              /\ Log(l) \in Dir.names => /\ LogEntries(l)' = LogEntries(l)
                                         /\ SafeEntries(l) \subseteq SafeEntries(l)'
         /\ LogsFor(Dir', logNo) = LogsFor(Dir, logNo)
<1>1. /\ Calm(X, Y) /\ DiskTyped' /\ Frame(X, Y)
      /\ \A l \in Nat : l >= logNo => Log(l) \notin X \cup Y
  BY DEF Steady, Calm
<1>2. \A l \in Nat : l >= logNo =>
        /\ Log(l) \in Dir'.names <=> Log(l) \in Dir.names
        /\ Log(l) \in Reachable(dirs)' => Log(l) \in Reachable(dirs)
        /\ Log(l) \in Dir.names => /\ LogEntries(l)' = LogEntries(l)
                                   /\ SafeEntries(l) \subseteq SafeEntries(l)'
  BY <1>1, KeptLogs
<1>3. LogsFor(Dir', logNo) = LogsFor(Dir, logNo)
  BY <1>2 DEF LogsFor, Log
<1>4. QED  BY <1>2, <1>3
(***************************************************************************)
(* What such steps keep, if they leave the process's state as it is where  *)
(* it matters.                                                             *)
(***************************************************************************)
LEMMA KeepFresh ==
  ASSUME IInv, NEW X, Firm(X), NEW t \in Nat, Fresh(t), Table(t) \notin X,
         t \notin version' \cup edit'.add, nextFile' \in Nat, nextFile' >= nextFile
  PROVE  Fresh(t)'
<1>1. InUse' \subseteq InUse
  BY DEF Firm
<1>2. Dir'.names \ X = Dir.names \ X
  BY DEF Firm
<1>3. nextFile \in Nat
  BY Typed DEF ProcessTyped
<1>4. t < nextFile'
  BY <1>3 DEF Fresh
<1>5. Table(t) \in Dir'.names
  BY <1>2 DEF Fresh
<1>6. QED  BY <1>1, <1>4, <1>5 DEF Fresh, Table

LEMMA KeepRecovered ==
  ASSUME IInv, NEW X, NEW Y, Calm(X, Y), Opening,
         UNCHANGED <<version, logNo, manifestNo, writes>>,
         lastSeq' \in Nat, lastSeq <= lastSeq', lastSeq' <= writes, maxSeq' <= writes,
         nextFile' \in Nat, nextFile' >= nextFile, save', edit'.del = {}, edit'.add = edit.add,
         descriptor' <=> Saving'
  PROVE  RecoveredInv'
<1>1. RecoveredInv /\ ProcessTyped
  BY DEF IInv, ProcessInv
<1>2. /\ Dir.current # 0 /\ version = Final.tables /\ logNo = Final.log
      /\ Final.seq <= lastSeq /\ Final.next <= manifestNo /\ manifestNo < nextFile
      /\ \A d \in Dirs : d.current < manifestNo
      /\ \A t \in edit.add : t < nextFile /\ t \notin version \cup InUse
      /\ TableEntries(edit.add) \subseteq Full
  BY <1>1 DEF RecoveredInv
<1>3. /\ Full' = Full /\ InUse' \subseteq InUse /\ Dir'.current = Dir.current /\ Final' = Final
      /\ \A t \in version \cup edit.add : Table(t) \in Dir'.names /\ Whole(t)'
      /\ TableEntries(edit.add)' = TableEntries(edit.add)
      /\ \A d \in Dirs' : d \in Dirs \/ d.current = Dir.current
  BY <1>2, CalmFacts
<1>4. /\ Final \in ViewType /\ lastSeq \in Nat /\ nextFile \in Nat /\ manifestNo \in Nat
      /\ edit.add \subseteq Nat
  BY <1>1, <1>2, FinalFacts DEF ProcessTyped, VersionEdit
<1>5. Final.seq <= lastSeq' /\ manifestNo < nextFile'
  BY <1>2, <1>4 DEF ViewType
<1>6. \A d \in Dirs' : d.current < manifestNo
  BY <1>2, <1>3, Typed
<1>7. \A t \in edit.add : t < nextFile' /\ t \notin version \cup InUse'
  BY <1>2, <1>3, <1>4
<1>8. TableEntries(edit.add)' \subseteq Full'
  BY <1>2, <1>3
<1>9. QED  BY <1>2, <1>3, <1>5, <1>6, <1>7, <1>8 DEF RecoveredInv, Table

\* The entries of the logs are in the tables that the open has made.
LEMMA KeepSaved ==
  ASSUME IInv, NEW X, NEW Y, Still(X, Y), ~up, job = "open",
         pc \in {"apply", "append", "sync", "temp"}, pc' \notin {"replay", "replaying", "build", "replayed"},
         UNCHANGED <<logs, logNo, logFileNo, maxSeq, replay, lastSeq>>, edit'.add = edit.add,
         nextFile' \in Nat, nextFile' >= nextFile
  PROVE  /\ ReplayInv'
         /\ logs' = {} /\ logNo' <= logFileNo' /\ logFileNo' < nextFile' /\ Log(logFileNo') \in Dir'.names
         /\ LogEntries(logFileNo)' = {}
         /\ \A l \in Nat : Log(l) \in Reachable(dirs)' => l <= logFileNo'
         /\ \A e \in Full' : e.seq <= lastSeq'
<1>1. ReplayInv /\ SaveInv /\ ProcessTyped /\ Opening
  BY DEF IInv, ProcessInv, Opening, Saving
<1>2. /\ logs = {} /\ logNo <= logFileNo /\ logFileNo < nextFile /\ Log(logFileNo) \in Dir.names
      /\ LogEntries(logFileNo) = {}
      /\ \A l \in Nat : Log(l) \in Reachable(dirs) => l <= logFileNo
      /\ \A e \in Full : e.seq <= lastSeq
  BY <1>1 DEF SaveInv, Saving
<1>3. /\ Full' = Full
      /\ TableEntries(edit.add)' = TableEntries(edit.add)
      /\ \A l \in Nat : /\ Log(l) \in Dir'.names <=> Log(l) \in Dir.names
                        /\ Log(l) \in Reachable(dirs)' => Log(l) \in Reachable(dirs)
                        /\ Log(l) \in Dir.names => LogEntries(l)' = LogEntries(l)
      /\ \A n : LogsFor(Dir, n)' = LogsFor(Dir, n)
  BY StillFacts
<1>4. nextFile \in Nat /\ logFileNo \in Nat
  BY <1>1 DEF ProcessTyped
<1>5. /\ \A l \in LogsFor(Dir, logNo) \ logs : /\ l < nextFile \/ l = logFileNo
                                              /\ LogEntries(l) \subseteq TableEntries(edit.add)
                                              /\ \A e \in LogEntries(l) : e.seq <= maxSeq
      /\ replay.left = <<>>
  BY <1>1 DEF ReplayInv
<1>6. replay'.left = <<>>
  BY <1>5
<1>7. LogsFor(Dir, logNo)' = LogsFor(Dir, logNo) /\ logs' = {}
  BY <1>2, <1>3
<1>8. \A l \in LogsFor(Dir, logNo) : l \in Nat /\ Log(l) \in Dir.names
  BY DEF LogsFor
<1>9. ReplayInv'
  <2>1. \A l \in LogsFor(Dir, logNo)' \ logs' :
           /\ l < nextFile' \/ l = logFileNo'
           /\ LogEntries(l)' \subseteq TableEntries(edit.add)'
           /\ \A e \in LogEntries(l)' : e.seq <= maxSeq'
    <3> SUFFICES ASSUME NEW l \in LogsFor(Dir, logNo)
                 PROVE  /\ l < nextFile' \/ l = logFileNo'
                        /\ LogEntries(l)' \subseteq TableEntries(edit.add)'
                        /\ \A e \in LogEntries(l)' : e.seq <= maxSeq'
      BY <1>7
    <3>1. l \in Nat /\ LogEntries(l)' = LogEntries(l)
      BY <1>3, <1>8
    <3>2. l < nextFile' \/ l = logFileNo'
      BY <1>2, <1>4, <1>5, <3>1
    <3>3. QED  BY <1>2, <1>3, <1>5, <3>1, <3>2
  <2>2. logs' \subseteq LogsFor(Dir, logNo)' /\ pc' \notin {"replay", "replaying", "build", "replayed"}
    BY <1>7
  <2>3. /\ pc' \in {"replaying", "build"} => FALSE
        /\ pc' \in {"replay", "replaying", "build"} => FALSE
        /\ pc' = "replayed" => FALSE
    BY <2>2
  <2>4. QED  BY <1>6, <2>1, <2>2, <2>3, Zenon DEF ReplayInv
<1>10. logFileNo < nextFile'
  BY <1>2, <1>4
<1>11. LogEntries(logFileNo)' = {}
  <2>1. PICK n : n = logFileNo
    OBVIOUS
  <2>2. LogEntries(n)' = {}
    BY <1>2, <1>3, <1>4, <2>1
  <2>3. QED  BY <2>1, <2>2
<1>12. QED  BY <1>2, <1>3, <1>4, <1>9, <1>10, <1>11 DEF Log
LEMMA ServingFacts ==
  ASSUME IInv, Serving
  PROVE  /\ Dir.current # 0 /\ Dir.current = manifestNo /\ descriptor
         /\ Final \in Views(manifestNo) /\ Final \in ViewType /\ Full = Says(Dir, Final)
         /\ \A v \in Views(manifestNo) : /\ v \in ViewType /\ Sound(Dir, v) /\ logNo <= v.log
                                         /\ v.log <= logFileNo /\ v.next <= nextFile
                                         /\ v.seq <= lastSeq
         /\ logFileNo \in Nat /\ Log(logFileNo) \in Dir.names /\ logFileNo < nextFile
         /\ \A l \in Nat : Log(l) \in Reachable(dirs) =>
              l <= logFileNo /\ (Log(l) \notin Dir.names => l < logNo)
<1>1. ManifestInv /\ LogInv /\ ProcessTyped
  BY DEF IInv, ProcessInv
<1>2. /\ Dir.current # 0 /\ Dir.current = manifestNo /\ descriptor
      /\ \A v \in Views(manifestNo) : /\ logNo <= v.log /\ v.log <= logFileNo
                                      /\ v.next <= nextFile /\ v.seq <= lastSeq
  BY <1>1 DEF ManifestInv
<1>3. /\ logFileNo \in Nat /\ Log(logFileNo) \in Dir.names /\ logFileNo < nextFile
      /\ \A l \in Nat : Log(l) \in Reachable(dirs) =>
           l <= logFileNo /\ (Log(l) \notin Dir.names => l < logNo)
  BY <1>1 DEF LogInv, ProcessTyped
<1>4. QED  BY <1>2, <1>3, FinalFacts

LEMMA KeepManifest ==
  ASSUME IInv, NEW X, Firm(X), Serving,
         UNCHANGED <<manifestNo, version, logNo, descriptor>>,
         logFileNo' \in Nat, logFileNo' >= logFileNo, imm \subseteq imm',
         up \/ pc # "install", up' \/ pc' # "install",
         nextFile' \in Nat, nextFile' >= nextFile,
         lastSeq' \in Nat, lastSeq' >= lastSeq, lastSeq' <= writes',
         ~bgError' => ~bgError /\ Target' = Target /\ TargetLog' = TargetLog,
         Recorded' => Recorded /\ edit' = edit,
         pc' = "install" => pc = "install" \/ \A v \in Views(manifestNo)' : v = Final
  PROVE  ManifestInv'
<1>1. /\ ManifestInv /\ ProcessTyped
  BY DEF IInv, ProcessInv
<1>2. /\ Dir.current # 0 /\ Dir.current = manifestNo /\ descriptor
      /\ \A v \in Views(manifestNo) : /\ logNo <= v.log /\ v.log <= logFileNo
                                      /\ v.next <= nextFile /\ v.seq <= lastSeq /\ v \in ViewType
  BY ServingFacts
<1>3. PICK m : m = manifestNo
  OBVIOUS
<1>4. /\ Final' = Final /\ Dir'.current = m /\ Views(m)' \subseteq Views(m) /\ Final \in Views(m)'
      /\ TableEntries(Final.tables)' = TableEntries(Final.tables)
      /\ TableEntries(version)' = TableEntries(version)
      /\ (edit' = edit => TableEntries(edit.add)' = TableEntries(edit.add))
  <2>1. /\ Final' = Final /\ Dir'.current = Dir.current
        /\ Views(Dir.current)' \subseteq Views(Dir.current) /\ Final \in Views(Dir.current)'
        /\ TableEntries(Final.tables)' = TableEntries(Final.tables)
        /\ \A T : T \subseteq version \cup edit.add => TableEntries(T)' = TableEntries(T)
    BY <1>2 DEF Firm
  <2>2. Views(Dir.current)' = Views(m)'
    BY <1>2, <1>3, <2>1
  <2>3. TableEntries(version)' = TableEntries(version)
    BY <2>1
  <2>4. edit' = edit => TableEntries(edit.add)' = TableEntries(edit.add)
    BY <2>1
  <2>5. QED  BY <1>2, <1>3, <2>1, <2>2, <2>3, <2>4
<1>5. lastSeq \in Nat /\ nextFile \in Nat /\ logFileNo \in Nat
  BY <1>1 DEF ProcessTyped
<1>6. /\ ~bgError => Final.tables = Target /\ Final.log = TargetLog
      /\ TableEntries(version) \subseteq TableEntries(Final.tables)
      /\ TableEntries(Final.tables) \subseteq TableEntries(version) \cup imm \cup Brought
      /\ Recorded => /\ Final.log = edit.log
                     /\ TableEntries(edit.add) \subseteq TableEntries(Final.tables)
      /\ pc = "install" => Views(manifestNo) = {Final}
  BY <1>1 DEF ManifestInv
<1>7. Brought = {} /\ Brought' = {}
  BY DEF Brought
<1>8. \A v \in Views(m)' : /\ logNo' <= v.log /\ v.log <= logFileNo'
                           /\ v.next <= nextFile' /\ v.seq <= lastSeq'
  <2> SUFFICES ASSUME NEW v \in Views(m)'
               PROVE  /\ logNo' <= v.log /\ v.log <= logFileNo'
                      /\ v.next <= nextFile' /\ v.seq <= lastSeq'
    OBVIOUS
  <2>1. v \in ViewType /\ logNo <= v.log /\ v.log <= logFileNo /\ v.next <= nextFile /\ v.seq <= lastSeq
    BY <1>2, <1>3, <1>4
  <2>2. v.next \in Nat /\ v.seq \in Nat /\ v.log \in Nat
    BY <2>1 DEF ViewType
  <2>3. v.next <= nextFile' /\ v.seq <= lastSeq' /\ v.log <= logFileNo'
    BY <1>5, <2>1, <2>2
  <2>4. QED  BY <2>1, <2>3
<1>9. ~bgError' => Final'.tables = Target' /\ Final'.log = TargetLog'
  BY <1>4, <1>6
<1>10. /\ TableEntries(version)' \subseteq TableEntries(Final.tables)'
       /\ TableEntries(Final.tables)' \subseteq TableEntries(version)' \cup imm' \cup Brought'
  BY <1>4, <1>6, <1>7
<1>11. Recorded' => /\ Final'.log = edit'.log
                    /\ TableEntries(edit.add)' \subseteq TableEntries(Final.tables)'
  BY <1>4, <1>6
<1>12. pc' = "install" => Views(m)' = {Final'}
  <2>1. pc' = "install" => \A v \in Views(m)' : v = Final
    <3>1. pc = "install" => \A v \in Views(m)' : v = Final
      BY <1>3, <1>4, <1>6
    <3>2. Views(manifestNo)' = Views(m)'
      BY <1>3
    <3>3. QED  BY <3>1, <3>2
  <2>2. QED  BY <1>4, <2>1
<1>13. manifestNo' = m /\ Dir'.current # 0 /\ descriptor' /\ lastSeq' <= writes'
  BY <1>2, <1>3, <1>4
<1>14. QED
  BY <1>4, <1>8, <1>9, <1>10, <1>11, <1>12, <1>13 DEF ManifestInv

LEMMA KeepLog ==
  ASSUME IInv, NEW X, NEW Y, Steady(X, Y), Serving,
         UNCHANGED <<logFileNo, logNo, version, mem, imm, writing, acked, lastSeq>>,
         up \/ pc # "install", up' \/ pc' # "install",
         nextFile' \in Nat, nextFile' >= nextFile, bgError => bgError'
  PROVE  LogInv'
<1>1. /\ LogInv /\ ProcessTyped /\ Dir.current # 0
      /\ logNo \in Nat /\ logFileNo \in Nat /\ logNo <= logFileNo
  <2>1. PICK v \in Views(manifestNo) : v \in ViewType /\ logNo <= v.log /\ v.log <= logFileNo
    BY ServingFacts
  <2>2. LogInv /\ ProcessTyped /\ Dir.current # 0 /\ logNo \in Nat /\ logFileNo \in Nat
    BY ServingFacts DEF IInv, ProcessInv, ProcessTyped
  <2>3. v.log \in Nat
    BY <2>1 DEF ViewType
  <2>4. QED  BY <2>1, <2>2, <2>3
<1>2. /\ logFileNo < nextFile /\ Log(logFileNo) \in Dir.names
      /\ \A l \in Nat : Log(l) \in Reachable(dirs) =>
           l <= logFileNo /\ (Log(l) \notin Dir.names => l < logNo)
      /\ imm \subseteq Full /\ mem \subseteq LogEntries(logFileNo)
      /\ \A l \in LogsFor(Dir, logNo) \ {logFileNo} :
           LogEntries(l) \subseteq TableEntries(version) \cup imm \cup Brought
      /\ \A e \in LogEntries(logFileNo) :
           \/ e \in mem
           \/ writing.op # 0 /\ e = Entry(writing)
           \/ bgError /\ e.op \notin acked /\ e.op # writing.op
      /\ \A e \in mem \cup imm \cup TableEntries(Final.tables) : e.seq <= lastSeq
      /\ \A e \in LogEntries(logFileNo) :
           e.seq <= lastSeq \/ (writing.op # 0 /\ e = Entry(writing))
  BY <1>1 DEF LogInv
<1>3. /\ Full' = Full /\ TableEntries(Final.tables)' = TableEntries(Final.tables)
      /\ \A T : T \subseteq version \cup edit.add => TableEntries(T)' = TableEntries(T)
      /\ \A l \in Nat : l >= logNo =>
           /\ Log(l) \in Dir'.names <=> Log(l) \in Dir.names
           /\ Log(l) \in Reachable(dirs)' => Log(l) \in Reachable(dirs)
           /\ Log(l) \in Dir.names => LogEntries(l)' = LogEntries(l)
      /\ LogsFor(Dir', logNo) = LogsFor(Dir, logNo)
  BY <1>1, CalmFacts, SteadyFacts DEF Steady
<1>4. logFileNo \in Nat /\ nextFile \in Nat
  BY <1>1 DEF ProcessTyped
<1>5. Brought = {} /\ Brought' = {}
  BY DEF Brought
<1>6. LogEntries(logFileNo)' = LogEntries(logFileNo)
  BY <1>1, <1>2, <1>3
<1>7. LogsFor(Dir, logNo)' = LogsFor(Dir, logNo) /\ TableEntries(version)' = TableEntries(version)
  BY <1>3 DEF LogsFor, Log
<1>8. \A l \in LogsFor(Dir, logNo)' \ {logFileNo'} :
        LogEntries(l)' \subseteq TableEntries(version)' \cup imm' \cup Brought'
  <2> SUFFICES ASSUME NEW l \in LogsFor(Dir, logNo), l # logFileNo
               PROVE  LogEntries(l)' \subseteq TableEntries(version)' \cup imm' \cup Brought'
    BY <1>7
  <2>1. l \in Nat /\ Log(l) \in Dir.names /\ l >= logNo
    BY DEF LogsFor
  <2>2. QED  BY <1>2, <1>3, <1>5, <1>7, <2>1
<1>9. logFileNo' < nextFile' /\ Log(logFileNo') \in Dir'.names
  BY <1>1, <1>2, <1>3, <1>4
<1>10. \A l \in Nat : Log(l) \in Reachable(dirs)' =>
         l <= logFileNo' /\ (Log(l) \notin Dir'.names => l < logNo')
  BY <1>1, <1>2, <1>3
<1>11. imm' \subseteq Full' /\ mem' \subseteq LogEntries(logFileNo)'
  BY <1>2, <1>3, <1>6
<1>12. \A e \in LogEntries(logFileNo)' :
         /\ \/ e \in mem'
            \/ writing'.op # 0 /\ e = Entry(writing)
            \/ bgError' /\ e.op \notin acked' /\ e.op # writing'.op
         /\ e.seq <= lastSeq' \/ (writing'.op # 0 /\ e = Entry(writing))
  BY <1>2, <1>6
<1>13. \A e \in mem' \cup imm' \cup TableEntries(Final.tables)' : e.seq <= lastSeq'
  BY <1>2, <1>3
<1>14. Entry(writing)' = Entry(writing)
  BY DEF Entry
<1>15. QED  BY <1>8, <1>9, <1>10, <1>11, <1>12, <1>13, <1>14 DEF LogInv, Log

LEMMA KeepVersion ==
  ASSUME IInv, NEW X, Firm(X), Serving,
         UNCHANGED <<version, manifestNo>>, inputs' \subseteq version, garbage' \subseteq garbage,
         logNo' >= logNo, logNo' \in Nat, nextFile' \in Nat, nextFile' >= nextFile
  PROVE  VersionInv'
<1>1. VersionInv /\ ProcessTyped /\ Dir.current # 0 /\ Dir.current = manifestNo
  BY ServingFacts DEF IInv, ProcessInv
<1>2. /\ \A t \in version : t < nextFile /\ t \in Nat
      /\ \A f \in garbage : /\ f # Manifest(manifestNo)
                            /\ \A t \in version : f # Table(t)
                            /\ \A v \in Views(manifestNo) : \A t \in v.tables : f # Table(t)
                            /\ \A l \in Nat : f = Log(l) => l < logNo
  BY <1>1 DEF VersionInv, ProcessTyped
<1>3. PICK m : m = manifestNo
  OBVIOUS
<1>4. /\ \A t \in version : Table(t) \in Dir'.names /\ Whole(t)'
      /\ Views(m)' \subseteq Views(m)
  <2>1. /\ \A t \in version : Table(t) \in Dir'.names /\ Whole(t)'
        /\ Views(Dir.current)' \subseteq Views(Dir.current) /\ Dir'.current = Dir.current
    BY <1>1 DEF Firm
  <2>2. Views(Dir.current)' = Views(m)'
    BY <1>1, <1>3, <2>1
  <2>3. QED  BY <1>1, <1>3, <2>1, <2>2
<1>5. nextFile \in Nat /\ logNo \in Nat
  BY <1>1 DEF ProcessTyped
<1>6. \A t \in version : t < nextFile'
  BY <1>2, <1>5
<1>7. \A f \in garbage' : /\ f # Manifest(m)
                          /\ \A t \in version : f # Table(t)
                          /\ \A v \in Views(m)' : \A t \in v.tables : f # Table(t)
                          /\ \A l \in Nat : f = Log(l) => l < logNo'
  BY <1>2, <1>3, <1>4, <1>5
<1>8. QED  BY <1>3, <1>4, <1>6, <1>7 DEF VersionInv, Table, Log, Manifest
LEMMA KeepDisk ==
  ASSUME IInv, NEW X, NEW Y, Calm(X, Y), synced' = synced, writes' \in Nat, writes' >= writes
  PROVE  DiskInv'
BY FrameDisk DEF Calm, IInv, ProcessInv, HistoryTyped

LEMMA KeepEditCounters ==
  ASSUME IInv, NEW X, Firm(X), Dir.current # 0, EditCounters,
         UNCHANGED <<manifestNo, edit>>, nextFile' \in Nat, nextFile' >= nextFile,
         lastSeq' \in Nat, lastSeq' >= lastSeq
  PROVE  EditCounters'
<1>1. /\ Final' = Final /\ TableEntries(Final.tables)' = TableEntries(Final.tables)
      /\ TableEntries(edit.add)' = TableEntries(edit.add)
  BY DEF Firm
<1>2. edit.next \in Nat /\ edit.seq \in Nat /\ nextFile \in Nat /\ lastSeq \in Nat
  BY Typed DEF ProcessTyped, VersionEdit
<1>3. edit.next <= nextFile' /\ edit.seq <= lastSeq'
  BY <1>2 DEF EditCounters
<1>4. QED  BY <1>1, <1>3 DEF EditCounters

LEMMA KeepApply ==
  ASSUME IInv, NEW X, Firm(X), Serving, up, up',
         pc' \in {"apply", "append", "sync", "install"} => Applying,
         pc' = "append" => pc = "append", pc' # "apply" => pc # "apply",
         UNCHANGED <<job, edit, version, output, inputs, logNo, manifestNo>>,
         Applying => job = "merge" \/ UNCHANGED <<logFileNo, imm>>,
         nextFile' \in Nat, nextFile' >= nextFile, lastSeq' \in Nat, lastSeq' >= lastSeq
  PROVE  ApplyInv'
<1>1. ApplyInv /\ PhaseInv /\ VersionInv /\ ProcessTyped /\ Dir.current # 0 /\ Dir.current = manifestNo
  BY ServingFacts DEF IInv, ProcessInv
<1>2. CASE ~Applying
  <2>1. ~Applying' /\ pc' # "install"
    BY <1>2 DEF Applying
  <2>2. QED  BY <2>1 DEF ApplyInv
<1>3. CASE Applying
  <2>1. /\ \A t \in edit.add : t < nextFile /\ t \notin version /\ t \in Nat
        /\ \A d \in Dirs : d.current = manifestNo /\ \A t \in edit.add : Table(t) \in d.names
        /\ job = "flush" => imm # {} /\ TableEntries(edit.add) = imm /\ edit.del = {}
        /\ job = "merge" =>
             /\ edit.add = {output} /\ output # 0 /\ edit.del = inputs /\ output \notin inputs
             /\ TableEntries(edit.add) = TableEntries(inputs)
        /\ pc # "apply" => edit.log = (IF job = "merge" THEN logNo ELSE logFileNo)
        /\ pc = "append" => EditCounters
        /\ job \in {"flush", "merge"} /\ inputs \subseteq version
    BY <1>1, <1>3 DEF ApplyInv, PhaseInv, VersionInv, Serving, ProcessTyped, VersionEdit
  <2>2. /\ TableEntries(edit.add)' = TableEntries(edit.add)
        /\ TableEntries(inputs)' = TableEntries(inputs)
        /\ \A t \in edit.add : Table(t) \in Dir'.names /\ Whole(t)'
        /\ \A d \in Dirs' : d \in Dirs \/ (d.current = Dir.current /\ d.names \ X = Dir.names \ X)
    BY <2>1 DEF Firm
  <2>3. \A t \in edit.add : t < nextFile'
    <3>1. nextFile \in Nat
      BY <1>1 DEF ProcessTyped
    <3>2. QED  BY <2>1, <3>1
  <2>4. \A d \in Dirs' : d.current = manifestNo /\ \A t \in edit.add : Table(t) \in d.names
    <3> SUFFICES ASSUME NEW d \in Dirs'
                 PROVE  d.current = manifestNo /\ \A t \in edit.add : Table(t) \in d.names
      OBVIOUS
    <3>1. CASE d \in Dirs
      BY <2>1, <3>1
    <3>2. CASE d.current = Dir.current /\ d.names \ X = Dir.names \ X
      <4>1. \A t \in edit.add : Table(t) \in Dir.names /\ Table(t) \notin X
        BY Present DEF Firm
      <4>2. QED  BY <1>1, <3>2, <4>1
    <3>3. QED  BY <2>2, <3>1, <3>2
  <2>5. pc = "append" => EditCounters'
    BY <1>1, <2>1, KeepEditCounters
  <2>6. job = "flush" => UNCHANGED <<logFileNo, imm>>
    BY <1>3
  <2>7. /\ job' = "flush" => imm' # {} /\ TableEntries(edit.add)' = imm' /\ edit'.del = {}
        /\ pc' # "apply" => edit'.log = (IF job' = "merge" THEN logNo' ELSE logFileNo')
    BY <2>1, <2>2, <2>6
  <2>8. job' = "merge" =>
          /\ edit'.add = {output'} /\ output' # 0 /\ edit'.del = inputs' /\ output' \notin inputs'
          /\ TableEntries(edit.add)' = TableEntries(inputs)'
    BY <2>1, <2>2
  <2>9. up'
    OBVIOUS
  <2>10. \A t \in edit'.add : /\ t < nextFile' /\ t \notin version' /\ Whole(t)'
                              /\ Table(t) \in Dir'.names
    BY <2>1, <2>2, <2>3
  <2>11. \A d \in Dirs' : d.current = manifestNo' /\ \A t \in edit'.add : Table(t) \in d.names
    BY <2>4
  <2>12. pc' = "append" => EditCounters'
    BY <2>5
  <2>13. QED  BY <2>7, <2>8, <2>9, <2>10, <2>11, <2>12 DEF ApplyInv, Table
<1>4. QED  BY <1>2, <1>3

LEMMA KeepWrite ==
  ASSUME IInv, NEW X, NEW Y, Steady(X, Y), Serving, up => up',
         UNCHANGED <<writing, writes, acked, lastSeq, logFileNo, manifestNo>>
  PROVE  WriteInv'
<1>1. /\ WriteInv /\ Dir.current = manifestNo /\ logFileNo \in Nat /\ Log(logFileNo) \in Dir.names
      /\ logFileNo >= logNo
  <2>1. PICK v \in Views(manifestNo) : v \in ViewType /\ logNo <= v.log /\ v.log <= logFileNo
    BY ServingFacts
  <2>2. /\ WriteInv /\ Dir.current = manifestNo /\ logFileNo \in Nat /\ Log(logFileNo) \in Dir.names
        /\ logNo \in Nat
    BY ServingFacts DEF IInv, ProcessInv, ProcessTyped
  <2>3. v.log \in Nat
    BY <2>1 DEF ViewType
  <2>4. QED  BY <2>1, <2>2, <2>3
<1>2. CASE writing.at = "idle"
  BY <1>1, <1>2 DEF WriteInv
<1>3. CASE writing.at # "idle"
  <2>1. /\ up /\ writing.op = writes /\ writing.op # 0 /\ writing.op \notin acked
        /\ writing.seq = lastSeq + 1 /\ writing.seq <= writing.op
        /\ Entry(writing) \in LogEntries(logFileNo)
        /\ writing.at = "insert" /\ writing.sync =>
             /\ \A d \in Dirs : d.current = manifestNo /\ Log(logFileNo) \in d.names
             /\ Entry(writing) \in SafeEntries(logFileNo)
        /\ writing.at = "sync" => writing.sync
    BY <1>1, <1>3 DEF WriteInv
  <2>2. /\ LogEntries(logFileNo)' = LogEntries(logFileNo)
        /\ SafeEntries(logFileNo) \subseteq SafeEntries(logFileNo)'
        /\ \A d \in Dirs' : d \in Dirs \/ (d.current = Dir.current /\ d.names \ X = Dir.names \ X)
    BY <1>1, CalmFacts, SteadyFacts DEF Steady
  <2>3. Log(logFileNo) \notin X
    BY <1>1 DEF Steady
  <2>4. Entry(writing)' = Entry(writing)
    BY DEF Entry
  <2>5. writing.at = "insert" /\ writing.sync =>
           \A d \in Dirs' : d.current = manifestNo /\ Log(logFileNo) \in d.names
    BY <1>1, <2>1, <2>2, <2>3
  <2>6. writing' = writing /\ writes' = writes /\ acked' = acked /\ lastSeq' = lastSeq
        /\ logFileNo' = logFileNo /\ manifestNo' = manifestNo /\ up'
    BY <2>1
  <2>7. Entry(writing)' \in LogEntries(logFileNo)'
    BY <2>1, <2>2, <2>4
  <2>8. writing'.at = "insert" /\ writing'.sync =>
          /\ \A d \in Dirs' : d.current = manifestNo' /\ Log(logFileNo') \in d.names
          /\ Entry(writing)' \in SafeEntries(logFileNo)'
    BY <2>1, <2>2, <2>4, <2>5, <2>6
  <2>9. QED  BY <1>3, <2>1, <2>6, <2>7, <2>8 DEF WriteInv, Log
<1>4. QED  BY <1>2, <1>3

LEMMA KeepNumbers ==
  ASSUME IInv, faulty => faulty', up \/ pc = "delete", up' = up \/ garbage = {},
         up \/ garbage' = garbage \/ garbage = {},
         nextFile' \in Nat, nextFile' >= nextFile,
         \A t \in Nat : Table(t) \in Dir'.names => Table(t) \in Dir.names \/ t < nextFile'
  PROVE  NumbersInv'
<1>1. NumbersInv /\ nextFile \in Nat
  BY Typed DEF IInv, ProcessInv, ProcessTyped
<1>2. ASSUME ~faulty', NEW t \in Nat, Table(t) \in Dir'.names
      PROVE  t < nextFile' \/ (Table(t) \in garbage' /\ ~up')
  <2>1. CASE Table(t) \in Dir.names
    <3>1. t < nextFile \/ (Table(t) \in garbage /\ ~up)
      BY <1>1, <1>2, <2>1 DEF NumbersInv
    <3>2. QED  BY <1>1, <3>1
  <2>2. QED  BY <1>2, <2>1
<1>3. QED  BY <1>2 DEF NumbersInv, Table
(***************************************************************************)
(* The steps of the disk that are Still.                                   *)
(***************************************************************************)
LEMMA Unnamed ==
  ASSUME IInv
  PROVE  /\ \A t \in InUse : t \in Nat /\ Dir.current # 0 /\ t < Final.next
         /\ \A d \in Dirs : d.current # 0 => d.current \in Nat /\ Dir.current # 0 /\ d.current < Final.next
<1>1. ASSUME NEW d \in Dirs, d.current # 0
      PROVE  /\ d.current \in Nat /\ Dir.current # 0 /\ d.current < Final.next
             /\ \A v \in Views(d.current) : \A t \in v.tables : t \in Nat /\ t < Final.next
  <2>1. /\ Dir.current # 0 /\ View(Recs(Manifest(d.current))) \in Views(d.current)
        /\ \A v \in Views(d.current) : v \in ViewType /\ Sound(d, v)
    BY <1>1, Typed, DirOpen
  <2>2. Final \in ViewType /\ d \in Directory
    BY <2>1, FinalFacts, Typed, DirFacts
  <2>3. d.current \in Nat /\ Final.next \in Nat
    BY <2>2 DEF ViewType, Directory
  <2>4. ASSUME NEW v \in Views(d.current), NEW t \in v.tables PROVE t \in Nat /\ t < Final.next
    <3>1. v \in ViewType /\ Sound(d, v)
      BY <2>1
    <3>2. t \in Nat /\ v.next \in Nat /\ t < v.next /\ v.next <= Final.next
      BY <3>1 DEF ViewType, Sound
    <3>3. QED  BY <2>3, <3>2
  <2>5. d.current < Final.next
    <3>1. PICK v \in Views(d.current) : v \in ViewType /\ Sound(d, v)
      BY <2>1
    <3>2. v.next \in Nat /\ d.current < v.next /\ v.next <= Final.next
      BY <3>1 DEF ViewType, Sound
    <3>3. QED  BY <2>3, <3>2
  <2>6. QED  BY <2>1, <2>3, <2>4, <2>5
<1>2. ASSUME NEW t \in InUse PROVE t \in Nat /\ Dir.current # 0 /\ t < Final.next
  <2>1. PICK d \in Dirs : d.current # 0 /\ \E v \in Views(d.current) : t \in v.tables
    BY DEF InUse
  <2>2. QED  BY <1>1, <2>1
<1>3. QED  BY <1>1, <1>2

LEMMA StillSame ==
  ASSUME IInv, UNCHANGED diskVars
  PROVE  Still({}, {}) /\ Dirs' = Dirs /\ Dir' = Dir
<1>1. DiskTyped' /\ Frame({}, {}) /\ Dirs' = Dirs /\ Dir' = Dir
  BY Typed, SameDisk
<1>2. Harmless({}, {})
  BY DEF Harmless
<1>3. QED  BY <1>1, <1>2 DEF Still, Calm

LEMMA FinalBelow ==
  ASSUME IInv, Opening \/ Serving
  PROVE  Final \in ViewType /\ Final.next <= nextFile /\ nextFile \in Nat /\ Dir.current # 0
<1>1. nextFile \in Nat /\ manifestNo \in Nat /\ RecoveredInv
  BY Typed DEF ProcessTyped, IInv, ProcessInv
<1>2. CASE Serving
  BY <1>1, <1>2, ServingFacts
<1>3. CASE Opening
  <2>1. Dir.current # 0 /\ Final.next <= manifestNo /\ manifestNo < nextFile
    BY <1>1, <1>3 DEF RecoveredInv
  <2>2. Final \in ViewType
    BY <2>1, FinalFacts
  <2>3. Final.next \in Nat
    BY <2>2 DEF ViewType
  <2>4. QED  BY <1>1, <2>1, <2>2, <2>3
<1>4. QED  BY <1>2, <1>3

LEMMA StillTable ==
  ASSUME IInv, Opening \/ Serving, NewWritableFile(Table(nextFile), <<>>)
  PROVE  /\ Still({Table(nextFile)}, {Table(nextFile)}) /\ nextFile \notin InUse
         /\ Dir'.names = Dir.names \cup {Table(nextFile)}
<1>1. PICK n \in Nat : n = nextFile
  BY FinalBelow
<1> DEFINE f == Table(n)
<1>2. f \in FileNames /\ <<>> \in Seq(RecordsOf(f[1])) /\ NewWritableFile(f, <<>>) /\ DiskTyped
  BY <1>1, Names, Typed
<1>3. DiskTyped' /\ Frame({f}, {f}) /\ Dir'.names = Dir.names \cup {f}
  BY <1>2, NewFile
<1>4. \A t \in InUse : t < n
  <2>1. Final \in ViewType /\ Final.next <= n
    BY <1>1, FinalBelow
  <2>2. Final.next \in Nat
    BY <2>1 DEF ViewType
  <2>3. QED  BY <2>1, <2>2, Unnamed
<1>5. n \notin InUse /\ \A t \in version \cup edit.add : t # n
  <2>1. \A t \in version \cup edit.add : t < n
    BY <1>1, Present
  <2>2. n \in Nat
    OBVIOUS
  <2>3. QED  BY <1>4, <2>1
<1>6. Dir.current # 0 => \A v \in Views(Dir.current) : \A t \in v.tables : t \in InUse
  BY Typed DEF InUse
<1>7. Harmless({f}, {f})
  BY <1>5, <1>6, Names DEF Harmless
<1>8. Still({f}, {f})
  BY <1>3, <1>5, <1>7, Names DEF Still, Calm
<1>9. QED  BY <1>1, <1>3, <1>5, <1>8

LEMMA StillBuilt ==
  ASSUME IInv, NEW t \in Nat, Fresh(t), NEW es \in SUBSET Update, SyncFile(Table(t), <<es>>)
  PROVE  /\ Still({}, {Table(t)}) /\ Dirs' = {Dir} /\ Dir' = Dir
         /\ Whole(t)' /\ Recs(Table(t))' = <<es>>
<1> DEFINE f == Table(t)
<1>1. /\ f \in Dir.names /\ f[1] = "table" /\ RecordsOf(f[1]) = SUBSET Update
      /\ t \notin version \cup edit.add \cup InUse
  BY Names, RecordKinds DEF Fresh
<1>2. <<es>> \in Seq(RecordsOf(f[1])) /\ Len(<<es>>) = 1
  BY <1>1
<1>3. /\ DiskTyped' /\ Frame({}, {f}) /\ Dirs' = {Dir} /\ Dir' = Dir
      /\ files'[f] = Contents(<<es>>, Len(<<es>>))
  BY <1>1, <1>2, Typed, Synced
<1>4. Harmless({}, {f})
  BY <1>1, Names DEF Harmless
<1>5. Still({}, {f})
  BY <1>1, <1>3, <1>4, Names DEF Still, Calm
<1>6. Whole(t)' /\ Recs(f)' = <<es>>
  BY <1>2, <1>3 DEF Whole, Recs, Contents
<1>7. QED  BY <1>3, <1>5, <1>6

LEMMA StillManifest ==
  ASSUME IInv, NEW m \in Nat, \A d \in Dirs : d.current # m, NEW recs \in Seq(VersionEdit),
         NewWritableFile(Manifest(m), recs)
  PROVE  /\ Still({Manifest(m)}, {Manifest(m)}) /\ Recs(Manifest(m))' = recs
         /\ Dir'.names = Dir.names \cup {Manifest(m)}
<1> DEFINE f == Manifest(m)
<1>1. f \in FileNames /\ recs \in Seq(RecordsOf(f[1]))
  BY Names, RecordKinds
<1>2. /\ DiskTyped' /\ Frame({f}, {f}) /\ Dir'.names = Dir.names \cup {f}
      /\ files'[f] = Contents(recs, 0)
  BY <1>1, Typed, NewFile
<1>3. Harmless({f}, {f})
  <2>1. /\ \A t : f # Table(t)
        /\ \A l : Log(l) # f
        /\ \A k : f = Manifest(k) => k = m
    BY Names
  <2>2. Dir \in Dirs
    BY Typed
  <2> HIDE DEF f
  <2>3. QED  BY <2>1, <2>2 DEF Harmless
<1>4. Still({f}, {f})
  BY <1>2, <1>3, Names DEF Still, Calm
<1>5. Recs(f)' = recs
  BY <1>2 DEF Recs, Contents
<1>6. QED  BY <1>2, <1>4, <1>5

LEMMA StillAppend ==
  ASSUME IInv, NEW m \in Nat, \A d \in Dirs : d.current # m, Manifest(m) \in Dir.names,
         NEW e \in VersionEdit, AppendRecord(Manifest(m), e)
  PROVE  /\ Still({}, {Manifest(m)}) /\ Dirs' = Dirs /\ Dir' = Dir
         /\ Recs(Manifest(m))' = Append(Recs(Manifest(m)), e)
<1> DEFINE f == Manifest(m)
<1>1. f \in DOMAIN files /\ e \in RecordsOf(f[1])
  BY Typed, RecordKinds
<1>2. /\ DiskTyped' /\ Frame({}, {f}) /\ Dirs' = Dirs /\ Dir' = Dir
      /\ Recs(f)' = Append(Recs(f), e)
  BY <1>1, Typed, Appended
<1>3. Harmless({}, {f})
  BY Names DEF Harmless
<1>4. Still({}, {f})
  BY <1>2, <1>3, Names DEF Still, Calm
<1>5. QED  BY <1>2, <1>4

LEMMA StillSync ==
  ASSUME IInv, NEW f \in Dir.names, SyncFile(f, Recs(f))
  PROVE  /\ Still({}, {}) /\ Dirs' = {Dir} /\ Dir' = Dir
         /\ Recs(f)' = Recs(f) /\ files'[f].durable = Len(Recs(f))
<1>1. PICK recs : recs = Recs(f)
  OBVIOUS
<1>2. recs \in Seq(RecordsOf(f[1]))
  BY <1>1, Typed, FileTyped
<1>3. /\ DiskTyped' /\ Frame({}, {}) /\ Dirs' = {Dir} /\ Dir' = Dir
      /\ files'[f] = Contents(recs, Len(recs))
  BY <1>1, <1>2, Typed, Synced
<1>4. Still({}, {})
  BY <1>3 DEF Still, Calm, Harmless
<1>5. Recs(f)' = recs /\ files'[f].durable = Len(recs)
  BY <1>3 DEF Recs, Contents
<1>6. QED  BY <1>1, <1>3, <1>4, <1>5

LEMMA StillTemp ==
  ASSUME IInv, NEW n \in Nat, WriteFileSync(Temp(n), n)
  PROVE  /\ Still({Temp(n)}, {Temp(n)}) /\ Dirs' = {Dir'} /\ Dir'.names = Dir.names \cup {Temp(n)}
         /\ \A m : Manifest(m) \in Dir.names => files'[Manifest(m)] = files[Manifest(m)]
<1> DEFINE f == Temp(n)
<1>1. f \in FileNames /\ n \in RecordsOf(f[1]) /\ \A m : Manifest(m) # f
  BY Names, RecordKinds
<1>2. /\ DiskTyped' /\ Frame({f}, {f}) /\ Dirs' = {Dir'} /\ Dir'.names = Dir.names \cup {f}
      /\ \A g \in Dir.names : g # f => files'[g] = files[g]
  BY <1>1, Typed, WroteFile
<1>3. Harmless({f}, {f})
  BY Names DEF Harmless
<1>4. Still({f}, {f})
  BY <1>2, <1>3, Names DEF Still, Calm
<1>5. QED  BY <1>1, <1>2, <1>4

LEMMA StillRemove ==
  ASSUME IInv, NEW f, dirs' = Without(dirs, f), UNCHANGED files,
         Dir.current # 0 => f # Manifest(Dir.current)
                            /\ \A v \in Views(Dir.current) : \A t \in v.tables : f # Table(t),
         \A l \in Nat : f # Log(l), \A t \in version \cup edit.add : f # Table(t)
  PROVE  /\ Still({f}, {}) /\ Dir'.names = Dir.names \ {f}
         /\ \A d \in Dirs' : d \in Dirs \/ d = Dir'
<1>1. /\ DiskTyped' /\ Frame({f}, {}) /\ Dir'.names = Dir.names \ {f}
      /\ \A d \in Dirs' : d \in Dirs \/ d = Dir'
  BY Typed, WithoutTyped
<1>2. Harmless({f}, {})
  BY DEF Harmless
<1>3. Still({f}, {})
  BY <1>1, <1>2 DEF Still, Calm
<1>4. QED  BY <1>1, <1>3
(***************************************************************************)
(* The process is gone: what is left is what the files say.                *)
(***************************************************************************)
LEMMA ForgetInv ==
  ASSUME DiskInv', HistoryTyped', Forget
  PROVE  IInv'
<1>1. /\ pc' = "down" /\ job' = "none" /\ up' = FALSE
      /\ version' = {} /\ nextFile' = 2 /\ manifestNo' = 0 /\ logNo' = 0 /\ lastSeq' = 0
      /\ descriptor' = FALSE
      /\ mem' = {} /\ imm' = {} /\ logFileNo' = 0 /\ bgError' = FALSE /\ pending' = {}
      /\ logs' = {} /\ replay' = NoReplay /\ maxSeq' = 0 /\ save' = FALSE
      /\ table' = NoTable /\ edit' = NoEdit /\ inputs' = {} /\ output' = 0 /\ garbage' = {}
      /\ writing' = NotWriting
  BY DEF Forget
<1>2. ProcessTyped'
  <2>1. NoEdit \in VersionEdit /\ NoTable \in [no : Nat, entries : SUBSET Update]
    BY DEF NoEdit, VersionEdit, NoTable
  <2>2. NoReplay \in [left : Seq(Update), cut : BOOLEAN]
    BY DEF NoReplay
  <2>3. NotWriting \in [op : Nat, seq : Nat, sync : BOOLEAN, at : {"idle", "sync", "insert"}]
    BY DEF NotWriting
  <2>4. up' \in BOOLEAN /\ descriptor' \in BOOLEAN /\ bgError' \in BOOLEAN /\ save' \in BOOLEAN
    BY <1>1, Zenon
  <2>5. pc' \in Places /\ job' \in {"none", "new", "open", "flush", "merge"}
    BY <1>1 DEF Places
  <2>6. /\ version' \in SUBSET Nat /\ pending' \in SUBSET Nat /\ inputs' \in SUBSET Nat
        /\ logs' \in SUBSET Nat /\ garbage' \in SUBSET FileNames
        /\ nextFile' \in Nat /\ nextFile' >= 2
        /\ manifestNo' \in Nat /\ logNo' \in Nat /\ lastSeq' \in Nat
        /\ logFileNo' \in Nat /\ output' \in Nat /\ maxSeq' \in Nat
        /\ mem' \in SUBSET Update /\ imm' \in SUBSET Update
    BY <1>1
  <2>7. QED  BY <1>1, <2>1, <2>2, <2>3, <2>4, <2>5, <2>6, Zenon DEF ProcessTyped
<1>3. ~Creating' /\ ~Opening' /\ ~Serving' /\ ~Applying' /\ ~Saving'
  BY <1>1 DEF Creating, Opening, Serving, Applying, Saving
<1>4. PhaseInv'
  BY <1>1, <1>3 DEF PhaseInv, NoEdit
<1>5. FreshInv' /\ CreateInv' /\ RecoveredInv' /\ ReplayInv' /\ SaveInv'
  BY <1>1, <1>3 DEF FreshInv, CreateInv, RecoveredInv, ReplayInv, SaveInv
<1>6. ManifestInv' /\ LogInv' /\ VersionInv'
  BY <1>3 DEF ManifestInv, LogInv, VersionInv
<1>7. ApplyInv'
  BY <1>1, <1>3 DEF ApplyInv
<1>8. WriteInv' /\ NumbersInv'
  BY <1>1 DEF WriteInv, NotWriting, NumbersInv
<1>9. QED  BY <1>2, <1>4, <1>5, <1>6, <1>7, <1>8, <1>1 DEF IInv, ProcessInv, GarbageInv

LEMMA EventTyped ==
  ASSUME HistoryTyped, Event, UNCHANGED <<writes, acked, synced, losses>>, faulty' \in BOOLEAN
  PROVE  HistoryTyped'
BY BoundsAssumption DEF HistoryTyped, Event

LEMMA InitDisk ==
  ASSUME Init
  PROVE  DiskInv
<1> DEFINE d == [names |-> {}, current |-> 0]
<1>1. dirs = <<d>> /\ DOMAIN files = {} /\ files = [f \in {} |-> {}] /\ synced = {}
  BY DEF Init, DiskInit
<1>2. d \in Directory /\ d.names = {} /\ d.current = 0
  BY DEF Directory
<1> HIDE DEF d
<1>3. dirs \in Seq(Directory) /\ dirs # <<>> /\ Dir = d /\ Dirs = {d} /\ DOMAIN dirs = {1}
  BY <1>1, <1>2 DEF Dir, Dirs
<1>4. Reachable(dirs) = {}
  BY <1>2, <1>3 DEF Reachable, Dirs
<1>5. DiskTyped
  BY <1>1, <1>3, <1>4 DEF DiskTyped, FilesTyped
<1>6. DirInv(d)
  BY <1>1, <1>2 DEF DirInv
<1>7. LogsGone /\ FullInv
  BY <1>2, <1>3 DEF LogsGone, FullInv, Full
<1>8. QED  BY <1>3, <1>5, <1>6, <1>7 DEF DiskInv

LEMMA InitInv == Init => IInv
<1> SUFFICES ASSUME Init PROVE IInv
  OBVIOUS
<1>1. DiskInv
  BY InitDisk
<1>2. /\ pc = "down" /\ job = "none" /\ up = FALSE
      /\ version = {} /\ nextFile = 2 /\ manifestNo = 0 /\ logNo = 0 /\ lastSeq = 0
      /\ descriptor = FALSE
      /\ mem = {} /\ imm = {} /\ logFileNo = 0 /\ bgError = FALSE /\ pending = {}
      /\ logs = {} /\ replay = NoReplay /\ maxSeq = 0 /\ save = FALSE
      /\ table = NoTable /\ edit = NoEdit /\ inputs = {} /\ output = 0 /\ garbage = {}
      /\ writing = NotWriting
      /\ writes = 0 /\ acked = {} /\ synced = {} /\ losses = 0 /\ faulty = FALSE /\ events = 0
  BY DEF Init
<1>3. ProcessTyped
  <2>1. NoEdit \in VersionEdit /\ NoTable \in [no : Nat, entries : SUBSET Update]
    BY DEF NoEdit, VersionEdit, NoTable
  <2>2. NoReplay \in [left : Seq(Update), cut : BOOLEAN]
    BY DEF NoReplay
  <2>3. NotWriting \in [op : Nat, seq : Nat, sync : BOOLEAN, at : {"idle", "sync", "insert"}]
    BY DEF NotWriting
  <2>4. up \in BOOLEAN /\ descriptor \in BOOLEAN /\ bgError \in BOOLEAN /\ save \in BOOLEAN
    BY <1>2, Zenon
  <2>5. pc \in Places /\ job \in {"none", "new", "open", "flush", "merge"}
    BY <1>2 DEF Places
  <2>6. /\ version \in SUBSET Nat /\ pending \in SUBSET Nat /\ inputs \in SUBSET Nat
        /\ logs \in SUBSET Nat /\ garbage \in SUBSET FileNames
        /\ nextFile \in Nat /\ nextFile >= 2
        /\ manifestNo \in Nat /\ logNo \in Nat /\ lastSeq \in Nat
        /\ logFileNo \in Nat /\ output \in Nat /\ maxSeq \in Nat
        /\ mem \in SUBSET Update /\ imm \in SUBSET Update
    BY <1>2
  <2>7. QED  BY <1>2, <2>1, <2>2, <2>3, <2>4, <2>5, <2>6 DEF ProcessTyped
<1>4. HistoryTyped
  <2>1. faulty \in BOOLEAN
    BY <1>2, Zenon
  <2>2. writes \in 0..MaxWrites /\ events \in 0..MaxEvents /\ losses \in Nat
    BY <1>2, BoundsAssumption
  <2>3. synced \subseteq acked /\ acked \subseteq 1..writes
    BY <1>2
  <2>4. QED  BY <2>1, <2>2, <2>3 DEF HistoryTyped
<1>5. ~Creating /\ ~Opening /\ ~Serving /\ ~Applying /\ ~Saving
  BY <1>2 DEF Creating, Opening, Serving, Applying, Saving
<1>6. PhaseInv
  BY <1>2, <1>5 DEF PhaseInv, NoEdit
<1>7. FreshInv /\ CreateInv /\ RecoveredInv /\ ReplayInv /\ SaveInv
  BY <1>2, <1>5 DEF FreshInv, CreateInv, RecoveredInv, ReplayInv, SaveInv
<1>8. ManifestInv /\ LogInv /\ VersionInv
  BY <1>5 DEF ManifestInv, LogInv, VersionInv
<1>9. ApplyInv /\ WriteInv /\ NumbersInv
  BY <1>2, <1>5 DEF ApplyInv, WriteInv, NotWriting, NumbersInv
<1>10. QED  BY <1>1, <1>3, <1>4, <1>6, <1>7, <1>8, <1>9, <1>2 DEF IInv, ProcessInv, GarbageInv

LEMMA StepRecoverFails ==
  ASSUME IInv, RecoverFails \/ OpenLogFails
  PROVE  IInv'
<1>1. Forget /\ UNCHANGED diskVars /\ UNCHANGED history /\ HistoryTyped
  BY Typed DEF RecoverFails, OpenLogFails, OpenFails
<1>2. HistoryTyped'
  <2>1. UNCHANGED bounds \/ (Event /\ faulty' = TRUE)
    BY DEF RecoverFails, OpenLogFails, Fails
  <2>2. CASE UNCHANGED bounds
    BY <1>1, <2>2 DEF HistoryTyped, history, bounds
  <2>3. CASE Event /\ faulty' = TRUE
    BY <1>1, <2>3, EventTyped DEF history
  <2>4. QED  BY <2>1, <2>2, <2>3, Zenon
<1>3. DiskInv'
  <2>1. synced' = synced /\ writes' \in Nat /\ writes' >= writes
    BY <1>1 DEF HistoryTyped, history
  <2>2. QED  BY <1>1, <2>1, StillSame, KeepDisk DEF Still
<1>4. QED  BY <1>1, <1>2, <1>3, ForgetInv

LEMMA StepCrash ==
  ASSUME IInv, Crash
  PROVE  IInv'
<1>1. Event /\ Forget /\ UNCHANGED <<writes, acked, synced, faulty>> /\ HistoryTyped /\ DiskInv
  BY Typed DEF Crash, IInv
<1>2. UNCHANGED <<diskVars, losses>> \/ (PowerFails /\ losses' = losses + 1)
  BY DEF Crash
<1>3. HistoryTyped'
  BY <1>1, <1>2, BoundsAssumption DEF HistoryTyped, Event
<1>4. DiskInv'
  <2>1. CASE UNCHANGED diskVars
    <3>1. synced' = synced /\ writes' \in Nat /\ writes' >= writes
      BY <1>1 DEF HistoryTyped
    <3>2. QED  BY <2>1, <3>1, StillSame, KeepDisk DEF Still
  <2>2. CASE PowerFails
    BY <1>1, <2>2, PowerDisk
  <2>3. QED  BY <1>2, <2>1, <2>2
<1>5. QED  BY <1>1, <1>3, <1>4, ForgetInv
(***************************************************************************)
(* The invariant of a step after which the database is served.             *)
(***************************************************************************)
LEMMA UpInv ==
  ASSUME DiskInv', ProcessTyped', HistoryTyped', PhaseInv', FreshInv', ManifestInv', LogInv',
         VersionInv', ApplyInv', WriteInv', NumbersInv', up' \/ pc' \in {"install", "delete"},
         pc' = "delete" => GarbageInv'
  PROVE  IInv'
<1>1. ~Creating' /\ ~Opening' /\ ~Saving' /\ (up' \/ pc' # "apply")
  BY DEF Creating, Opening, Saving
<1>2. CreateInv' /\ RecoveredInv' /\ ReplayInv' /\ SaveInv'
  BY <1>1 DEF CreateInv, RecoveredInv, ReplayInv, SaveInv
<1>3. QED  BY <1>2 DEF IInv, ProcessInv, GarbageInv

\* What PhaseInv says of a served database.
LEMMA UpFacts ==
  ASSUME IInv, up
  PROVE  /\ Serving /\ pc \in {"idle", "merge", "build", "delete", "apply", "append", "sync", "install"}
         /\ pc = "build" => job = "flush" /\ edit = NoEdit /\ table.entries = imm /\ imm # {}
         /\ Applying => job \in {"flush", "merge"}
         /\ pc \in {"idle", "merge", "delete"} => edit = NoEdit
         /\ pc # "build" => table = NoTable
         /\ pc # "delete" => garbage = {}
         /\ pc = "merge" => inputs # {}
         /\ pc = "idle" => inputs = {}
         /\ output # 0 => inputs # {}
         /\ pending = (IF pc = "build" THEN {table.no} ELSE {})
                      \cup (IF output # 0 THEN {output} ELSE {})
         /\ output \in Nat /\ table.no \in Nat
<1>1. PhaseInv /\ ProcessTyped
  BY DEF IInv, ProcessInv
<1>2. output \in Nat /\ table.no \in Nat
  BY <1>1 DEF ProcessTyped
<1>3. QED  BY <1>1, <1>2 DEF PhaseInv, Serving, Applying

\* What the background thread does when a call has failed.
LEMMA StepTableFails ==
  ASSUME IInv, TableFails
  PROVE  IInv' /\ Full' = Full
<1>1. /\ pc = "build" /\ Event /\ faulty' = TRUE
      /\ dirs' = Without(dirs, Table(table.no)) /\ UNCHANGED files
  BY DEF TableFails, Fails, RemoveFile
<1>2. /\ Fresh(table.no) /\ table.no # output /\ ProcessTyped /\ HistoryTyped /\ PhaseInv
      /\ table.no \in Nat
  BY <1>1, Typed DEF IInv, ProcessInv, FreshInv, ProcessTyped
<1> DEFINE f == Table(table.no)
<1>3. /\ Still({f}, {}) /\ Dir'.names = Dir.names \ {f}
  <2>1. table.no \notin version \cup edit.add \cup InUse
    BY <1>2 DEF Fresh
  <2>2. Dir.current # 0 => f # Manifest(Dir.current)
                            /\ \A v \in Views(Dir.current) : \A t \in v.tables : f # Table(t)
    <3>1. Dir.current # 0 => \A v \in Views(Dir.current) : \A t \in v.tables : t \in InUse
      BY Typed DEF InUse
    <3>2. QED  BY <2>1, <3>1, Names
  <2>3. (\A l \in Nat : f # Log(l)) /\ (\A t \in version \cup edit.add : f # Table(t))
    BY <2>1, Names
  <2>4. QED
    <3>1. PICK g : g = f
      OBVIOUS
    <3>2. /\ dirs' = Without(dirs, g)
          /\ Dir.current # 0 => g # Manifest(Dir.current)
                                /\ \A v \in Views(Dir.current) : \A t \in v.tables : g # Table(t)
          /\ (\A l \in Nat : g # Log(l)) /\ (\A t \in version \cup edit.add : g # Table(t))
      BY <1>1, <2>2, <2>3, <3>1
    <3>3. Still({g}, {}) /\ Dir'.names = Dir.names \ {g}
      BY <1>1, <3>2, StillRemove
    <3>4. QED  BY <3>1, <3>3
<1>4. ASSUME ~up PROVE IInv'
  <2>1. Forget /\ UNCHANGED history
    BY <1>4 DEF TableFails, OpenFails
  <2>2. HistoryTyped'
    BY <1>1, <1>2, <2>1, EventTyped DEF history
  <2>3. synced' = synced /\ writes' \in Nat /\ writes' >= writes
    BY <1>2, <2>1 DEF HistoryTyped, history
  <2>4. DiskInv'
    BY <1>3, <2>3, KeepDisk DEF Still
  <2>5. QED  BY <2>1, <2>2, <2>4, ForgetInv
<1>5. ASSUME up PROVE IInv'
  <2>1. job = "flush" /\ Serving /\ edit = NoEdit /\ garbage = {}
    BY <1>1, <1>5, UpFacts
  <2>2. /\ bgError' = TRUE /\ edit' = NoEdit /\ table' = NoTable
        /\ pc' = Resume /\ UNCHANGED <<inputs, output>>
        /\ UNCHANGED <<up, version, nextFile, manifestNo, logNo, lastSeq, mem, imm, logFileNo,
                       logs, replay, maxSeq, save, garbage, writing, writes, acked, synced, losses>>
        /\ pending' = pending \ {table.no} /\ UNCHANGED <<job, descriptor>>
    BY <1>5, <2>1 DEF TableFails, RecordBackgroundError, openVars, history
  <2>3. pc' \in {"merge", "idle"} /\ (pc' = "merge" <=> inputs # {})
    BY <2>2 DEF Resume
  <2>4. HistoryTyped'
    BY <1>1, <1>2, <2>2, EventTyped
  <2>5. nextFile \in Nat /\ lastSeq \in Nat /\ writes \in Nat /\ logFileNo \in Nat
    BY <1>2 DEF ProcessTyped, HistoryTyped
  <2>6. DiskInv'
    BY <1>3, <2>2, <2>5, KeepDisk DEF Still
  <2>7. ProcessTyped'
    <3>1. NoEdit \in VersionEdit /\ NoTable \in [no : Nat, entries : SUBSET Update]
      BY DEF NoEdit, VersionEdit, NoTable
    <3>2. QED  BY <1>2, <2>2, <2>3, <3>1 DEF ProcessTyped, Places
  <2>8. PhaseInv'
    <3>1. output # 0 => inputs # {}
      BY <1>5, UpFacts
    <3>2. pending = {table.no} \cup (IF output # 0 THEN {output} ELSE {})
      BY <1>1, <1>5, UpFacts
    <3>3. pending' = IF output # 0 THEN {output} ELSE {}
      BY <1>2, <2>2, <3>2
    <3>4. QED  BY <1>5, <2>1, <2>2, <2>3, <3>1, <3>3 DEF PhaseInv, Applying, Creating
  <2>9. FreshInv'
    <3>1. ASSUME output # 0 PROVE Fresh(output)'
      <4>1. Fresh(output) /\ output \in Nat
        BY <1>1, <1>2, <3>1, UpFacts, <1>5 DEF FreshInv, IInv, ProcessInv, Applying
      <4>2. Table(output) \notin {f}
        BY <1>2, Names
      <4>3. PICK o \in Nat : o = output
        BY <4>1
      <4>4. o \notin version' \cup edit'.add
        BY <2>2, <4>1, <4>3 DEF Fresh, NoEdit
      <4>5. Fresh(o)'
        BY <1>3, <2>2, <2>5, <4>1, <4>2, <4>3, <4>4, CalmFirm, KeepFresh DEF Still
      <4>6. QED  BY <2>2, <4>3, <4>5 DEF Fresh
    <3>2. QED  BY <2>2, <2>3, <3>1 DEF FreshInv
  <2>10. ManifestInv'
    <3>1. lastSeq' <= writes'
      BY <2>1, <2>2 DEF IInv, ProcessInv, ManifestInv
    <3>2. ~Recorded'
      BY <2>3 DEF Recorded
    <3>3. QED  BY <1>3, <1>5, <2>1, <2>2, <2>3, <2>5, <3>1, <3>2, CalmFirm, KeepManifest DEF Still
  <2>11. LogInv'
    BY <1>3, <1>5, <2>1, <2>2, <2>5, StillSteady, KeepLog
  <2>12. VersionInv'
    <3>1. inputs' \subseteq version /\ logNo \in Nat
      BY <1>2, <2>1, <2>2 DEF IInv, ProcessInv, VersionInv, ProcessTyped
    <3>2. QED  BY <1>3, <2>1, <2>2, <2>5, <3>1, CalmFirm, KeepVersion DEF Still
  <2>13. ApplyInv'
    BY <2>3 DEF ApplyInv, Applying
  <2>14. WriteInv'
    BY <1>3, <2>1, <2>2, StillSteady, KeepWrite
  <2>15. NumbersInv'
    BY <1>1 DEF NumbersInv
  <2>16. QED
    BY <1>5, <2>2, <2>4, <2>6, <2>7, <2>8, <2>9, <2>10, <2>11, <2>12, <2>13, <2>14, <2>15,
       <2>3, UpInv
<1>6. IInv'
  BY <1>2, <1>4, <1>5 DEF ProcessTyped
<1>7. Full' = Full
  BY <1>3, StillFacts
<1>8. QED  BY <1>6, <1>7

\* Steps of the background thread.
LEMMA KeepServing ==
  ASSUME IInv, NEW X, NEW Y, Still(X, Y), up, up', bgError => bgError',
         UNCHANGED <<version, manifestNo, logNo, lastSeq, descriptor, mem, imm, logFileNo, writing,
                     writes, acked, synced>>,
         garbage' = {} \/ garbage' = garbage, inputs' \subseteq version,
         nextFile' \in Nat, nextFile' >= nextFile,
         ~bgError' => Target' = Target /\ TargetLog' = TargetLog,
         Recorded' => Recorded /\ edit' = edit,
         pc' = "install" => pc = "install" \/ \A v \in Views(manifestNo)' : v = Final
  PROVE  DiskInv' /\ ManifestInv' /\ LogInv' /\ VersionInv' /\ WriteInv'
<1>1. /\ Serving /\ lastSeq' \in Nat /\ lastSeq' >= lastSeq /\ lastSeq' <= writes' /\ writes' \in Nat
      /\ writes' >= writes /\ logNo' >= logNo /\ logNo' \in Nat
      /\ logFileNo' \in Nat /\ logFileNo' >= logFileNo
  BY Typed DEF IInv, ProcessInv, ProcessTyped, HistoryTyped, ManifestInv, Serving
<1>2. DiskInv'
  BY <1>1, KeepDisk DEF Still
<1>3. ManifestInv'
  BY <1>1, CalmFirm, KeepManifest DEF Still
<1>4. LogInv'
  BY <1>1, StillSteady, KeepLog
<1>5. VersionInv'
  BY <1>1, CalmFirm, KeepVersion DEF Still
<1>6. WriteInv'
  BY <1>1, StillSteady, KeepWrite
<1>7. QED  BY <1>2, <1>3, <1>4, <1>5, <1>6

LEMMA KeepOutput ==
  ASSUME IInv, NEW X, Firm(X), up, output # 0 => ~(Applying /\ job = "merge"),
         UNCHANGED <<output, version>>, output \notin edit'.add, Table(output) \notin X,
         nextFile' \in Nat, nextFile' >= nextFile
  PROVE  output' # 0 => Fresh(output)'
<1> SUFFICES ASSUME output # 0 PROVE Fresh(output)'
  OBVIOUS
<1>1. Fresh(output) /\ output \in Nat
  BY UpFacts DEF FreshInv, IInv, ProcessInv
<1>2. PICK o \in Nat : o = output
  BY <1>1
<1>3. o \notin version' \cup edit'.add
  BY <1>1, <1>2 DEF Fresh
<1>4. Fresh(o)'
  BY <1>1, <1>2, <1>3, KeepFresh
<1>5. QED  BY <1>2, <1>4 DEF Fresh

\* A job fails whose MANIFEST record may or may not be there.
LEMMA StepApplyFails ==
  ASSUME IInv, ManifestFails \/ CurrentFails
  PROVE  IInv' /\ Full' = Full
<1>1. /\ Event /\ faulty' = TRUE /\ ApplyFails
      /\ pc \in {"create", "append", "sync", "apply", "temp", "rename"}
      /\ pc = "apply" => ~descriptor
  BY DEF ManifestFails, CurrentFails, Fails
<1>2. ProcessTyped /\ HistoryTyped /\ PhaseInv /\ DiskTyped
  BY Typed DEF IInv, ProcessInv
<1> DEFINE T == Temp(manifestNo)
           M == Manifest(manifestNo)
<1>3. /\ dirs' = IF ~NewManifest \/ pc = "create" THEN dirs
                 ELSE IF job = "new" /\ pc \in {"temp", "rename"} THEN Without(dirs, T)
                 ELSE Without(Without(dirs, T), M)
      /\ UNCHANGED files
  BY <1>1 DEF ApplyFails
<1>4. \E X : Still(X, {}) /\ X \subseteq {T, M} /\ (Dir.current = manifestNo => X = {})
  <2>1. CASE ~NewManifest \/ pc = "create"
    <3>1. UNCHANGED diskVars
      BY <1>3, <2>1 DEF diskVars
    <3>2. QED  BY <3>1, StillSame
  <2>2. CASE ~(~NewManifest \/ pc = "create") /\ job = "new" /\ pc \in {"temp", "rename"}
    <3>1. PICK t : t = T
      OBVIOUS
    <3>2. dirs' = Without(dirs, t)
      BY <1>3, <2>2, <3>1
    <3>3. (\A n : t # Manifest(n)) /\ (\A n : t # Table(n)) /\ \A n : t # Log(n)
      BY <3>1, Names
    <3>4. Still({t}, {})
      BY <1>3, <3>2, <3>3, StillRemove
    <3>5. Dir.current # manifestNo
      BY <2>2 DEF NewManifest
    <3>6. QED  BY <3>1, <3>4, <3>5
  <2>3. CASE ~(~NewManifest \/ pc = "create") /\ ~(job = "new" /\ pc \in {"temp", "rename"})
    <3>1. PICK t, m : t = T /\ m = M
      OBVIOUS
    <3>2. dirs' = Without(Without(dirs, t), m)
      BY <1>3, <2>3, <3>1
    <3>3. Dir.current # manifestNo
      BY <2>3 DEF NewManifest
    <3>4. /\ (\A n : t # Manifest(n)) /\ (\A n : t # Table(n)) /\ (\A n : t # Log(n))
          /\ (\A n : m # Table(n)) /\ (\A n : m # Log(n)) /\ m # Manifest(Dir.current)
      BY <3>1, <3>3, Names
    <3>5. DiskTyped' /\ Frame({t, m}, {})
      BY <1>2, <1>3, <3>2, WithoutTwo
    <3>6. Harmless({t, m}, {})
      BY <3>4 DEF Harmless
    <3>7. Still({t, m}, {})
      BY <3>4, <3>5, <3>6 DEF Still, Calm
    <3>8. QED  BY <3>1, <3>3, <3>7
  <2>4. QED  BY <2>1, <2>2, <2>3
<1>5. PICK X : Still(X, {}) /\ X \subseteq {T, M} /\ (Dir.current = manifestNo => X = {})
  BY <1>4
<1>6. ASSUME ~up PROVE IInv'
  <2>1. Forget /\ UNCHANGED history
    BY <1>1, <1>6 DEF ApplyFails, OpenFails
  <2>2. HistoryTyped'
    BY <1>1, <1>2, <2>1, EventTyped DEF history
  <2>3. synced' = synced /\ writes' \in Nat /\ writes' >= writes
    BY <1>2, <2>1 DEF HistoryTyped, history
  <2>4. DiskInv'
    BY <1>5, <2>3, KeepDisk DEF Still
  <2>5. QED  BY <2>1, <2>2, <2>4, ForgetInv
<1>7. ASSUME up PROVE IInv'
  <2>1. /\ Serving /\ Applying /\ job \in {"flush", "merge"} /\ garbage = {} /\ pc # "build"
        /\ Dir.current = manifestNo /\ descriptor /\ output \in Nat
        /\ pending = (IF output # 0 THEN {output} ELSE {}) /\ (output # 0 => inputs # {})
    BY <1>1, <1>7, UpFacts, ServingFacts DEF Applying
  <2>2. pc \in {"append", "sync"} /\ X = {}
    BY <1>1, <1>5, <1>7, <2>1 DEF Applying
  <2>3. /\ bgError' = TRUE /\ edit' = NoEdit /\ table' = NoTable
        /\ IF job = "flush" THEN pc' = Resume /\ UNCHANGED <<inputs, output>>
           ELSE pc' = "idle" /\ inputs' = {} /\ output' = 0
        /\ UNCHANGED <<up, version, nextFile, manifestNo, logNo, lastSeq, mem, imm, logFileNo,
                       logs, replay, maxSeq, save, garbage, writing, writes, acked, synced, losses>>
        /\ pending' = (IF job = "flush" THEN pending ELSE pending \ {output})
        /\ UNCHANGED <<job, descriptor>>
    BY <1>1, <1>7 DEF ApplyFails, RecordBackgroundError, openVars, history
  <2>4. /\ pc' \in {"merge", "idle"} /\ (pc' = "merge" => inputs' # {}) /\ (pc' = "idle" => inputs' = {})
        /\ inputs' \subseteq inputs /\ output' \in Nat /\ (output' # 0 => inputs' # {})
        /\ pending' = IF output' # 0 THEN {output'} ELSE {}
    BY <2>1, <2>3 DEF Resume
  <2>5. HistoryTyped'
    BY <1>1, <1>2, <2>3, EventTyped
  <2>6. ProcessTyped'
    <3>1. NoEdit \in VersionEdit /\ NoTable \in [no : Nat, entries : SUBSET Update]
      BY DEF NoEdit, VersionEdit, NoTable
    <3>2. inputs' \in SUBSET Nat /\ pending' \in SUBSET Nat
      BY <1>2, <2>4 DEF ProcessTyped
    <3>3. QED  BY <1>2, <2>3, <2>4, <3>1, <3>2 DEF ProcessTyped, Places
  <2>7. PhaseInv'
    BY <1>7, <2>1, <2>3, <2>4 DEF PhaseInv, Applying, Creating
  <2>8. nextFile' \in Nat /\ nextFile' >= nextFile
    BY <1>2, <2>3 DEF ProcessTyped
  <2>9. FreshInv'
    <3>1. CASE job = "flush"
      <4>1. Table(output) \notin X /\ output \notin edit'.add
        BY <2>2, <2>3 DEF NoEdit
      <4>2. output' # 0 => Fresh(output)'
        BY <1>5, <1>7, <2>3, <2>8, <3>1, <4>1, CalmFirm, KeepOutput DEF Still
      <4>3. QED  BY <2>4, <4>2 DEF FreshInv
    <3>2. CASE job = "merge"
      BY <2>3, <2>4, <3>2 DEF FreshInv
    <3>3. QED  BY <2>1, <3>1, <3>2
  <2>10. DiskInv' /\ ManifestInv' /\ LogInv' /\ VersionInv' /\ WriteInv'
    <3>1. inputs' \subseteq version /\ ~Recorded' /\ pc' # "install"
      BY <2>1, <2>4 DEF IInv, ProcessInv, VersionInv, Recorded
    <3>2. QED  BY <1>5, <1>7, <2>3, <2>8, <3>1, KeepServing
  <2>11. ApplyInv' /\ NumbersInv'
    BY <1>1, <2>4 DEF ApplyInv, Applying, NumbersInv
  <2>12. QED
    BY <1>7, <2>3, <2>4, <2>5, <2>6, <2>7, <2>9, <2>10, <2>11, UpInv
<1>8. IInv'
  BY <1>2, <1>6, <1>7 DEF ProcessTyped
<1>9. Full' = Full
  BY <1>5, StillFacts
<1>10. QED  BY <1>8, <1>9

(***************************************************************************)
(* The steps of the background thread up to its MANIFEST record.           *)
(***************************************************************************)
LEMMA NewFresh ==
  ASSUME IInv, Opening \/ Serving, NewWritableFile(Table(nextFile), <<>>), nextFile' = nextFile + 1,
         version' = version, edit' = edit, NEW n, n = nextFile
  PROVE  Fresh(n)' /\ n \in Nat
<1>1. Still({Table(n)}, {Table(n)}) /\ n \notin InUse /\ Table(n) \in Dir'.names
  BY StillTable
<1>2. InUse' \subseteq InUse
  BY <1>1, StillFacts
<1>3. n \in Nat /\ n # 0
  BY Typed DEF ProcessTyped
<1>4. n \notin version \cup edit.add
  BY <1>3, Present
<1>5. QED  BY <1>1, <1>2, <1>3, <1>4 DEF Fresh, Table

LEMMA KeepFreshInv ==
  ASSUME IInv, NEW X, Firm(X), up, up',
         UNCHANGED <<pc, job, table, output, edit, version>>, \A t \in Nat : Table(t) \notin X,
         nextFile' \in Nat, nextFile' >= nextFile
  PROVE  FreshInv'
<1>1. FreshInv /\ ProcessTyped /\ Applying' = Applying
  BY DEF IInv, ProcessInv, Applying
<1>2. PICK o \in Nat, t \in Nat : o = output /\ t = table.no
  BY <1>1 DEF ProcessTyped
<1>3. \A n \in {o, t} : Fresh(n) => Fresh(n)'
  <2>1. \A n \in Nat : Fresh(n) => n \notin version' \cup edit'.add
    BY DEF Fresh
  <2>2. QED  BY <1>2, <2>1, KeepFresh
<1>4. QED  BY <1>1, <1>2, <1>3 DEF FreshInv, Fresh

LEMMA StepBeginFlush ==
  ASSUME IInv, BeginFlush
  PROVE  IInv'
<1>1. /\ up /\ imm # {} /\ pc \in {"idle", "merge"} /\ NewWritableFile(Table(nextFile), <<>>)
      /\ table' = [no |-> nextFile, entries |-> imm] /\ nextFile' = nextFile + 1
      /\ pending' = pending \cup {nextFile} /\ pc' = "build" /\ job' = "flush"
      /\ UNCHANGED <<up, version, manifestNo, logNo, lastSeq, descriptor, mem, imm, logFileNo,
                     bgError, logs, replay, maxSeq, save, edit, inputs, output, garbage, writing>>
      /\ UNCHANGED <<writes, acked, synced, losses, faulty, events>>
  BY DEF BeginFlush, NewTable, openVars, history, bounds
<1>2. ProcessTyped /\ HistoryTyped /\ Serving /\ edit = NoEdit /\ garbage = {}
      /\ pending = (IF output # 0 THEN {output} ELSE {}) /\ (output # 0 => inputs # {})
      /\ inputs \subseteq version
  BY <1>1, UpFacts, Typed DEF IInv, ProcessInv, VersionInv
<1>3. PICK n : n = nextFile
  OBVIOUS
<1>4. /\ Still({Table(n)}, {Table(n)}) /\ Dir'.names = Dir.names \cup {Table(n)}
      /\ Fresh(n)' /\ n \in Nat
  BY <1>1, <1>2, <1>3, StillTable, NewFresh
<1>5. nextFile' \in Nat /\ nextFile' >= nextFile
  BY <1>1, <1>3, <1>4
<1>6. output # n /\ (output # 0 => Fresh(output) /\ output \in Nat)
  <2>1. output # 0 => Fresh(output) /\ output \in Nat
    BY <1>1, <1>2 DEF FreshInv, IInv, ProcessInv, Applying, ProcessTyped
  <2>2. n # 0
    BY <1>2, <1>3 DEF ProcessTyped
  <2>3. QED  BY <1>3, <1>4, <2>1, <2>2 DEF Fresh
<1>7. ProcessTyped'
  <2>1. table' \in [no : Nat, entries : SUBSET Update] /\ pending' \in SUBSET Nat
    BY <1>1, <1>2, <1>3, <1>4 DEF ProcessTyped
  <2>2. nextFile' >= 2
    BY <1>2, <1>5 DEF ProcessTyped
  <2>3. QED  BY <1>1, <1>2, <1>5, <2>1, <2>2 DEF ProcessTyped, Places
<1>8. HistoryTyped'
  BY <1>1, <1>2 DEF HistoryTyped
<1>9. PhaseInv'
  BY <1>1, <1>2, <1>3 DEF PhaseInv, Applying, Creating
<1>10. FreshInv'
  <2>1. output' # 0 => Fresh(output)'
    <3>1. Table(output) \notin {Table(n)} /\ output \notin edit'.add
      BY <1>1, <1>2, <1>6, Names DEF NoEdit
    <3>2. ~Applying
      BY <1>1 DEF Applying
    <3>3. QED  BY <1>1, <1>4, <1>5, <3>1, <3>2, CalmFirm, KeepOutput DEF Still
  <2>2. table'.no = n
    BY <1>1, <1>3
  <2>3. Fresh(table.no)' /\ table'.no # output'
    BY <1>1, <1>4, <1>6, <2>2 DEF Fresh
  <2>4. QED  BY <2>1, <2>3 DEF FreshInv
<1>11. DiskInv' /\ ManifestInv' /\ LogInv' /\ VersionInv' /\ WriteInv'
  <2>1. ~Recorded /\ ~Recorded' /\ pc' # "install"
    BY <1>1 DEF Recorded
  <2>2. Target' = Target /\ TargetLog' = TargetLog
    BY <1>1, <2>1 DEF Target, TargetLog
  <2>3. QED  BY <1>1, <1>2, <1>4, <1>5, <2>1, <2>2, KeepServing
<1>12. ApplyInv'
  BY <1>1 DEF ApplyInv, Applying
<1>13. NumbersInv'
  <2>1. \A t \in Nat : Table(t) \in Dir'.names => Table(t) \in Dir.names \/ t < nextFile'
    BY <1>1, <1>3, <1>4, Names
  <2>2. QED  BY <1>1, <1>5, <2>1, KeepNumbers
<1>14. QED  BY <1>1, <1>7, <1>8, <1>9, <1>10, <1>11, <1>12, <1>13, UpInv

LEMMA StepBeginCompaction ==
  ASSUME IInv, BeginCompaction
  PROVE  IInv'
<1>1. /\ up /\ pc = "idle" /\ imm = {} /\ inputs' \in (SUBSET version) \ {{}} /\ pc' = "merge" /\ Event
      /\ UNCHANGED <<job, up, version, nextFile, manifestNo, logNo, lastSeq, descriptor>>
      /\ UNCHANGED <<mem, imm, logFileNo, bgError, pending, logs, replay, maxSeq, save>>
      /\ UNCHANGED <<diskVars, table, edit, output, garbage, writing, faulty>>
      /\ UNCHANGED <<writes, acked, synced, losses>>
  BY DEF BeginCompaction, versionVars, memVars, openVars, history
<1>2. ProcessTyped /\ HistoryTyped /\ Serving /\ edit = NoEdit /\ garbage = {} /\ output = 0
      /\ table = NoTable /\ pending = {}
  BY <1>1, UpFacts, Typed
<1>3. Still({}, {}) /\ Dir' = Dir
  BY <1>1, StillSame
<1>4. nextFile' \in Nat /\ nextFile' >= nextFile
  BY <1>1, <1>2 DEF ProcessTyped
<1>5. ProcessTyped'
  <2>1. inputs' \in SUBSET Nat
    BY <1>1, <1>2 DEF ProcessTyped
  <2>2. QED  BY <1>1, <1>2, <2>1 DEF ProcessTyped, Places
<1>6. HistoryTyped'
  BY <1>1, <1>2, EventTyped DEF HistoryTyped
<1>7. PhaseInv' /\ FreshInv' /\ ApplyInv'
  BY <1>1, <1>2 DEF PhaseInv, Applying, Creating, FreshInv, ApplyInv
<1>8. DiskInv' /\ ManifestInv' /\ LogInv' /\ VersionInv' /\ WriteInv'
  <2>1. ~Recorded /\ ~Recorded' /\ pc' # "install" /\ inputs' \subseteq version
    BY <1>1 DEF Recorded
  <2>2. Target' = Target /\ TargetLog' = TargetLog
    BY <1>1, <2>1 DEF Target, TargetLog
  <2>3. QED  BY <1>1, <1>2, <1>3, <1>4, <2>1, <2>2, KeepServing
<1>9. NumbersInv'
  BY <1>1, <1>3, <1>4, KeepNumbers
<1>10. QED  BY <1>1, <1>5, <1>6, <1>7, <1>8, <1>9, UpInv

LEMMA StepOpenOutput ==
  ASSUME IInv, OpenOutput
  PROVE  IInv'
<1>1. /\ pc = "merge" /\ output = 0 /\ output' = nextFile /\ nextFile' = nextFile + 1
      /\ pending' = pending \cup {nextFile} /\ NewWritableFile(Table(nextFile), <<>>)
      /\ UNCHANGED <<pc, job, up, version, manifestNo, logNo, lastSeq, descriptor, mem, imm, logFileNo,
                     bgError, logs, replay, maxSeq, save, table, edit, inputs, garbage, writing>>
      /\ UNCHANGED <<writes, acked, synced, losses, faulty, events>>
  BY DEF OpenOutput, openVars, history, bounds
<1>2. PhaseInv /\ ProcessTyped /\ HistoryTyped
  BY Typed DEF IInv, ProcessInv
<1>3. up
  BY <1>1, <1>2 DEF PhaseInv, Creating, Opening, Saving
<1>4. /\ Serving /\ edit = NoEdit /\ garbage = {} /\ pending = {} /\ inputs # {} /\ table = NoTable
      /\ inputs \subseteq version
  BY <1>1, <1>3, UpFacts DEF IInv, ProcessInv, VersionInv
<1>5. PICK n : n = nextFile
  OBVIOUS
<1>6. /\ Still({Table(n)}, {Table(n)}) /\ Dir'.names = Dir.names \cup {Table(n)}
      /\ Fresh(n)' /\ n \in Nat
  BY <1>1, <1>4, <1>5, StillTable, NewFresh
<1>7. nextFile' \in Nat /\ nextFile' >= nextFile /\ nextFile' >= 2
  BY <1>1, <1>2, <1>5, <1>6 DEF ProcessTyped
<1>8. ProcessTyped'
  <2>1. pending' \in SUBSET Nat /\ output' \in Nat
    BY <1>1, <1>2, <1>5, <1>6 DEF ProcessTyped
  <2>2. QED  BY <1>1, <1>2, <1>7, <2>1 DEF ProcessTyped, Places
<1>9. HistoryTyped'
  BY <1>1, <1>2 DEF HistoryTyped
<1>10. PhaseInv'
  <2>1. output' # 0
    BY <1>1, <1>2 DEF ProcessTyped
  <2>2. QED  BY <1>1, <1>3, <1>4, <2>1 DEF PhaseInv, Applying, Creating
<1>11. FreshInv'
  <2>1. output' = n
    BY <1>1, <1>5
  <2>2. Fresh(output)'
    BY <1>6, <2>1 DEF Fresh
  <2>3. QED  BY <1>1, <2>2 DEF FreshInv
<1>12. DiskInv' /\ ManifestInv' /\ LogInv' /\ VersionInv' /\ WriteInv'
  <2>1. ~Recorded /\ ~Recorded' /\ pc' # "install"
    BY <1>1 DEF Recorded
  <2>2. Target' = Target /\ TargetLog' = TargetLog
    BY <1>1, <2>1 DEF Target, TargetLog
  <2>3. QED  BY <1>1, <1>3, <1>4, <1>6, <1>7, <2>1, <2>2, KeepServing
<1>13. ApplyInv'
  BY <1>1 DEF ApplyInv, Applying
<1>14. NumbersInv'
  <2>1. \A t \in Nat : Table(t) \in Dir'.names => Table(t) \in Dir.names \/ t < nextFile'
    BY <1>1, <1>5, <1>6, Names
  <2>2. QED  BY <1>1, <1>3, <1>7, <2>1, KeepNumbers
<1>15. QED  BY <1>1, <1>3, <1>8, <1>9, <1>10, <1>11, <1>12, <1>13, <1>14, UpInv

LEMMA StepOutputFails ==
  ASSUME IInv, OutputFails
  PROVE  IInv'
<1>1. /\ pc = "merge" /\ output # 0 /\ Event /\ faulty' = TRUE /\ bgError' = TRUE
      /\ pending' = pending \ {output} /\ pc' = "idle" /\ inputs' = {} /\ output' = 0
      /\ UNCHANGED <<job, up, version, nextFile, manifestNo, logNo, lastSeq, descriptor, mem, imm>>
      /\ UNCHANGED <<diskVars, logFileNo, logs, replay, maxSeq, save, table, edit, garbage, writing>>
      /\ UNCHANGED <<writes, acked, synced, losses>>
  BY DEF OutputFails, Fails, versionVars, openVars, history
<1>2. PhaseInv /\ ProcessTyped /\ HistoryTyped
  BY Typed DEF IInv, ProcessInv
<1>3. up
  BY <1>1, <1>2 DEF PhaseInv, Creating, Opening, Saving
<1>4. /\ Serving /\ edit = NoEdit /\ garbage = {} /\ pending = {output} /\ table = NoTable
  BY <1>1, <1>3, UpFacts
<1>5. Still({}, {}) /\ Dir' = Dir
  BY <1>1, StillSame
<1>6. nextFile' \in Nat /\ nextFile' >= nextFile
  BY <1>1, <1>2 DEF ProcessTyped
<1>7. ProcessTyped'
  <2>1. bgError' \in BOOLEAN
    BY <1>1, Zenon
  <2>2. pending' \in SUBSET Nat /\ inputs' \in SUBSET Nat /\ output' \in Nat
    BY <1>1, <1>2 DEF ProcessTyped
  <2>3. QED  BY <1>1, <1>2, <2>1, <2>2 DEF ProcessTyped, Places
<1>8. HistoryTyped'
  BY <1>1, <1>2, EventTyped
<1>9. PhaseInv' /\ FreshInv' /\ ApplyInv'
  <2>1. pending' = {}
    BY <1>1, <1>4
  <2>2. QED  BY <1>1, <1>3, <1>4, <2>1 DEF PhaseInv, Applying, Creating, FreshInv, ApplyInv
<1>10. DiskInv' /\ ManifestInv' /\ LogInv' /\ VersionInv' /\ WriteInv'
  <2>1. ~Recorded' /\ pc' # "install"
    BY <1>1 DEF Recorded
  <2>2. QED  BY <1>1, <1>3, <1>4, <1>5, <1>6, <2>1, KeepServing
<1>11. NumbersInv'
  BY <1>1 DEF NumbersInv
<1>12. QED  BY <1>1, <1>3, <1>7, <1>8, <1>9, <1>10, <1>11, UpInv

\* A table is whole; its edit goes into LogAndApply.
LEMMA InputsTyped ==
  ASSUME IInv, inputs \subseteq version
  PROVE  TableEntries(inputs) \in SUBSET Update
<1>1. \A t \in inputs : Table(t) \in DOMAIN files /\ Whole(t)
  BY Present, Typed
<1>2. ASSUME NEW t \in inputs PROVE Recs(Table(t))[1] \subseteq Update
  <2>1. Recs(Table(t)) \in Seq(SUBSET Update) /\ Len(Recs(Table(t))) = 1
    BY <1>1, Typed, RecordsTyped DEF Whole, DiskTyped
  <2>2. PICK r : r = Recs(Table(t))
    OBVIOUS
  <2>3. r[1] \in SUBSET Update
    BY <2>1, <2>2
  <2>4. QED  BY <2>2, <2>3
<1>3. QED  BY <1>2 DEF TableEntries

LEMMA StepFinishOutput ==
  ASSUME IInv, FinishOutput
  PROVE  IInv'
<1>1. /\ pc = "merge" /\ output # 0 /\ SyncFile(Table(output), <<TableEntries(inputs)>>)
      /\ job' = "merge" /\ edit' = [NoEdit EXCEPT !.add = {output}, !.del = inputs] /\ pc' = "apply"
      /\ UNCHANGED <<up, version, nextFile, manifestNo, logNo, lastSeq, descriptor, mem, imm, logFileNo,
                     bgError, pending, logs, replay, maxSeq, save, table, inputs, output, garbage>>
      /\ UNCHANGED <<writing, writes, acked, synced, losses, faulty, events>>
  BY DEF FinishOutput, versionVars, memVars, openVars, history, bounds
<1>2. PhaseInv /\ ProcessTyped /\ HistoryTyped /\ DiskTyped
  BY Typed DEF IInv, ProcessInv
<1>3. up
  BY <1>1, <1>2 DEF PhaseInv, Creating, Opening, Saving
<1>4. /\ Serving /\ edit = NoEdit /\ garbage = {} /\ pending = {output} /\ table = NoTable
      /\ inputs # {} /\ inputs \subseteq version /\ Dir.current = manifestNo
  BY <1>1, <1>3, UpFacts, ServingFacts DEF IInv, ProcessInv, VersionInv
<1>5. PICK o, S : o \in Nat /\ o = output /\ S = TableEntries(inputs)
  BY <1>2 DEF ProcessTyped
<1>6. Fresh(o)
  BY <1>1, <1>5 DEF FreshInv, IInv, ProcessInv, Applying
<1>7. S \in SUBSET Update
  BY <1>4, <1>5, InputsTyped
<1>8. /\ Still({}, {Table(o)}) /\ Dirs' = {Dir} /\ Dir' = Dir
      /\ Whole(o)' /\ Recs(Table(o))' = <<S>>
  BY <1>1, <1>5, <1>6, <1>7, StillBuilt
<1>9. nextFile' \in Nat /\ nextFile' >= nextFile
  BY <1>1, <1>2 DEF ProcessTyped
<1>10. edit'.add = {o} /\ edit'.del = inputs /\ edit' \in VersionEdit
  <2>1. inputs \in SUBSET Nat
    BY <1>2 DEF ProcessTyped
  <2>2. QED  BY <1>1, <1>5, <2>1 DEF NoEdit, VersionEdit
<1>11. ProcessTyped'
  BY <1>1, <1>2, <1>10 DEF ProcessTyped, Places
<1>12. HistoryTyped'
  BY <1>1, <1>2 DEF HistoryTyped
<1>13. PhaseInv'
  BY <1>1, <1>3, <1>4 DEF PhaseInv, Applying, Creating
<1>14. FreshInv'
  BY <1>1, <1>3 DEF FreshInv, Applying
<1>15. DiskInv' /\ ManifestInv' /\ LogInv' /\ VersionInv' /\ WriteInv'
  <2>1. ~Recorded /\ ~Recorded' /\ pc' # "install"
    BY <1>1 DEF Recorded
  <2>2. Target' = Target /\ TargetLog' = TargetLog
    BY <1>1, <2>1 DEF Target, TargetLog
  <2>3. QED  BY <1>1, <1>3, <1>4, <1>8, <1>9, <2>1, <2>2, KeepServing
<1>16. ApplyInv'
  <2>1. TableEntries(inputs)' = S
    BY <1>1, <1>4, <1>5, <1>8, StillFacts
  <2>2. \A t : Recs(Table(t))' = files'[Table(t)].recs
    BY DEF Recs, Table
  <2>3. TableEntries(edit.add)' = S
    <3>1. files'[Table(o)].recs = <<S>>
      BY <1>8, <2>2
    <3>2. PICK r : r = files'[Table(o)].recs
      OBVIOUS
    <3>3. TableEntries(edit.add)' = UNION {files'[Table(t)].recs[1] : t \in {o}}
      BY <1>10 DEF TableEntries, Recs, Table
    <3>4. r[1] = S
      BY <3>1, <3>2
    <3>5. QED  BY <3>2, <3>3, <3>4
  <2>4. o < nextFile' /\ o \notin version' /\ Table(o) \in Dir'.names /\ o # 0 /\ o \notin inputs
    BY <1>1, <1>4, <1>6, <1>8 DEF Fresh
  <2>5. \A d \in Dirs' : d.current = manifestNo /\ Table(o) \in d.names
    BY <1>4, <1>8, <2>4
  <2>6. QED
    BY <1>1, <1>3, <1>5, <1>8, <1>10, <2>1, <2>3, <2>4, <2>5 DEF ApplyInv, Applying, Table
<1>17. NumbersInv'
  BY <1>1, <1>3, <1>8, <1>9, KeepNumbers
<1>18. QED  BY <1>1, <1>3, <1>11, <1>12, <1>13, <1>14, <1>15, <1>16, <1>17, UpInv

\* The invariant of a step after which the database is still being opened.
LEMMA OpenInv ==
  ASSUME DiskInv', ProcessTyped', HistoryTyped', PhaseInv', FreshInv', RecoveredInv', ReplayInv',
         SaveInv', CreateInv', ~up', pc' \notin {"install", "delete"}, writing' = NotWriting
  PROVE  IInv'
<1>1. ~Serving' /\ ~Applying'
  BY DEF Serving, Applying
<1>2. ManifestInv' /\ LogInv' /\ VersionInv' /\ ApplyInv' /\ NumbersInv'
  BY <1>1 DEF ManifestInv, LogInv, VersionInv, ApplyInv, NumbersInv
<1>3. WriteInv'
  BY DEF WriteInv, NotWriting
<1>4. QED  BY <1>2, <1>3 DEF IInv, ProcessInv, GarbageInv

LEMMA EntriesBuilt ==
  ASSUME NEW t, NEW S, Recs(Table(t))' = <<S>>, NEW A, edit'.add = A \cup {t},
         NEW E, TableEntries(A)' = E
  PROVE  TableEntries(edit.add)' = E \cup S
<1>1. files'[Table(t)].recs = <<S>>
  BY DEF Recs, Table
<1>2. PICK r : r = files'[Table(t)].recs
  OBVIOUS
<1>3. r[1] = S
  BY <1>1, <1>2
<1>4. TableEntries(edit.add)' = UNION {files'[Table(x)].recs[1] : x \in A \cup {t}}
  BY DEF TableEntries, Recs, Table
<1>5. E = UNION {files'[Table(x)].recs[1] : x \in A}
  BY DEF TableEntries, Recs, Table
<1>6. QED  BY <1>2, <1>3, <1>4, <1>5

\* The log that is being read.
LEMMA Oldest ==
  ASSUME IInv, Opening, logs # {}
  PROVE  /\ OldestLog \in logs /\ OldestLog \in Nat /\ \A l \in logs : OldestLog <= l
         /\ Log(OldestLog) \in Dir.names /\ LogEntries(OldestLog) \subseteq Full
         /\ Recs(Log(OldestLog)) \in Seq(Update)
         /\ \A l \in LogsFor(Dir, logNo) : l \in Nat /\ LogEntries(l) \subseteq Full
<1>1. /\ ProcessTyped /\ logs \subseteq LogsFor(Dir, logNo) /\ logNo = Final.log /\ Dir.current # 0
      /\ DiskTyped /\ Dir.names \subseteq DOMAIN files
  BY Typed DEF IInv, ProcessInv, ReplayInv, RecoveredInv
<1>2. logs \in SUBSET Nat
  BY <1>1 DEF ProcessTyped
<1>3. OldestLog \in logs /\ \A l \in logs : OldestLog <= l
  BY <1>2, LeastNumber DEF OldestLog
<1>4. Full = Says(Dir, Final)
  BY <1>1, FinalFacts
<1>5. \A l \in LogsFor(Dir, logNo) : l \in Nat /\ Log(l) \in Dir.names /\ LogEntries(l) \subseteq Full
  BY <1>1, <1>4 DEF Says, Logged, LogsFor
<1>6. OldestLog \in LogsFor(Dir, logNo)
  BY <1>1, <1>3
<1>7. QED  BY <1>1, <1>3, <1>5, <1>6, RecordsTyped DEF DiskTyped

LEMMA StepTableBuilt ==
  ASSUME IInv, TableBuilt
  PROVE  IInv'
<1>1. /\ pc = "build" /\ SyncFile(Table(table.no), <<table.entries>>)
      /\ pending' = pending \ {table.no} /\ edit' = [edit EXCEPT !.add = @ \cup {table.no}]
      /\ table' = NoTable /\ pc' = IF up THEN "apply" ELSE "replaying"
      /\ UNCHANGED <<job, up, version, nextFile, manifestNo, logNo, lastSeq, descriptor, mem, imm,
                     logFileNo, bgError, logs, replay, maxSeq, save, inputs, output, garbage>>
      /\ UNCHANGED <<writing, writes, acked, synced, losses, faulty, events>>
  BY DEF TableBuilt, versionVars, openVars, history, bounds
<1>2. PhaseInv /\ ProcessTyped /\ HistoryTyped /\ DiskTyped
  BY Typed DEF IInv, ProcessInv
<1>3. PICK t \in Nat, S \in SUBSET Update : t = table.no /\ S = table.entries
  BY <1>2 DEF ProcessTyped
<1>4. Fresh(t) /\ t # output
  BY <1>1, <1>3 DEF FreshInv, IInv, ProcessInv
<1>5. /\ Still({}, {Table(t)}) /\ Dirs' = {Dir} /\ Dir' = Dir
      /\ Whole(t)' /\ Recs(Table(t))' = <<S>>
  BY <1>1, <1>3, <1>4, StillBuilt
<1>6. nextFile' \in Nat /\ nextFile' >= nextFile
  BY <1>1, <1>2 DEF ProcessTyped
<1>7. edit' \in VersionEdit /\ edit'.add = edit.add \cup {t} /\ edit'.del = edit.del
  BY <1>1, <1>2, <1>3 DEF ProcessTyped, VersionEdit
<1>8. PICK A : A = edit.add
  OBVIOUS
<1>9. PICK E : E = TableEntries(edit.add)
  OBVIOUS
<1>10. TableEntries(edit.add)' = E \cup S /\ TableEntries(A)' = E
  <2>1. TableEntries(A)' = E
    BY <1>5, <1>8, <1>9, StillFacts
  <2>2. Recs(Table(t))' = <<S>> /\ edit'.add = A \cup {t}
    BY <1>5, <1>7, <1>8
  <2>3. QED  BY <2>1, <2>2, EntriesBuilt
<1>11. ProcessTyped'
  <2>1. NoTable \in [no : Nat, entries : SUBSET Update] /\ pending' \in SUBSET Nat
    BY <1>1, <1>2 DEF NoTable, ProcessTyped
  <2>2. pc' \in Places
    BY <1>1 DEF Places
  <2>3. QED  BY <1>1, <1>2, <1>7, <2>1, <2>2 DEF ProcessTyped
<1>12. HistoryTyped'
  BY <1>1, <1>2 DEF HistoryTyped
<1>13. CASE up
  <2>1. /\ Serving /\ edit = NoEdit /\ garbage = {} /\ job = "flush" /\ table.entries = imm /\ imm # {}
        /\ pending = {t} \cup (IF output # 0 THEN {output} ELSE {}) /\ (output # 0 => inputs # {})
        /\ inputs \subseteq version /\ Dir.current = manifestNo
    BY <1>1, <1>3, <1>13, UpFacts, ServingFacts DEF IInv, ProcessInv, VersionInv
  <2>2. pending' = (IF output # 0 THEN {output} ELSE {})
    BY <1>1, <1>3, <1>4, <2>1
  <2>3. PhaseInv'
    BY <1>1, <1>13, <2>1, <2>2 DEF PhaseInv, Applying, Creating
  <2>4. FreshInv'
    <3>1. ~Applying /\ output \notin edit'.add
      BY <1>1, <1>4, <1>7, <2>1 DEF Applying, NoEdit
    <3>2. output' # 0 => Fresh(output)'
      BY <1>1, <1>5, <1>6, <1>13, <3>1, CalmFirm, KeepOutput DEF Still
    <3>3. QED  BY <1>1, <1>13, <3>2 DEF FreshInv
  <2>5. DiskInv' /\ ManifestInv' /\ LogInv' /\ VersionInv' /\ WriteInv'
    <3>1. ~Recorded /\ ~Recorded' /\ pc' # "install"
      BY <1>1, <1>13 DEF Recorded
    <3>2. Target' = Target /\ TargetLog' = TargetLog
      BY <1>1, <3>1 DEF Target, TargetLog
    <3>3. QED  BY <1>1, <1>5, <1>6, <1>13, <2>1, <3>1, <3>2, KeepServing
  <2>6. ApplyInv'
    <3>1. E = {}
      BY <1>9, <2>1, TableEntriesUnion DEF NoEdit
    <3>2. TableEntries(edit.add)' = imm /\ edit'.add = {t} /\ edit'.del = {}
      BY <1>3, <1>7, <1>10, <2>1, <3>1 DEF NoEdit
    <3>3. t < nextFile' /\ t \notin version' /\ Table(t) \in Dir'.names
      BY <1>1, <1>4, <1>5 DEF Fresh
    <3>4. \A d \in Dirs' : d.current = manifestNo /\ Table(t) \in d.names
      BY <1>5, <2>1, <3>3
    <3>5. QED
      BY <1>1, <1>5, <1>13, <2>1, <3>2, <3>3, <3>4 DEF ApplyInv, Applying, Table
  <2>7. NumbersInv'
    BY <1>1, <1>5, <1>6, <1>13, KeepNumbers
  <2>8. QED
    BY <1>1, <1>11, <1>12, <1>13, <2>3, <2>4, <2>5, <2>6, <2>7, UpInv
<1>14. CASE ~up
  <2>1. /\ Opening /\ pc' = "replaying" /\ ~Saving /\ ~Saving' /\ ~Creating'
        /\ mem = {} /\ imm = {} /\ ~bgError /\ inputs = {} /\ output = 0 /\ writing = NotWriting
        /\ garbage = {} /\ pending = {t}
    BY <1>1, <1>2, <1>3, <1>14 DEF PhaseInv, Opening, Saving, Creating
  <2>2. /\ RecoveredInv /\ ReplayInv
    BY DEF IInv, ProcessInv
  <2>3. /\ Dir.current # 0 /\ version = Final.tables /\ logNo = Final.log
        /\ Final.seq <= lastSeq /\ lastSeq <= writes /\ maxSeq <= writes
        /\ Final.next <= manifestNo /\ manifestNo < nextFile
        /\ \A d \in Dirs : d.current < manifestNo
        /\ save /\ edit.del = {} /\ ~descriptor
        /\ \A x \in edit.add : x < nextFile /\ x \notin version \cup InUse
        /\ TableEntries(edit.add) \subseteq Full
    BY <2>1, <2>2 DEF RecoveredInv
  <2>4. /\ logs \subseteq LogsFor(Dir, logNo) /\ logs # {} /\ logFileNo = 0
        /\ \A l \in LogsFor(Dir, logNo) \ logs :
             /\ l < nextFile \/ l = logFileNo
             /\ LogEntries(l) \subseteq TableEntries(edit.add)
             /\ \A e \in LogEntries(l) : e.seq <= maxSeq
        /\ LogEntries(OldestLog) \subseteq TableEntries(edit.add) \cup Replaying
        /\ Replaying \subseteq LogEntries(OldestLog)
        /\ \A e \in LogEntries(OldestLog) : e.seq <= maxSeq
    BY <1>1, <2>1, <2>2 DEF ReplayInv
  <2>5. /\ Full' = Full /\ InUse' \subseteq InUse /\ Final' = Final
        /\ \A x \in version \cup edit.add : Table(x) \in Dir'.names /\ Whole(x)'
        /\ \A l \in Nat : Log(l) \in Dir.names => LogEntries(l)' = LogEntries(l)
        /\ \A n : LogsFor(Dir, n)' = LogsFor(Dir, n)
    BY <1>5, <2>3, StillFacts
  <2>6. /\ OldestLog \in logs /\ OldestLog \in Nat /\ Log(OldestLog) \in Dir.names
        /\ LogEntries(OldestLog) \subseteq Full
    BY <2>1, <2>4, Oldest
  <2>7. PICK k, rest : k = OldestLog /\ rest = EntriesOf(replay.left)
    OBVIOUS
  <2>8. Replaying = S \cup rest /\ Replaying' = rest /\ OldestLog' = k
    <3>1. Replaying' = {} \cup EntriesOf(replay'.left)
      BY <1>1 DEF Replaying, NoTable, EntriesOf
    <3>2. QED  BY <1>1, <1>3, <2>7, <3>1 DEF Replaying, OldestLog, EntriesOf
  <2>9. LogEntries(k)' = LogEntries(k) /\ LogEntries(OldestLog)' = LogEntries(k)
    BY <2>5, <2>6, <2>7, <2>8 DEF LogEntries, Log
  <2>10. RecoveredInv'
    <3>1. TableEntries(edit.add)' \subseteq Full'
      BY <1>9, <1>10, <2>3, <2>4, <2>5, <2>6, <2>7, <2>8
    <3>2. \A x \in edit'.add : /\ x < nextFile' /\ Table(x) \in Dir'.names /\ Whole(x)'
                               /\ x \notin version' \cup InUse'
      <4>1. t < nextFile /\ t \notin version \cup InUse /\ Table(t) \in Dir'.names
        BY <1>4, <1>5 DEF Fresh
      <4>2. QED  BY <1>1, <1>5, <1>7, <2>3, <2>5, <4>1
    <3>3. \A d \in Dirs' : d.current < manifestNo
      BY <1>5, <2>3, Typed
    <3>4. QED
      BY <1>1, <1>5, <1>7, <2>1, <2>3, <2>5, <3>1, <3>2, <3>3 DEF RecoveredInv, Table
  <2>11. ReplayInv'
    <3>1. /\ LogsFor(Dir, logNo)' = LogsFor(Dir, logNo)
          /\ \A l \in LogsFor(Dir, logNo) : LogEntries(l)' = LogEntries(l)
      BY <1>1, <2>5 DEF LogsFor
    <3>2. \A l \in LogsFor(Dir, logNo)' \ logs' :
             /\ l < nextFile' \/ l = logFileNo'
             /\ LogEntries(l)' \subseteq TableEntries(edit.add)'
             /\ \A e \in LogEntries(l)' : e.seq <= maxSeq'
      BY <1>1, <1>9, <1>10, <2>4, <3>1
    <3>3. LogEntries(OldestLog)' \subseteq TableEntries(edit.add)' \cup Replaying'
      BY <1>9, <1>10, <2>4, <2>7, <2>8, <2>9
    <3>4. Replaying' \subseteq LogEntries(OldestLog)'
      BY <2>4, <2>7, <2>8, <2>9
    <3>5. \A e \in LogEntries(OldestLog)' : e.seq <= maxSeq'
      BY <1>1, <2>4, <2>7, <2>9
    <3>6. logs' \subseteq LogsFor(Dir, logNo)' /\ logs' # {} /\ logFileNo' = 0 /\ pc' = "replaying"
      BY <1>1, <2>1, <2>4, <3>1
    <3>7. QED  BY <3>2, <3>3, <3>4, <3>5, <3>6 DEF ReplayInv
  <2>12. PhaseInv' /\ FreshInv' /\ CreateInv' /\ SaveInv'
    <3>1. pending' = {}
      BY <1>1, <1>3, <2>1
    <3>2. Opening'
      BY <1>1, <1>14, <2>1 DEF Opening
    <3>3. QED
      BY <1>1, <1>14, <2>1, <3>1, <3>2 DEF PhaseInv, FreshInv, CreateInv, SaveInv, Applying
  <2>13. DiskInv'
    <3>1. synced' = synced /\ writes' \in Nat /\ writes' >= writes
      BY <1>1, <1>2 DEF HistoryTyped
    <3>2. QED  BY <1>5, <3>1, KeepDisk DEF Still
  <2>14. QED
    BY <1>1, <1>11, <1>12, <1>14, <2>1, <2>10, <2>11, <2>12, <2>13, OpenInv
<1>15. QED  BY <1>2, <1>13, <1>14 DEF ProcessTyped
(***************************************************************************)
(* NewDB, and the open's own MANIFEST up to the renaming of its temporary  *)
(* file.                                                                   *)
(***************************************************************************)
LEMMA CreateStep ==
  ASSUME IInv, NEW X, NEW Y, Still(X, Y), pc = "down" \/ Creating, Creating', CreateInv',
         UNCHANGED <<version, nextFile, logNo, lastSeq, descriptor, mem, imm, logFileNo, bgError, pending,
                     logs, replay, maxSeq, save, table, inputs, output, garbage, writing>>,
         UNCHANGED <<up, writes, acked, synced, losses, faulty, events>>,
         manifestNo' \in Nat, edit' \in {FirstEdit, NoEdit}, pc' = "create" => edit' = NoEdit
  PROVE  IInv'
<1>1. PhaseInv /\ ProcessTyped /\ HistoryTyped
  BY Typed DEF IInv, ProcessInv
<1>2. /\ ~up /\ ~up' /\ job' = "new" /\ pc' \in {"create", "append", "sync", "temp", "rename"}
      /\ pc \notin {"build", "install", "delete"}
      /\ mem = {} /\ imm = {} /\ ~bgError /\ inputs = {} /\ output = 0 /\ writing = NotWriting
      /\ version = {} /\ ~descriptor /\ logFileNo = 0 /\ logs = {} /\ replay = NoReplay /\ maxSeq = 0
      /\ logNo = 0 /\ lastSeq = 0 /\ ~save /\ nextFile = 2 /\ garbage = {} /\ pending = {}
      /\ table = NoTable
  BY <1>1 DEF PhaseInv, Creating, Applying
<1>3. edit' \in VersionEdit /\ edit'.add = {} /\ edit'.del = {}
  BY DEF FirstEdit, NoEdit, VersionEdit
<1>4. ProcessTyped'
  <2>1. pc' \in Places /\ job' \in {"none", "new", "open", "flush", "merge"}
    BY <1>2 DEF Places
  <2>2. QED  BY <1>1, <1>3, <2>1 DEF ProcessTyped
<1>5. HistoryTyped'
  BY <1>1 DEF HistoryTyped
<1>6. ~Opening' /\ ~Saving' /\ ~Applying'
  BY <1>2 DEF Opening, Saving, Applying
<1>7. PhaseInv'
  <2>1. manifestNo' <= 1
    BY DEF CreateInv
  <2>2. QED  BY <1>2, <1>3, <1>6, <2>1 DEF PhaseInv
<1>8. FreshInv' /\ RecoveredInv' /\ ReplayInv' /\ SaveInv'
  BY <1>2, <1>6 DEF FreshInv, RecoveredInv, ReplayInv, SaveInv
<1>9. DiskInv'
  <2>1. synced' = synced /\ writes' \in Nat /\ writes' >= writes
    BY <1>1 DEF HistoryTyped
  <2>2. QED  BY <2>1, KeepDisk DEF Still
<1>10. QED  BY <1>2, <1>4, <1>5, <1>7, <1>8, <1>9, OpenInv

LEMMA CreateFacts ==
  ASSUME IInv, Creating
  PROVE  /\ ~up /\ job = "new" /\ pc \in {"create", "append", "sync", "temp", "rename"}
         /\ Dir.current = 0 /\ manifestNo = 1 /\ \A d \in Dirs : d.current = 0
         /\ pc # "create" => edit = FirstEdit /\ Manifest(1) \in Dir.names
         /\ pc = "append" => Recs(Manifest(1)) = <<>>
         /\ pc \in {"sync", "temp", "rename"} => Recs(Manifest(1)) = <<FirstEdit>>
         /\ pc \in {"temp", "rename"} => files[Manifest(1)].durable = 1
         /\ FirstEdit \in VersionEdit
<1>1. FirstEdit \in VersionEdit
  BY DEF FirstEdit, NoEdit, VersionEdit
<1>2. CreateInv
  BY DEF IInv, ProcessInv
<1>3. \A d \in Dirs : d.current = 0
  BY <1>2, Unnamed DEF CreateInv
<1>4. QED  BY <1>1, <1>2, <1>3 DEF CreateInv, Creating

LEMMA StepCreateDB ==
  ASSUME IInv, CreateDB
  PROVE  IInv'
<1>1. /\ pc = "create" /\ NewWritableFile(Manifest(manifestNo), <<>>)
      /\ edit' = FirstEdit /\ pc' = "append"
      /\ UNCHANGED <<job, up, version, nextFile, manifestNo, logNo, lastSeq, descriptor, mem, imm, logFileNo>>
      /\ UNCHANGED <<bgError, pending, logs, replay, maxSeq, save, table, inputs, output, garbage, writing>>
      /\ UNCHANGED <<writes, acked, synced, losses, faulty, events>>
  BY DEF CreateDB, versionVars, memVars, openVars, history, bounds
<1>2. Creating
  BY <1>1 DEF IInv, ProcessInv, PhaseInv, Creating, Opening, Saving, Applying
<1>3. /\ ~up /\ job = "new" /\ Dir.current = 0 /\ manifestNo = 1 /\ \A d \in Dirs : d.current # 1
  BY <1>2, CreateFacts
<1>4. <<>> \in Seq(VersionEdit) /\ NewWritableFile(Manifest(1), <<>>)
  BY <1>1, <1>3
<1>5. /\ Still({Manifest(1)}, {Manifest(1)}) /\ Recs(Manifest(1))' = <<>>
      /\ Manifest(1) \in Dir'.names
  BY <1>3, <1>4, StillManifest
<1>6. Dir'.current = 0
  BY <1>3, <1>5, StillFacts
<1>7. Creating'
  BY <1>1, <1>3 DEF Creating
<1>8. CreateInv'
  <2>1. FirstEdit' = FirstEdit /\ Manifest(1)' = Manifest(1)
    BY DEF FirstEdit, NoEdit, Manifest
  <2>2. QED  BY <1>1, <1>3, <1>5, <1>6, <2>1 DEF CreateInv, Manifest
<1>9. manifestNo' \in Nat /\ edit' \in {FirstEdit, NoEdit}
  BY <1>1, <1>3
<1>10. QED  BY <1>1, <1>2, <1>5, <1>7, <1>8, <1>9, CreateStep

LEMMA SaveStep ==
  ASSUME IInv, NEW X, NEW Y, Still(X, Y), ~up, job = "open", pc \in {"apply", "append", "sync", "temp"},
         pc' \in {"append", "sync", "temp", "rename"},
         UNCHANGED <<up, job, version, nextFile, manifestNo, logNo, lastSeq, mem, imm, logFileNo>>,
         UNCHANGED <<bgError, pending, logs, replay, maxSeq, save, table, inputs, output, garbage, writing>>,
         UNCHANGED <<writes, acked, synced, losses, faulty, events>>,
         descriptor' = TRUE, edit' \in VersionEdit, edit'.add = edit.add, edit'.del = {},
         edit'.log = logFileNo, EditCounters', Manifest(manifestNo) \in Dir'.names,
         pc' = "append" => Recs(Manifest(manifestNo))' = <<Snapshot'>>,
         pc' # "append" => Recs(Manifest(manifestNo))' = <<Snapshot', edit'>>,
         pc' \in {"temp", "rename"} => files'[Manifest(manifestNo)].durable = 2
  PROVE  IInv'
<1>1. PhaseInv /\ ProcessTyped /\ HistoryTyped /\ RecoveredInv
  BY Typed DEF IInv, ProcessInv
<1>2. /\ Opening /\ Saving' /\ Opening' /\ ~Creating' /\ ~Applying'
  BY DEF Opening, Saving, Creating, Applying
<1>3. /\ mem = {} /\ imm = {} /\ ~bgError /\ inputs = {} /\ output = 0 /\ writing = NotWriting
      /\ garbage = {} /\ pending = {} /\ table = NoTable
  BY <1>1 DEF PhaseInv
<1>4. ProcessTyped'
  <2>1. descriptor' \in BOOLEAN
    BY Zenon
  <2>2. pc' \in Places
    BY DEF Places
  <2>3. QED  BY <1>1, <2>1, <2>2 DEF ProcessTyped
<1>5. HistoryTyped'
  BY <1>1 DEF HistoryTyped
<1>6. PhaseInv' /\ FreshInv' /\ CreateInv'
  BY <1>2, <1>3 DEF PhaseInv, FreshInv, CreateInv
<1>7. nextFile' \in Nat /\ nextFile' >= nextFile /\ lastSeq' \in Nat /\ lastSeq <= lastSeq'
      /\ writes' \in Nat /\ writes' >= writes
  BY <1>1 DEF ProcessTyped, HistoryTyped
<1>8. DiskInv'
  BY <1>7, KeepDisk DEF Still
<1>9. RecoveredInv'
  <2>1. lastSeq' <= writes' /\ maxSeq' <= writes' /\ save'
    BY <1>1, <1>2 DEF RecoveredInv
  <2>2. descriptor' <=> Saving'
    BY <1>2
  <2>3. QED  BY <1>2, <1>7, <2>1, <2>2, KeepRecovered DEF Still
<1>10. /\ ReplayInv'
       /\ logs' = {} /\ logNo' <= logFileNo' /\ logFileNo' < nextFile' /\ Log(logFileNo') \in Dir'.names
       /\ LogEntries(logFileNo)' = {}
       /\ \A l \in Nat : Log(l) \in Reachable(dirs)' => l <= logFileNo'
       /\ \A e \in Full' : e.seq <= lastSeq'
  <2>1. pc' \notin {"replay", "replaying", "build", "replayed"}
    OBVIOUS
  <2>2. QED  BY <1>7, <2>1, KeepSaved
<1>11. SaveInv'
  <2>1. Saving' =>
       /\ edit'.log = logFileNo' /\ EditCounters' /\ Manifest(manifestNo') \in Dir'.names
       /\ pc' = "append" => Recs(Manifest(manifestNo))' = <<Snapshot'>>
       /\ pc' # "append" => Recs(Manifest(manifestNo))' = <<Snapshot', edit'>>
       /\ pc' \in {"temp", "rename"} => files'[Manifest(manifestNo')].durable = 2
    OBVIOUS
  <2>2. QED  BY <1>10, <2>1 DEF SaveInv, Log, Manifest
<1>12. QED
  BY <1>2, <1>3, <1>4, <1>5, <1>6, <1>8, <1>9, <1>10, <1>11, OpenInv

LEMMA SaveFacts ==
  ASSUME IInv, ~up, job = "open", pc \in {"apply", "append", "sync", "temp", "rename"}
  PROVE  /\ Opening /\ Dir.current # 0 /\ version = Final.tables /\ logNo = Final.log
         /\ Final \in ViewType /\ Full = Says(Dir, Final)
         /\ Final.next <= manifestNo /\ manifestNo < nextFile /\ manifestNo \in Nat
         /\ nextFile \in Nat /\ lastSeq \in Nat /\ lastSeq <= writes
         /\ \A d \in Dirs : d.current < manifestNo /\ d.current # manifestNo
         /\ edit.del = {} /\ edit \in VersionEdit /\ (descriptor <=> pc # "apply")
         /\ \A t \in edit.add : t < nextFile
         /\ TableEntries(edit.add) \subseteq Full /\ TableEntries(version) \subseteq Full
         /\ logs = {} /\ logFileNo \in Nat /\ logNo <= logFileNo /\ logFileNo < nextFile
         /\ Log(logFileNo) \in Dir.names /\ LogEntries(logFileNo) = {}
         /\ \A l \in LogsFor(Dir, logNo) : LogEntries(l) \subseteq TableEntries(edit.add)
         /\ \A l \in Nat : Log(l) \in Reachable(dirs) => l <= logFileNo
         /\ \A e \in Full : e.seq <= lastSeq
         /\ Snapshot \in VersionEdit /\ <<Snapshot>> \in Seq(VersionEdit)
         /\ pc # "apply" =>
              /\ Saving /\ edit.log = logFileNo /\ EditCounters /\ Manifest(manifestNo) \in Dir.names
              /\ pc = "append" => Recs(Manifest(manifestNo)) = <<Snapshot>>
              /\ pc # "append" => Recs(Manifest(manifestNo)) = <<Snapshot, edit>>
              /\ pc \in {"temp", "rename"} => files[Manifest(manifestNo)].durable = 2
<1>1. ProcessTyped /\ RecoveredInv /\ ReplayInv /\ SaveInv /\ Opening /\ (Saving <=> pc # "apply")
  BY DEF IInv, ProcessInv, Opening, Saving
<1>2. Snapshot \in VersionEdit
  BY <1>1 DEF ProcessTyped, Snapshot, NoEdit, VersionEdit
<1>3. /\ logs = {} /\ logNo <= logFileNo /\ logFileNo < nextFile /\ Log(logFileNo) \in Dir.names
      /\ LogEntries(logFileNo) = {}
      /\ \A l \in Nat : Log(l) \in Reachable(dirs) => l <= logFileNo
      /\ \A e \in Full : e.seq <= lastSeq
      /\ Saving =>
              /\ edit.log = logFileNo /\ EditCounters /\ Manifest(manifestNo) \in Dir.names
              /\ pc = "append" => Recs(Manifest(manifestNo)) = <<Snapshot>>
              /\ pc # "append" => Recs(Manifest(manifestNo)) = <<Snapshot, edit>>
              /\ pc \in {"temp", "rename"} => files[Manifest(manifestNo)].durable = 2
  BY <1>1 DEF SaveInv
<1>4. /\ Dir.current # 0 /\ version = Final.tables /\ logNo = Final.log
      /\ lastSeq <= writes /\ Final.next <= manifestNo /\ manifestNo < nextFile
      /\ \A d \in Dirs : d.current < manifestNo
      /\ edit.del = {} /\ (descriptor <=> Saving)
      /\ \A t \in edit.add : t < nextFile
      /\ TableEntries(edit.add) \subseteq Full
  BY <1>1 DEF RecoveredInv
<1>5. Final \in ViewType /\ Full = Says(Dir, Final)
  BY <1>4, FinalFacts
<1>6. TableEntries(version) \subseteq Full
  BY <1>4, <1>5 DEF Says
<1>7. \A l \in LogsFor(Dir, logNo) : LogEntries(l) \subseteq TableEntries(edit.add)
  BY <1>1, <1>3 DEF ReplayInv
<1>8. manifestNo \in Nat /\ nextFile \in Nat /\ lastSeq \in Nat /\ logFileNo \in Nat /\ edit \in VersionEdit
  BY <1>1 DEF ProcessTyped
<1>9. \A d \in Dirs : d.current # manifestNo
  BY <1>4, <1>8
<1>10. <<Snapshot>> \in Seq(VersionEdit)
  <2>1. PICK s \in VersionEdit : s = Snapshot
    BY <1>2
  <2>2. QED  BY <2>1
<1>11. QED  BY <1>1, <1>2, <1>3, <1>4, <1>5, <1>6, <1>7, <1>8, <1>9, <1>10
(***************************************************************************)
(* LogAndApply, of an open and of a background job.                        *)
(***************************************************************************)
LEMMA ApplyFacts ==
  ASSUME IInv, Applying
  PROVE  /\ up /\ Serving /\ pc \in {"apply", "append", "sync", "install"} /\ job \in {"flush", "merge"}
         /\ Dir.current # 0 /\ Dir.current = manifestNo /\ descriptor
         /\ garbage = {} /\ table = NoTable /\ inputs \subseteq version /\ (output # 0 => inputs # {})
         /\ pending = (IF output # 0 THEN {output} ELSE {})
         /\ edit \in VersionEdit /\ edit.add \subseteq Nat
         /\ \A t \in edit.add : /\ t < nextFile /\ t \notin version /\ Whole(t)
                                /\ Table(t) \in Dir.names
         /\ \A d \in Dirs : d.current = manifestNo /\ \A t \in edit.add : Table(t) \in d.names
         /\ job = "flush" => imm # {} /\ TableEntries(edit.add) = imm /\ edit.del = {}
         /\ job = "merge" =>
              /\ edit.add = {output} /\ output # 0 /\ edit.del = inputs /\ output \notin inputs
              /\ TableEntries(edit.add) = TableEntries(inputs)
         /\ pc # "apply" => edit.log = (IF job = "merge" THEN logNo ELSE logFileNo)
         /\ pc = "append" => EditCounters
         /\ nextFile \in Nat /\ lastSeq \in Nat /\ logNo \in Nat /\ logFileNo \in Nat /\ manifestNo \in Nat
         /\ edit.add \cap edit.del = {}
<1>1. ProcessTyped /\ PhaseInv /\ VersionInv /\ ApplyInv /\ up
      /\ pc \in {"apply", "append", "sync", "install"}
  BY DEF IInv, ProcessInv, Applying
<1>2. Serving /\ garbage = {} /\ table = NoTable /\ job \in {"flush", "merge"}
      /\ (output # 0 => inputs # {}) /\ pending = (IF output # 0 THEN {output} ELSE {})
  BY <1>1, UpFacts
<1>3. Dir.current # 0 /\ Dir.current = manifestNo /\ descriptor
  BY <1>2, ServingFacts
<1>4. inputs \subseteq version
  BY <1>1, <1>2 DEF VersionInv
<1>5. /\ \A t \in edit.add : /\ t < nextFile /\ t \notin version /\ Whole(t)
                             /\ Table(t) \in Dir.names
      /\ \A d \in Dirs : d.current = manifestNo /\ \A t \in edit.add : Table(t) \in d.names
      /\ job = "flush" => imm # {} /\ TableEntries(edit.add) = imm /\ edit.del = {}
      /\ job = "merge" =>
           /\ edit.add = {output} /\ output # 0 /\ edit.del = inputs /\ output \notin inputs
           /\ TableEntries(edit.add) = TableEntries(inputs)
      /\ pc # "apply" => edit.log = (IF job = "merge" THEN logNo ELSE logFileNo)
      /\ pc = "append" => EditCounters
  BY <1>1 DEF ApplyInv
<1>6. nextFile \in Nat /\ lastSeq \in Nat /\ logNo \in Nat /\ logFileNo \in Nat /\ manifestNo \in Nat
      /\ edit \in VersionEdit /\ edit.add \subseteq Nat
  BY <1>1 DEF ProcessTyped, VersionEdit
<1>7. edit.add \cap edit.del = {}
  BY <1>2, <1>5
<1>8. QED  BY <1>1, <1>2, <1>3, <1>4, <1>5, <1>6, <1>7

LEMMA StepLogAndApply ==
  ASSUME IInv, LogAndApply
  PROVE  IInv'
<1>1. /\ pc = "apply" /\ pc' = "append" /\ descriptor' = TRUE
      /\ edit' = [edit EXCEPT !.log = EditLogNumber, !.next = nextFile, !.seq = lastSeq]
      /\ IF descriptor THEN UNCHANGED diskVars
         ELSE NewWritableFile(Manifest(manifestNo), <<Snapshot>>)
      /\ UNCHANGED <<job, up, version, nextFile, manifestNo, logNo, lastSeq, mem, imm, logFileNo>>
      /\ UNCHANGED <<bgError, pending, logs, replay, maxSeq, save, table, inputs, output, garbage, writing>>
      /\ UNCHANGED <<writes, acked, synced, losses, faulty, events>>
  BY DEF LogAndApply, memVars, openVars, history, bounds
<1>2. PhaseInv /\ ProcessTyped /\ HistoryTyped /\ DiskTyped
  BY Typed DEF IInv, ProcessInv
<1>3. EditLogNumber = (IF job = "merge" THEN logNo ELSE logFileNo)
  BY DEF EditLogNumber
<1>4. /\ edit'.add = edit.add /\ edit'.del = edit.del /\ edit' \in VersionEdit
      /\ edit'.log = EditLogNumber /\ edit'.next = nextFile /\ edit'.seq = lastSeq
  BY <1>1, <1>2, <1>3 DEF ProcessTyped, VersionEdit
<1>5. nextFile' \in Nat /\ nextFile' >= nextFile /\ lastSeq' \in Nat /\ lastSeq' >= lastSeq
  BY <1>1, <1>2 DEF ProcessTyped
<1>6. CASE up
  <2>1. Applying
    BY <1>1, <1>6 DEF Applying
  <2>2. /\ Serving /\ job \in {"flush", "merge"} /\ Dir.current # 0 /\ Dir.current = manifestNo /\ descriptor
        /\ garbage = {} /\ table = NoTable /\ inputs \subseteq version /\ (output # 0 => inputs # {})
        /\ pending = (IF output # 0 THEN {output} ELSE {})
        /\ \A t \in edit.add : /\ t < nextFile /\ t \notin version
        /\ \A d \in Dirs : d.current = manifestNo /\ \A t \in edit.add : Table(t) \in d.names
        /\ job = "flush" => imm # {} /\ TableEntries(edit.add) = imm /\ edit.del = {}
        /\ job = "merge" =>
             /\ edit.add = {output} /\ output # 0 /\ edit.del = inputs /\ output \notin inputs
             /\ TableEntries(edit.add) = TableEntries(inputs)
    BY <2>1, ApplyFacts
  <2>3. Still({}, {}) /\ Dirs' = Dirs /\ Dir' = Dir
    BY <1>1, <2>2, StillSame
  <2>4. /\ Final' = Final /\ TableEntries(Final.tables)' = TableEntries(Final.tables)
        /\ \A T : T \subseteq version \cup edit.add => TableEntries(T)' = TableEntries(T)
        /\ \A t \in version \cup edit.add : Table(t) \in Dir'.names /\ Whole(t)'
    BY <2>2, <2>3, StillFacts
  <2>5. TableEntries(edit.add)' = TableEntries(edit.add) /\ TableEntries(inputs)' = TableEntries(inputs)
    BY <1>1, <1>4, <2>2, <2>4
  <2>6. EditCounters'
    <3>1. /\ Final \in ViewType /\ Sound(Dir, Final)
          /\ Final.next <= nextFile /\ logFileNo < nextFile /\ Final.log <= logFileNo /\ logNo <= Final.log
      BY <2>2, ServingFacts
    <3>2. Dir.current < Final.next /\ Final.next \in Nat /\ Final.log \in Nat
      BY <3>1 DEF ViewType, Sound
    <3>3. manifestNo \in Nat /\ nextFile \in Nat /\ logNo \in Nat /\ logFileNo \in Nat /\ lastSeq \in Nat
      BY <1>2 DEF ProcessTyped
    <3>4. manifestNo < nextFile /\ edit'.log < nextFile
      BY <1>3, <1>4, <2>2, <3>1, <3>2, <3>3
    <3>5. /\ \A e \in imm \cup TableEntries(Final.tables) : e.seq <= lastSeq
          /\ TableEntries(version) \subseteq TableEntries(Final.tables)
      BY <2>2 DEF IInv, ProcessInv, LogInv, ManifestInv
    <3>6. TableEntries(inputs) \subseteq TableEntries(version)
      BY <2>2, TableEntriesUnion
    <3>7. \A e \in TableEntries(Final.tables) \cup TableEntries(edit.add) : e.seq <= lastSeq
      BY <2>2, <3>5, <3>6
    <3>8. \A e \in TableEntries(Final.tables)' \cup TableEntries(edit.add)' : e.seq <= edit'.seq
      BY <1>4, <2>4, <2>5, <3>7
    <3>9. \A t \in edit'.add : t < edit'.next
      BY <1>4, <2>2
    <3>10. /\ manifestNo' < edit'.next /\ edit'.next <= nextFile' /\ edit'.log < edit'.next
           /\ Final'.next <= edit'.next /\ edit'.seq <= lastSeq'
      BY <1>1, <1>4, <2>4, <3>1, <3>3, <3>4
    <3>11. QED  BY <3>8, <3>9, <3>10 DEF EditCounters
  <2>7. ProcessTyped'
    <3>1. descriptor' \in BOOLEAN
      BY <1>1, Zenon
    <3>2. QED  BY <1>1, <1>2, <1>4, <3>1 DEF ProcessTyped, Places
  <2>8. HistoryTyped'
    BY <1>1, <1>2 DEF HistoryTyped
  <2>9. PhaseInv'
    BY <1>1, <1>6, <2>2 DEF PhaseInv, Applying, Creating
  <2>10. FreshInv'
    <3>1. CASE job = "merge"
      BY <1>1, <1>6, <3>1 DEF FreshInv, Applying
    <3>2. CASE job = "flush"
      <4>1. output # 0 => output \notin edit'.add
        BY <1>4, <2>1, <3>2 DEF IInv, ProcessInv, FreshInv, Fresh
      <4>2. output # 0 => Fresh(output)'
        BY <1>1, <1>5, <1>6, <2>3, <3>2, <4>1, CalmFirm, KeepOutput DEF Still
      <4>3. QED  BY <1>1, <4>2 DEF FreshInv
    <3>3. QED  BY <2>2, <3>1, <3>2
  <2>11. DiskInv' /\ ManifestInv' /\ LogInv' /\ VersionInv' /\ WriteInv'
    <3>1. ~Recorded /\ ~Recorded' /\ pc' # "install"
      BY <1>1 DEF Recorded
    <3>2. Target' = Target /\ TargetLog' = TargetLog
      BY <1>1, <3>1 DEF Target, TargetLog
    <3>3. descriptor' = descriptor
      <4>1. descriptor = TRUE
        BY <1>2, <2>2, Zenon DEF ProcessTyped
      <4>2. QED  BY <1>1, <4>1
    <3>4. QED  BY <1>1, <1>5, <1>6, <2>2, <2>3, <3>1, <3>2, <3>3, KeepServing
  <2>12. ApplyInv'
    <3>1. \A t \in edit'.add : /\ t < nextFile' /\ t \notin version' /\ Whole(t)'
                               /\ Table(t) \in Dir'.names
      BY <1>1, <1>4, <2>2, <2>4
    <3>2. \A d \in Dirs' : d.current = manifestNo' /\ \A t \in edit'.add : Table(t) \in d.names
      BY <1>1, <1>4, <2>2, <2>3
    <3>3. /\ job' = "flush" => imm' # {} /\ TableEntries(edit.add)' = imm' /\ edit'.del = {}
          /\ job' = "merge" =>
               /\ edit'.add = {output'} /\ output' # 0 /\ edit'.del = inputs' /\ output' \notin inputs'
               /\ TableEntries(edit.add)' = TableEntries(inputs)'
      BY <1>1, <1>4, <2>2, <2>5
    <3>4. edit'.log = (IF job' = "merge" THEN logNo' ELSE logFileNo')
      BY <1>1, <1>3, <1>4
    <3>5. up' /\ pc' = "append"
      BY <1>1, <1>6
    <3>6. QED  BY <2>6, <3>1, <3>2, <3>3, <3>4, <3>5 DEF ApplyInv, Applying, Table
  <2>13. NumbersInv'
    BY <1>1, <1>5, <1>6, <2>3, KeepNumbers
  <2>14. QED
    BY <1>1, <1>6, <2>7, <2>8, <2>9, <2>10, <2>11, <2>12, <2>13, UpInv
<1>7. CASE ~up
  <2>1. job = "open"
    BY <1>1, <1>2, <1>7 DEF PhaseInv, Creating, Opening, Saving
  <2>2. /\ Dir.current # 0 /\ version = Final.tables
        /\ Final \in ViewType /\ Full = Says(Dir, Final)
        /\ Final.next <= manifestNo /\ manifestNo < nextFile /\ manifestNo \in Nat
        /\ nextFile \in Nat /\ lastSeq \in Nat
        /\ \A d \in Dirs : d.current # manifestNo
        /\ edit.del = {} /\ ~descriptor
        /\ \A t \in edit.add : t < nextFile
        /\ TableEntries(edit.add) \subseteq Full /\ TableEntries(version) \subseteq Full
        /\ logFileNo < nextFile /\ \A e \in Full : e.seq <= lastSeq
        /\ <<Snapshot>> \in Seq(VersionEdit)
    BY <1>1, <1>7, <2>1, SaveFacts
  <2>3. PICK m, s : m \in Nat /\ m = manifestNo /\ s = <<Snapshot>>
    BY <2>2
  <2>4. NewWritableFile(Manifest(m), s) /\ s \in Seq(VersionEdit) /\ \A d \in Dirs : d.current # m
    BY <1>1, <2>2, <2>3
  <2>5. /\ Still({Manifest(m)}, {Manifest(m)}) /\ Recs(Manifest(m))' = s
        /\ Manifest(m) \in Dir'.names
    BY <2>3, <2>4, StillManifest
  <2>6. Snapshot' = Snapshot
    BY <1>1 DEF Snapshot, NoEdit
  <2>7. Recs(Manifest(manifestNo))' = <<Snapshot'>> /\ Manifest(manifestNo) \in Dir'.names
    BY <1>1, <2>3, <2>5, <2>6 DEF Recs, Manifest
  <2>8. /\ Final' = Final /\ TableEntries(Final.tables)' = TableEntries(Final.tables)
        /\ TableEntries(edit.add)' = TableEntries(edit.add)
    <3>1. \A T : T \subseteq version \cup edit.add => TableEntries(T)' = TableEntries(T)
      BY <2>5, StillFacts
    <3>2. QED  BY <1>4, <2>2, <2>5, <3>1, StillFacts
  <2>9. EditCounters'
    <3>1. Final.next \in Nat
      BY <2>2 DEF ViewType
    <3>2. edit'.log = logFileNo
      BY <1>3, <1>4, <2>1
    <3>3. \A e \in TableEntries(Final.tables)' \cup TableEntries(edit.add)' : e.seq <= edit'.seq
      BY <1>4, <2>2, <2>8
    <3>4. \A t \in edit'.add : t < edit'.next
      BY <1>4, <2>2
    <3>5. /\ manifestNo' < edit'.next /\ edit'.next <= nextFile' /\ edit'.log < edit'.next
          /\ Final'.next <= edit'.next /\ edit'.seq <= lastSeq'
      BY <1>1, <1>4, <2>2, <2>8, <3>1, <3>2
    <3>6. QED  BY <3>3, <3>4, <3>5 DEF EditCounters
  <2>10. edit'.log = logFileNo /\ edit'.del = {}
    BY <1>3, <1>4, <2>1, <2>2
  <2>11. pc' = "append"
    BY <1>1
  <2>12. QED
    BY <1>1, <1>4, <1>7, <2>1, <2>5, <2>7, <2>9, <2>10, <2>11, SaveStep
<1>8. QED  BY <1>2, <1>6, <1>7 DEF ProcessTyped

LEMMA SafeLogged ==
  ASSUME FilesTyped, NEW l, Log(l) \in DOMAIN files
  PROVE  SafeEntries(l) \subseteq LogEntries(l)
<1>1. PICK recs, n : recs = Recs(Log(l)) /\ n = files[Log(l)].durable
  OBVIOUS
<1>2. recs \in Seq(Update) /\ n \in 0..Len(recs)
  BY <1>1, FileTyped, RecordsTyped
<1>3. Len(recs) \in n..Len(recs)
  BY <1>2
<1>4. EntriesOf(SubSeq(recs, 1, n)) \subseteq EntriesOf(recs)
  BY <1>2, <1>3, PrefixGrows
<1>5. QED  BY <1>1, <1>4 DEF SafeEntries, LogEntries

\* What the record of a background job says, together with those before it.
LEMMA ApplyView ==
  ASSUME IInv, Applying, pc = "append",
         NEW v, v = [tables |-> (Final.tables \ edit.del) \cup edit.add, log |-> edit.log,
                     next |-> edit.next, seq |-> edit.seq]
  PROVE  /\ edit.next # 0 /\ v \in ViewType
         /\ \A d \in Dirs : /\ \A t \in v.tables : Table(t) \in d.names /\ Whole(t) /\ t < v.next
                            /\ Says(d, v) \subseteq Full /\ synced \subseteq OpsOf(IsSure(d, v))
         /\ Full \subseteq Says(Dir, v)
         /\ v.log < v.next /\ manifestNo < v.next /\ Final.next <= v.next /\ v.seq <= writes
         /\ \A x \in TableEntries(v.tables) : x.seq <= v.seq
         /\ \A l \in Nat : Log(l) \in Reachable(dirs) /\ Log(l) \notin Dir.names => l < v.log
         /\ logNo <= v.log /\ v.log <= logFileNo
         /\ TableEntries(version) \subseteq TableEntries(v.tables)
         /\ TableEntries(edit.add) \subseteq TableEntries(v.tables)
         /\ TableEntries(v.tables) \subseteq TableEntries(version) \cup imm
<1>1. /\ up /\ Serving /\ job \in {"flush", "merge"} /\ Dir.current # 0 /\ Dir.current = manifestNo
      /\ inputs \subseteq version /\ edit \in VersionEdit /\ edit.add \subseteq Nat
      /\ \A t \in edit.add : Whole(t)
      /\ \A d \in Dirs : d.current = manifestNo /\ \A t \in edit.add : Table(t) \in d.names
      /\ job = "flush" => imm # {} /\ TableEntries(edit.add) = imm /\ edit.del = {}
      /\ job = "merge" =>
           /\ edit.add = {output} /\ output # 0 /\ edit.del = inputs /\ output \notin inputs
           /\ TableEntries(edit.add) = TableEntries(inputs)
      /\ edit.log = (IF job = "merge" THEN logNo ELSE logFileNo) /\ EditCounters
      /\ nextFile \in Nat /\ lastSeq \in Nat /\ logNo \in Nat /\ logFileNo \in Nat /\ manifestNo \in Nat
  BY ApplyFacts
<1>2. /\ Final \in Views(manifestNo) /\ Final \in ViewType /\ Full = Says(Dir, Final)
      /\ Sound(Dir, Final) /\ logNo <= Final.log /\ Final.log <= logFileNo
      /\ \A l \in Nat : Log(l) \in Reachable(dirs) =>
           l <= logFileNo /\ (Log(l) \notin Dir.names => l < logNo)
      /\ Log(logFileNo) \in Dir.names
  BY <1>1, ServingFacts
<1>3. /\ \A d \in Dirs : d.names \subseteq Reachable(dirs) /\ DirInv(d)
      /\ DiskTyped /\ DOMAIN files \subseteq FileNames /\ Reachable(dirs) \subseteq DOMAIN files
      /\ Dir \in Dirs
  BY Typed DEF FilesTyped
<1>4. \A d \in Dirs : Sound(d, Final)
  BY <1>1, <1>2, <1>3 DEF DirInv
<1>5. /\ imm \subseteq Full
      /\ \A l \in LogsFor(Dir, logNo) \ {logFileNo} : LogEntries(l) \subseteq TableEntries(version) \cup imm
      /\ TableEntries(version) \subseteq TableEntries(Final.tables)
      /\ TableEntries(Final.tables) \subseteq TableEntries(version) \cup imm
      /\ lastSeq <= writes
  BY <1>1 DEF IInv, ProcessInv, LogInv, ManifestInv, Brought
<1>6. /\ v.tables = (Final.tables \ edit.del) \cup edit.add /\ v.log = edit.log /\ v.next = edit.next
      /\ v.seq = edit.seq /\ v \in ViewType
  BY <1>1, <1>2 DEF ViewType, VersionEdit
<1>7. /\ manifestNo < v.next /\ v.next <= nextFile /\ v.log < v.next /\ Final.next <= v.next
      /\ v.seq <= lastSeq /\ \A t \in edit.add : t < v.next
      /\ \A e \in TableEntries(Final.tables) \cup TableEntries(edit.add) : e.seq <= v.seq
  BY <1>1, <1>6 DEF EditCounters
<1>8. /\ TableEntries(inputs) \subseteq TableEntries(version)
      /\ TableEntries(v.tables) = TableEntries(Final.tables \ edit.del) \cup TableEntries(edit.add)
      /\ TableEntries(Final.tables) \subseteq TableEntries(Final.tables \ edit.del) \cup TableEntries(edit.del)
      /\ TableEntries(Final.tables \ edit.del) \subseteq TableEntries(Final.tables)
      /\ TableEntries({}) = {}
  <2>1. Final.tables \subseteq (Final.tables \ edit.del) \cup edit.del
    OBVIOUS
  <2>2. TableEntries(inputs) \subseteq TableEntries(version) /\ TableEntries({}) = {}
    BY <1>1, TableEntriesUnion
  <2>3. TableEntries(v.tables) = TableEntries(Final.tables \ edit.del) \cup TableEntries(edit.add)
    BY <1>6, TableEntriesUnion
  <2>4. TableEntries((Final.tables \ edit.del) \cup edit.del)
          = TableEntries(Final.tables \ edit.del) \cup TableEntries(edit.del)
    BY TableEntriesUnion
  <2>5. TableEntries(Final.tables) \subseteq TableEntries((Final.tables \ edit.del) \cup edit.del)
    BY <2>1, TableEntriesUnion
  <2>6. TableEntries(Final.tables \ edit.del) \subseteq TableEntries(Final.tables)
    <3>1. Final.tables \ edit.del \subseteq Final.tables
      OBVIOUS
    <3>2. QED  BY <3>1, TableEntriesUnion
  <2>7. QED  BY <2>2, <2>3, <2>4, <2>5, <2>6
<1>9. /\ TableEntries(Final.tables) \subseteq TableEntries(v.tables)
      /\ TableEntries(v.tables) \subseteq TableEntries(version) \cup imm
  BY <1>1, <1>5, <1>8
<1>10. logNo <= v.log /\ v.log <= logFileNo /\ v.seq <= writes
  <2>1. v.log \in Nat /\ Final.log \in Nat /\ v.seq \in Nat /\ writes \in Nat
    BY <1>2, <1>6, Typed DEF ViewType, HistoryTyped
  <2>2. lastSeq <= writes /\ v.seq <= lastSeq /\ lastSeq \in Nat
    BY <1>1, <1>5, <1>7
  <2>3. v.seq <= writes
    BY <2>1, <2>2
  <2>4. v.log = (IF job = "merge" THEN logNo ELSE logFileNo) /\ logNo <= Final.log
        /\ Final.log <= logFileNo /\ logNo \in Nat /\ logFileNo \in Nat
    BY <1>1, <1>2, <1>6
  <2>5. logNo <= v.log /\ v.log <= logFileNo
    BY <2>1, <2>4
  <2>6. QED  BY <2>3, <2>5
\* A log that may still be read is one of the directory now.
<1>11. ASSUME NEW l \in Nat, l >= logNo, Log(l) \in Reachable(dirs)
       PROVE  /\ Log(l) \in Dir.names /\ l <= logFileNo
              /\ LogEntries(l) \subseteq Full
              /\ l # logFileNo => LogEntries(l) \subseteq TableEntries(version) \cup imm
  <2>1. Log(l) \in Dir.names /\ l <= logFileNo
    BY <1>1, <1>2, <1>11
  <2>2. l # logFileNo => LogEntries(l) \subseteq TableEntries(version) \cup imm
    BY <1>5, <1>11, <2>1 DEF LogsFor
  <2>3. TableEntries(Final.tables) \subseteq Full
    BY <1>2 DEF Says
  <2>4. LogEntries(logFileNo) \subseteq Full
    BY <1>1, <1>2 DEF Says, Logged, LogsFor
  <2>5. QED  BY <1>5, <2>1, <2>2, <2>3, <2>4
<1>12. \A l \in Nat : Log(l) \in Reachable(dirs) /\ Log(l) \notin Dir.names => l < v.log
  <2>1. v.log \in Nat
    BY <1>6 DEF ViewType
  <2>2. QED  BY <1>1, <1>2, <1>10, <2>1
\* What the earlier views have in older logs is in the tables now.
<1>13. ASSUME NEW l \in Nat, l >= Final.log, l < v.log, Log(l) \in Reachable(dirs)
       PROVE  LogEntries(l) \subseteq TableEntries(v.tables)
  <2>1. Final.log \in Nat /\ v.log \in Nat
    BY <1>2, <1>6 DEF ViewType
  <2>2. l >= logNo /\ job = "flush" /\ l # logFileNo
    BY <1>1, <1>2, <1>6, <1>10, <1>13, <2>1
  <2>3. LogEntries(l) \subseteq TableEntries(version) \cup TableEntries(edit.add)
    BY <1>1, <1>11, <1>13, <2>2
  <2>4. QED  BY <1>5, <1>8, <1>9, <2>3
<1>14. ASSUME NEW d \in Dirs
       PROVE  /\ \A t \in v.tables : Table(t) \in d.names /\ Whole(t) /\ t < v.next
              /\ Says(d, v) \subseteq Full /\ synced \subseteq OpsOf(IsSure(d, v))
  <2>1. /\ \A t \in Final.tables : t \in Nat /\ Table(t) \in d.names /\ Whole(t) /\ t < Final.next
        /\ synced \subseteq OpsOf(IsSure(d, Final)) /\ Final.next \in Nat /\ Final.log \in Nat
        /\ v.next \in Nat /\ v.log \in Nat
    BY <1>2, <1>4, <1>6 DEF Sound, ViewType
  <2>2. \A t \in v.tables : Table(t) \in d.names /\ Whole(t) /\ t < v.next
    <3> SUFFICES ASSUME NEW t \in v.tables PROVE Table(t) \in d.names /\ Whole(t) /\ t < v.next
      OBVIOUS
    <3>1. CASE t \in edit.add
      BY <1>1, <1>7, <3>1
    <3>2. CASE t \in Final.tables
      BY <1>7, <2>1, <3>2
    <3>3. QED  BY <1>6, <3>1, <3>2
  <2>3. Says(d, v) \subseteq Full
    <3> SUFFICES ASSUME NEW e \in Says(d, v) PROVE e \in Full
      OBVIOUS
    <3>1. CASE e \in TableEntries(v.tables)
      BY <1>2, <1>5, <1>9, <3>1 DEF Says
    <3>2. CASE \E l \in Nat : l >= v.log /\ Log(l) \in d.names /\ e \in LogEntries(l)
      <4>1. PICK l \in Nat : l >= v.log /\ Log(l) \in d.names /\ e \in LogEntries(l)
        BY <3>2
      <4>2. l >= logNo /\ Log(l) \in Reachable(dirs)
        BY <1>1, <1>3, <1>10, <2>1, <4>1
      <4>3. QED  BY <1>11, <4>1, <4>2
    <3>3. QED  BY <3>1, <3>2, SaysSplit
  <2>4. IsSure(d, Final) \subseteq IsSure(d, v)
    <3> SUFFICES ASSUME NEW e \in IsSure(d, Final) PROVE e \in IsSure(d, v)
      OBVIOUS
    <3>1. CASE e \in TableEntries(Final.tables)
      BY <1>9, <3>1, SaysSplit
    <3>2. CASE \E l \in Nat : l >= Final.log /\ Log(l) \in d.names /\ e \in SafeEntries(l)
      <4>1. PICK l \in Nat : l >= Final.log /\ Log(l) \in d.names /\ e \in SafeEntries(l)
        BY <3>2
      <4>2. CASE l >= v.log
        BY <4>1, <4>2, SaysSplit
      <4>3. CASE l < v.log
        <5>1. Log(l) \in Reachable(dirs) /\ Log(l) \in DOMAIN files
          BY <1>3, <4>1
        <5>2. LogEntries(l) \subseteq TableEntries(v.tables)
          BY <1>13, <4>1, <4>3, <5>1
        <5>3. SafeEntries(l) \subseteq LogEntries(l)
          BY <1>3, <5>1, SafeLogged DEF DiskTyped
        <5>4. QED  BY <4>1, <5>2, <5>3, SaysSplit
      <4>4. QED  BY <2>1, <4>2, <4>3
    <3>3. QED  BY <3>1, <3>2, SaysSplit
  <2>5. QED  BY <2>1, <2>2, <2>3, <2>4 DEF OpsOf
<1>15. Full \subseteq Says(Dir, v)
  <2> SUFFICES ASSUME NEW e \in Says(Dir, Final) PROVE e \in Says(Dir, v)
    BY <1>2
  <2>1. CASE e \in TableEntries(Final.tables)
    BY <1>9, <2>1, SaysSplit
  <2>2. CASE \E l \in Nat : l >= Final.log /\ Log(l) \in Dir.names /\ e \in LogEntries(l)
    <3>1. PICK l \in Nat : l >= Final.log /\ Log(l) \in Dir.names /\ e \in LogEntries(l)
      BY <2>2
    <3>2. CASE l >= v.log
      BY <3>1, <3>2, SaysSplit
    <3>3. CASE l < v.log
      <4>1. Log(l) \in Reachable(dirs)
        BY <1>3, <3>1
      <4>2. QED  BY <1>13, <3>1, <3>3, <4>1, SaysSplit
    <3>4. v.log \in Nat
      BY <1>6 DEF ViewType
    <3>5. QED  BY <3>2, <3>3, <3>4
  <2>3. QED  BY <2>1, <2>2, SaysSplit
<1>16. edit.next # 0
  BY <1>1, <1>6, <1>7
<1>17. QED
  BY <1>5, <1>6, <1>7, <1>8, <1>9, <1>10, <1>12, <1>14, <1>15, <1>16

LEMMA StepApplyAppends ==
  ASSUME IInv, AppendEdit, up
  PROVE  /\ IInv' /\ Dirs' = Dirs
         /\ \A d \in Dirs : \A v \in Views(d.current)' : v \in Views(d.current) \/ v.next = edit.next
<1>1. /\ pc = "append" /\ pc' = "sync" /\ AppendRecord(Manifest(manifestNo), edit)
      /\ UNCHANGED <<job, up, version, nextFile, manifestNo, logNo, lastSeq, descriptor, mem, imm, logFileNo>>
      /\ UNCHANGED <<bgError, pending, logs, replay, maxSeq, save, table, edit, inputs, output, garbage>>
      /\ UNCHANGED <<writing, writes, acked, synced, losses, faulty, events>>
  BY DEF AppendEdit, versionVars, memVars, openVars, workVars, history, bounds
<1>2. ProcessTyped /\ HistoryTyped /\ DiskTyped /\ DiskInv /\ Applying /\ Dir.names \subseteq Reachable(dirs)
  BY <1>1, Typed DEF IInv, ProcessInv, Applying
<1>3. /\ Serving /\ job \in {"flush", "merge"} /\ Dir.current # 0 /\ Dir.current = manifestNo /\ descriptor
      /\ garbage = {} /\ table = NoTable /\ inputs \subseteq version /\ (output # 0 => inputs # {})
      /\ pending = (IF output # 0 THEN {output} ELSE {})
      /\ edit \in VersionEdit /\ edit.add \subseteq Nat /\ edit.add \cap edit.del = {}
      /\ \A t \in edit.add : /\ t < nextFile /\ t \notin version
      /\ \A d \in Dirs : d.current = manifestNo /\ \A t \in edit.add : Table(t) \in d.names
      /\ job = "flush" => imm # {} /\ TableEntries(edit.add) = imm /\ edit.del = {}
      /\ job = "merge" =>
           /\ edit.add = {output} /\ output # 0 /\ edit.del = inputs /\ output \notin inputs
           /\ TableEntries(edit.add) = TableEntries(inputs)
      /\ edit.log = (IF job = "merge" THEN logNo ELSE logFileNo)
      /\ nextFile \in Nat /\ lastSeq \in Nat /\ manifestNo \in Nat
  BY <1>1, <1>2, ApplyFacts
<1>4. PICK m, e, w : /\ m = manifestNo /\ e = edit
                     /\ w = [tables |-> (Final.tables \ edit.del) \cup edit.add, log |-> edit.log,
                             next |-> edit.next, seq |-> edit.seq]
  OBVIOUS
<1>5. /\ edit.next # 0 /\ w \in ViewType
      /\ \A d \in Dirs : /\ \A t \in w.tables : Table(t) \in d.names /\ Whole(t) /\ t < w.next
                         /\ Says(d, w) \subseteq Full /\ synced \subseteq OpsOf(IsSure(d, w))
      /\ Full \subseteq Says(Dir, w)
      /\ w.log < w.next /\ manifestNo < w.next /\ Final.next <= w.next /\ w.seq <= writes
      /\ \A x \in TableEntries(w.tables) : x.seq <= w.seq
      /\ \A l \in Nat : Log(l) \in Reachable(dirs) /\ Log(l) \notin Dir.names => l < w.log
      /\ logNo <= w.log /\ w.log <= logFileNo
      /\ TableEntries(version) \subseteq TableEntries(w.tables)
      /\ TableEntries(edit.add) \subseteq TableEntries(w.tables)
      /\ TableEntries(w.tables) \subseteq TableEntries(version) \cup imm
  BY <1>1, <1>2, <1>4, ApplyView
<1>6. m \in Nat \ {0} /\ e \in VersionEdit /\ e.next # 0 /\ e.add \cap e.del = {}
      /\ AppendRecord(Manifest(m), e) /\ (\A d \in Dirs : d.current = m) /\ m < w.next
      /\ w = [tables |-> (Final.tables \ e.del) \cup e.add, log |-> e.log,
              next |-> e.next, seq |-> e.seq]
      /\ synced' = synced /\ writes' = writes
  BY <1>1, <1>3, <1>4, <1>5
<1>7. /\ DiskInv' /\ Full' = Full /\ Final' = w /\ Dirs' = Dirs /\ Dir' = Dir
      /\ DiskTyped' /\ Frame({}, {Manifest(m)})
      /\ Views(m)' \subseteq Views(m) \cup {w} /\ InUse' \subseteq InUse \cup edit.add
  BY <1>2, <1>4, <1>5, <1>6, EditAppended
<1>8. /\ \A T : T \subseteq version \cup edit.add => TableEntries(T)' = TableEntries(T)
      /\ \A t \in version \cup edit.add : Table(t) \in Dir'.names /\ Whole(t)'
  BY <1>7, KeptTables, Names
<1>9. \A l \in Nat : /\ Log(l) \in Dir'.names <=> Log(l) \in Dir.names
                     /\ Log(l) \in Reachable(dirs)' => Log(l) \in Reachable(dirs)
                     /\ Log(l) \in Dir.names => /\ LogEntries(l)' = LogEntries(l)
                                                /\ SafeEntries(l) \subseteq SafeEntries(l)'
  BY <1>7, KeptLogs, Names
<1>10. /\ TableEntries(w.tables)' = TableEntries(w.tables)
       /\ TableEntries(version)' = TableEntries(version)
       /\ TableEntries(edit.add)' = TableEntries(edit.add)
       /\ TableEntries(inputs)' = TableEntries(inputs)
  <2>1. \A t \in w.tables : Table(t) \in DOMAIN files' \ {Manifest(m)}
    <3>1. /\ Dir' \in Dirs' /\ \A d \in Dirs' : d.names \subseteq DOMAIN files'
      BY <1>7, NextDirs
    <3>2. \A t \in w.tables : Table(t) \in Dir'.names
      BY <1>5, <1>7, Typed
    <3>3. QED  BY <3>1, <3>2, Names
  <2>2. TableEntries(w.tables)' = TableEntries(w.tables)
    BY <1>7, <2>1, FrameTables
  <2>3. QED  BY <1>1, <1>3, <1>8, <2>2
<1>11. nextFile' \in Nat /\ nextFile' >= nextFile /\ lastSeq' \in Nat
  BY <1>1, <1>3
<1>12. ProcessTyped' /\ HistoryTyped'
  BY <1>1, <1>2 DEF ProcessTyped, HistoryTyped, Places
<1>13. PhaseInv'
  BY <1>1, <1>3 DEF PhaseInv, Applying, Creating
<1>14. FreshInv'
  <2>1. CASE job = "merge"
    BY <1>1, <2>1 DEF FreshInv, Applying
  <2>2. CASE job = "flush"
    <3>1. output # 0 => Fresh(output)
      BY <1>2, <2>2 DEF IInv, ProcessInv, FreshInv
    <3>2. PICK o : o = output
      OBVIOUS
    <3>3. Fresh(o) => Fresh(o)'
      BY <1>1, <1>7 DEF Fresh, Table
    <3>4. output' # 0 => Fresh(output)'
      BY <1>1, <3>1, <3>2, <3>3 DEF Fresh
    <3>5. QED  BY <1>1, <3>4 DEF FreshInv
  <2>3. QED  BY <1>3, <2>1, <2>2
<1>15. ManifestInv'
  <2>1. ManifestInv
    BY DEF IInv, ProcessInv
  <2>2. \A v \in Views(m)' : /\ logNo' <= v.log /\ v.log <= logFileNo'
                             /\ v.next <= nextFile' /\ v.seq <= lastSeq'
    <3>1. w.next <= nextFile /\ w.seq <= lastSeq
      BY <1>1, <1>2, <1>4, ApplyFacts DEF EditCounters
    <3>2. \A v \in Views(m) : /\ logNo <= v.log /\ v.log <= logFileNo
                              /\ v.next <= nextFile /\ v.seq <= lastSeq
      BY <1>3, <1>4, ServingFacts
    <3>3. QED  BY <1>1, <1>5, <1>7, <3>1, <3>2
  <2>3. ~bgError' => Final'.tables = Target' /\ Final'.log = TargetLog'
    <3>1. ~bgError => Final.tables = version
      BY <1>1, <1>3, <2>1 DEF ManifestInv, Target, Recorded
    <3>2. Target' = (version \ edit.del) \cup edit.add /\ TargetLog' = edit.log
      BY <1>1 DEF Target, TargetLog, Recorded
    <3>3. QED  BY <1>1, <1>4, <1>7, <3>1, <3>2
  <2>4. /\ TableEntries(Final.tables)' = TableEntries(w.tables)
        /\ Dir'.current # 0 /\ Dir'.current = manifestNo' /\ descriptor' /\ lastSeq' <= writes'
        /\ Final'.log = edit'.log /\ pc' # "install"
    <3>1. lastSeq <= writes
      BY <1>3, <2>1 DEF ManifestInv
    <3>2. TableEntries(Final.tables)' = TableEntries(w.tables)'
      BY <1>7 DEF TableEntries
    <3>3. QED  BY <1>1, <1>3, <1>4, <1>7, <1>10, <3>1, <3>2
  <2>5. manifestNo' = m
    BY <1>1, <1>4
  <2>6. /\ TableEntries(version)' \subseteq TableEntries(Final.tables)'
        /\ TableEntries(Final.tables)' \subseteq TableEntries(version)' \cup imm' \cup Brought'
        /\ TableEntries(edit.add)' \subseteq TableEntries(Final.tables)'
    BY <1>1, <1>5, <1>10, <2>4
  <2>7. QED
    BY <2>2, <2>3, <2>4, <2>5, <2>6 DEF ManifestInv
<1>16. LogInv'
  <2>1. /\ logFileNo < nextFile /\ Log(logFileNo) \in Dir.names
        /\ \A l \in Nat : Log(l) \in Reachable(dirs) =>
             l <= logFileNo /\ (Log(l) \notin Dir.names => l < logNo)
        /\ imm \subseteq Full /\ mem \subseteq LogEntries(logFileNo)
        /\ \A l \in LogsFor(Dir, logNo) \ {logFileNo} :
             LogEntries(l) \subseteq TableEntries(version) \cup imm
        /\ \A x \in LogEntries(logFileNo) :
             \/ x \in mem
             \/ writing.op # 0 /\ x = Entry(writing)
             \/ bgError /\ x.op \notin acked /\ x.op # writing.op
        /\ \A x \in mem \cup imm \cup TableEntries(Final.tables) : x.seq <= lastSeq
        /\ \A x \in LogEntries(logFileNo) :
             x.seq <= lastSeq \/ (writing.op # 0 /\ x = Entry(writing))
    BY <1>1, <1>3 DEF IInv, ProcessInv, LogInv, Brought
  <2>2. logFileNo \in Nat /\ LogEntries(logFileNo)' = LogEntries(logFileNo)
    BY <1>1, <1>2, <1>9, <2>1 DEF ProcessTyped
  <2>3. \A l \in LogsFor(Dir, logNo) : l \in Nat /\ LogEntries(l)' = LogEntries(l)
    BY <1>9 DEF LogsFor
  <2>4. LogsFor(Dir, logNo)' = LogsFor(Dir, logNo)
    BY <1>1, <1>7 DEF LogsFor, Log
  <2>5. \A l \in LogsFor(Dir, logNo)' \ {logFileNo'} :
          LogEntries(l)' \subseteq TableEntries(version)' \cup imm' \cup Brought'
    BY <1>1, <1>10, <2>1, <2>3, <2>4
  <2>6. \A x \in mem' \cup imm' \cup TableEntries(Final.tables)' : x.seq <= lastSeq'
    <3>1. TableEntries(Final.tables)' = TableEntries(w.tables)
      <4>1. TableEntries(Final.tables)' = TableEntries(w.tables)'
        BY <1>7 DEF TableEntries
      <4>2. QED  BY <1>10, <4>1
    <3>2. TableEntries(w.tables) \subseteq TableEntries(version) \cup imm
          /\ TableEntries(version) \subseteq TableEntries(Final.tables)
      BY <1>3, <1>5 DEF IInv, ProcessInv, ManifestInv
    <3>3. QED  BY <1>1, <2>1, <3>1, <3>2
  <2>7. Entry(writing)' = Entry(writing)
    BY <1>1 DEF Entry
  <2>8. \A x \in LogEntries(logFileNo)' :
          /\ \/ x \in mem'
             \/ writing'.op # 0 /\ x = Entry(writing)'
             \/ bgError' /\ x.op \notin acked' /\ x.op # writing'.op
          /\ x.seq <= lastSeq' \/ (writing'.op # 0 /\ x = Entry(writing)')
    BY <1>1, <2>1, <2>2, <2>7
  <2>9. \A l \in Nat : Log(l) \in Reachable(dirs)' =>
          l <= logFileNo' /\ (Log(l) \notin Dir'.names => l < logNo')
    BY <1>1, <1>9, <2>1
  <2>10. /\ logFileNo' < nextFile' /\ Log(logFileNo') \in Dir'.names
         /\ imm' \subseteq Full' /\ mem' \subseteq LogEntries(logFileNo)'
    BY <1>1, <1>7, <2>1, <2>2
  <2>11. QED
    BY <2>5, <2>6, <2>8, <2>9, <2>10 DEF LogInv, Log
<1>17. VersionInv'
  <2>1. \A t \in version : t < nextFile
    BY <1>3 DEF IInv, ProcessInv, VersionInv
  <2>2. \A t \in version' : t < nextFile' /\ Table(t) \in Dir'.names /\ Whole(t)'
    BY <1>1, <1>8, <2>1
  <2>3. garbage' = {} /\ inputs' \subseteq version'
    BY <1>1, <1>3
  <2>4. QED  BY <2>2, <2>3 DEF VersionInv, Table
<1>18. ApplyInv'
  <2>1. \A t \in edit'.add : /\ t < nextFile' /\ t \notin version' /\ Whole(t)'
                             /\ Table(t) \in Dir'.names
    BY <1>1, <1>3, <1>8
  <2>2. \A d \in Dirs' : d.current = manifestNo' /\ \A t \in edit'.add : Table(t) \in d.names
    BY <1>1, <1>3, <1>7
  <2>3. /\ job' = "flush" => imm' # {} /\ TableEntries(edit.add)' = imm' /\ edit'.del = {}
        /\ job' = "merge" =>
             /\ edit'.add = {output'} /\ output' # 0 /\ edit'.del = inputs' /\ output' \notin inputs'
             /\ TableEntries(edit.add)' = TableEntries(inputs)'
        /\ edit'.log = (IF job' = "merge" THEN logNo' ELSE logFileNo')
    BY <1>1, <1>3, <1>10
  <2>4. up' /\ pc' = "sync"
    BY <1>1
  <2>5. QED  BY <2>1, <2>2, <2>3, <2>4 DEF ApplyInv, Applying, Table
<1>19. WriteInv'
  <2>1. WriteInv /\ logFileNo \in Nat /\ Log(logFileNo) \in Dir.names
    BY <1>3, ServingFacts DEF IInv, ProcessInv
  <2>2. /\ LogEntries(logFileNo)' = LogEntries(logFileNo)
        /\ SafeEntries(logFileNo) \subseteq SafeEntries(logFileNo)'
    BY <1>1, <1>9, <2>1
  <2>3. Entry(writing)' = Entry(writing)
    BY <1>1 DEF Entry
  <2>4. CASE writing.at = "idle"
    BY <1>1, <2>1, <2>4 DEF WriteInv, NotWriting
  <2>5. CASE writing.at # "idle"
    <3>1. /\ writing.op = writes /\ writing.op # 0 /\ writing.op \notin acked
          /\ writing.seq = lastSeq + 1 /\ writing.seq <= writing.op
          /\ Entry(writing) \in LogEntries(logFileNo)
          /\ writing.at = "insert" /\ writing.sync =>
               /\ \A d \in Dirs : d.current = manifestNo /\ Log(logFileNo) \in d.names
               /\ Entry(writing) \in SafeEntries(logFileNo)
          /\ writing.at = "sync" => writing.sync
      BY <2>1, <2>5 DEF WriteInv
    <3>2. /\ Entry(writing)' \in LogEntries(logFileNo)'
          /\ writing'.at = "insert" /\ writing'.sync =>
               /\ \A d \in Dirs' : d.current = manifestNo' /\ Log(logFileNo') \in d.names
               /\ Entry(writing)' \in SafeEntries(logFileNo)'
      BY <1>1, <1>7, <2>2, <2>3, <3>1
    <3>3. QED  BY <1>1, <2>5, <3>1, <3>2 DEF WriteInv, Log
  <2>6. QED  BY <2>4, <2>5
<1>20. NumbersInv'
  BY <1>1, <1>7, <1>11, KeepNumbers
<1>21. IInv'
  BY <1>1, <1>7, <1>12, <1>13, <1>14, <1>15, <1>16, <1>17, <1>18, <1>19, <1>20, UpInv
<1>22. ASSUME NEW d \in Dirs, NEW v \in Views(d.current)'
       PROVE  v \in Views(d.current) \/ v.next = edit.next
  <2>1. d.current = m
    BY <1>6
  <2>2. v \in Views(m) \cup {w}
    BY <1>7, <1>22, <2>1
  <2>3. w.next = edit.next
    BY <1>4
  <2>4. QED  BY <2>1, <2>2, <2>3
<1>23. QED  BY <1>7, <1>21, <1>22

LEMMA SyncedViews ==
  ASSUME NEW m, NEW recs \in Seq(VersionEdit), Recs(Manifest(m))' = recs,
         files'[Manifest(m)].durable = Len(recs)
  PROVE  Views(m)' = {View(recs)}
<1>1. \A r : View(r)' = View(r)
  BY DEF View, Tables, LastEdit, Numbered
<1>2. Views(m)' = {View(SubSeq(recs, 1, n)) : n \in Len(recs)..Len(recs)}
  BY <1>1 DEF Views, ViewOf, Manifest
<1>3. Len(recs)..Len(recs) = {Len(recs)}
  OBVIOUS
<1>4. SubSeq(recs, 1, Len(recs)) = recs
  BY SubSeqFull
<1>5. QED  BY <1>2, <1>3, <1>4

LEMMA StepAppendEdit ==
  ASSUME IInv, AppendEdit
  PROVE  IInv'
<1>1. /\ pc = "append" /\ pc' = "sync" /\ AppendRecord(Manifest(manifestNo), edit)
      /\ UNCHANGED <<job, up, version, nextFile, manifestNo, logNo, lastSeq, descriptor, mem, imm, logFileNo>>
      /\ UNCHANGED <<bgError, pending, logs, replay, maxSeq, save, table, edit, inputs, output, garbage>>
      /\ UNCHANGED <<writing, writes, acked, synced, losses, faulty, events>>
  BY DEF AppendEdit, versionVars, memVars, openVars, workVars, history, bounds
<1>2. ProcessTyped
  BY Typed
<1>3. up \/ Creating \/ (~up /\ job = "open")
  BY <1>1, <1>2 DEF IInv, ProcessInv, PhaseInv, Creating, Opening, Saving
<1>4. CASE Creating
  <2>1. /\ ~up /\ job = "new" /\ Dir.current = 0 /\ manifestNo = 1 /\ \A d \in Dirs : d.current # 1
        /\ edit = FirstEdit /\ Manifest(1) \in Dir.names /\ Recs(Manifest(1)) = <<>>
        /\ FirstEdit \in VersionEdit
    BY <1>1, <1>4, CreateFacts
  <2>2. AppendRecord(Manifest(1), FirstEdit)
    BY <1>1, <2>1
  <2>3. /\ Still({}, {Manifest(1)}) /\ Dir' = Dir
        /\ Recs(Manifest(1))' = Append(Recs(Manifest(1)), FirstEdit)
    BY <2>1, <2>2, StillAppend
  <2>4. Recs(Manifest(1))' = <<FirstEdit>>
    <3>1. PICK e : e = FirstEdit
      OBVIOUS
    <3>2. Append(<<>>, e) = <<e>>
      OBVIOUS
    <3>3. QED  BY <2>1, <2>3, <3>1, <3>2
  <2>5. Creating'
    BY <1>1, <2>1 DEF Creating
  <2>6. CreateInv'
    <3>1. FirstEdit' = FirstEdit
      BY DEF FirstEdit, NoEdit
    <3>2. QED  BY <1>1, <2>1, <2>3, <2>4, <3>1 DEF CreateInv, Manifest
  <2>7. manifestNo' \in Nat /\ edit' \in {FirstEdit, NoEdit} /\ job' = job
    BY <1>1, <2>1
  <2>8. QED  BY <1>1, <1>4, <2>3, <2>5, <2>6, <2>7, CreateStep
<1>5. CASE ~up /\ job = "open"
  <2>1. /\ manifestNo \in Nat /\ nextFile \in Nat /\ lastSeq \in Nat /\ Dir.current # 0
        /\ (\A d \in Dirs : d.current # manifestNo) /\ edit.del = {} /\ edit \in VersionEdit
        /\ edit.log = logFileNo /\ EditCounters /\ Manifest(manifestNo) \in Dir.names
        /\ Recs(Manifest(manifestNo)) = <<Snapshot>> /\ descriptor
    BY <1>1, <1>5, SaveFacts
  <2>2. PICK m, e, s : m \in Nat /\ e \in VersionEdit /\ m = manifestNo /\ e = edit /\ s = Snapshot
    BY <2>1
  <2>3. AppendRecord(Manifest(m), e) /\ Manifest(m) \in Dir.names /\ \A d \in Dirs : d.current # m
    BY <1>1, <2>1, <2>2
  <2>4. /\ Still({}, {Manifest(m)}) /\ Dir' = Dir
        /\ Recs(Manifest(m))' = Append(Recs(Manifest(m)), e)
    BY <2>2, <2>3, StillAppend
  <2>5. Recs(Manifest(m))' = <<s, e>>
    BY <2>1, <2>2, <2>4, AppendToOne
  <2>6. Snapshot' = s /\ edit' = e
    BY <1>1, <2>2 DEF Snapshot, NoEdit
  <2>7. Recs(Manifest(manifestNo))' = <<Snapshot', edit'>> /\ Manifest(manifestNo) \in Dir'.names
    BY <1>1, <2>2, <2>3, <2>4, <2>5, <2>6 DEF Recs, Manifest
  <2>8. nextFile' \in Nat /\ nextFile' >= nextFile /\ lastSeq' \in Nat /\ lastSeq' >= lastSeq
    BY <1>1, <2>1
  <2>9. EditCounters'
    BY <1>1, <2>1, <2>4, <2>8, CalmFirm, KeepEditCounters DEF Still
  <2>10. pc \in {"apply", "append", "sync", "temp"} /\ pc' = "sync"
    BY <1>1
  <2>11. edit' = edit /\ edit'.log = logFileNo /\ edit'.del = {} /\ edit' \in VersionEdit
    BY <1>1, <2>1
  <2>12. descriptor' = TRUE
    <3>1. descriptor = TRUE
      BY <1>2, <2>1, Zenon DEF ProcessTyped
    <3>2. QED  BY <1>1, <3>1
  <2>13. QED
    BY <1>1, <1>5, <2>4, <2>7, <2>9, <2>10, <2>11, <2>12, SaveStep
<1>6. CASE up
  BY <1>6, StepApplyAppends
<1>7. QED  BY <1>3, <1>4, <1>5, <1>6

LEMMA StepSyncManifest ==
  ASSUME IInv, SyncManifest
  PROVE  IInv'
<1>1. /\ pc = "sync" /\ pc' = IF NewManifest THEN "temp" ELSE "install"
      /\ SyncFile(Manifest(manifestNo), Recs(Manifest(manifestNo)))
      /\ UNCHANGED <<job, up, version, nextFile, manifestNo, logNo, lastSeq, descriptor, mem, imm, logFileNo>>
      /\ UNCHANGED <<bgError, pending, logs, replay, maxSeq, save, table, edit, inputs, output, garbage>>
      /\ UNCHANGED <<writing, writes, acked, synced, losses, faulty, events>>
  BY DEF SyncManifest, versionVars, memVars, openVars, workVars, history, bounds
<1>2. ProcessTyped /\ HistoryTyped /\ DiskTyped
  BY Typed
<1>3. up \/ Creating \/ (~up /\ job = "open")
  BY <1>1, <1>2 DEF IInv, ProcessInv, PhaseInv, Creating, Opening, Saving
<1>4. nextFile' \in Nat /\ nextFile' >= nextFile /\ lastSeq' \in Nat /\ lastSeq' >= lastSeq
  BY <1>1, <1>2 DEF ProcessTyped
<1>5. CASE Creating
  <2>1. /\ ~up /\ job = "new" /\ Dir.current = 0 /\ manifestNo = 1
        /\ edit = FirstEdit /\ Manifest(1) \in Dir.names /\ Recs(Manifest(1)) = <<FirstEdit>>
    BY <1>1, <1>5, CreateFacts
  <2>2. PICK f, recs : f = Manifest(1) /\ recs = <<FirstEdit>>
    OBVIOUS
  <2>3. SyncFile(f, Recs(f)) /\ f \in Dir.names
    BY <1>1, <2>1, <2>2
  <2>4. /\ Still({}, {}) /\ Dir' = Dir /\ Recs(f)' = Recs(f) /\ files'[f].durable = Len(Recs(f))
    BY <2>3, StillSync
  <2>5. Len(recs) = 1 /\ Recs(f) = recs
    BY <2>1, <2>2
  <2>6. pc' = "temp" /\ Creating'
    BY <1>1, <2>1 DEF NewManifest, Creating
  <2>7. CreateInv'
    <3>1. FirstEdit' = FirstEdit
      BY DEF FirstEdit, NoEdit
    <3>2. files'[Manifest(1)].durable = 1 /\ Recs(Manifest(1))' = <<FirstEdit>>
      BY <2>2, <2>4, <2>5
    <3>3. QED  BY <1>1, <2>1, <2>4, <2>6, <3>1, <3>2 DEF CreateInv, Manifest
  <2>8. manifestNo' \in Nat /\ edit' \in {FirstEdit, NoEdit} /\ job' = job
    BY <1>1, <2>1
  <2>9. QED  BY <1>1, <1>5, <2>4, <2>6, <2>7, <2>8, CreateStep
<1>6. CASE ~up /\ job = "open"
  <2>1. /\ manifestNo \in Nat /\ Dir.current # 0 /\ Dir \in Dirs
        /\ (\A d \in Dirs : d.current # manifestNo) /\ edit.del = {} /\ edit \in VersionEdit
        /\ edit.log = logFileNo /\ EditCounters /\ Manifest(manifestNo) \in Dir.names
        /\ Recs(Manifest(manifestNo)) = <<Snapshot, edit>> /\ descriptor
    BY <1>1, <1>6, SaveFacts, Typed
  <2>2. PICK f, recs : f = Manifest(manifestNo) /\ recs = <<Snapshot, edit>>
    OBVIOUS
  <2>3. SyncFile(f, Recs(f)) /\ f \in Dir.names
    BY <1>1, <2>1, <2>2
  <2>4. /\ Still({}, {}) /\ Dir' = Dir /\ Recs(f)' = Recs(f) /\ files'[f].durable = Len(Recs(f))
    BY <2>3, StillSync
  <2>5. Len(recs) = 2 /\ Recs(f) = recs
    BY <2>1, <2>2
  <2>6. pc' = "temp"
    BY <1>1, <2>1 DEF NewManifest
  <2>7. Snapshot' = Snapshot /\ edit' = edit
    BY <1>1 DEF Snapshot, NoEdit
  <2>8. /\ Recs(Manifest(manifestNo))' = <<Snapshot', edit'>> /\ Manifest(manifestNo) \in Dir'.names
        /\ files'[Manifest(manifestNo)].durable = 2
    BY <1>1, <2>2, <2>3, <2>4, <2>5, <2>7 DEF Recs, Manifest
  <2>9. EditCounters'
    BY <1>1, <1>4, <2>1, <2>4, CalmFirm, KeepEditCounters DEF Still
  <2>10. pc \in {"apply", "append", "sync", "temp"}
    BY <1>1
  <2>11. edit'.log = logFileNo /\ edit'.del = {} /\ edit' \in VersionEdit /\ edit'.add = edit.add
    BY <1>1, <2>1
  <2>12. descriptor' = TRUE
    <3>1. descriptor = TRUE
      BY <1>2, <2>1, Zenon DEF ProcessTyped
    <3>2. QED  BY <1>1, <3>1
  <2>13. QED
    BY <1>1, <1>6, <2>4, <2>6, <2>8, <2>9, <2>10, <2>11, <2>12, SaveStep
<1>7. CASE up
  <2>1. Applying
    BY <1>1, <1>7 DEF Applying
  <2>2. /\ Serving /\ job \in {"flush", "merge"} /\ Dir.current # 0 /\ Dir.current = manifestNo
        /\ manifestNo \in Nat
        /\ garbage = {} /\ table = NoTable /\ inputs \subseteq version /\ (output # 0 => inputs # {})
        /\ pending = (IF output # 0 THEN {output} ELSE {})
        /\ Dir \in Dirs /\ DirInv(Dir)
    BY <2>1, ApplyFacts, Typed
  <2>3. PICK f, m : m = manifestNo /\ f = Manifest(m)
    OBVIOUS
  <2>4. f \in Dir.names /\ f \in DOMAIN files
    BY <1>2, <2>2, <2>3, DirOpen
  <2>5. PICK recs : recs = Recs(f)
    OBVIOUS
  <2>6. recs \in Seq(VersionEdit)
    BY <1>2, <2>3, <2>4, <2>5, RecordsTyped DEF DiskTyped
  <2>7. /\ Still({}, {}) /\ Dir' = Dir /\ Dirs' = {Dir} /\ Recs(f)' = recs
        /\ files'[f].durable = Len(recs)
    BY <1>1, <2>3, <2>4, <2>5, StillSync
  <2>8. Views(m)' = {Final}
    <3>1. Views(m)' = {View(recs)}
      BY <2>3, <2>6, <2>7, SyncedViews
    <3>2. QED  BY <2>2, <2>3, <2>5, <3>1 DEF Final
  <2>9. Views(manifestNo)' = Views(m)'
    BY <1>1, <2>3 DEF Views, ViewOf
  <2>10. pc' = "install" /\ Applying'
    BY <1>1, <1>7, <2>2 DEF NewManifest, Applying
  <2>11. ProcessTyped' /\ HistoryTyped'
    BY <1>1, <1>2, <2>10 DEF ProcessTyped, HistoryTyped, Places
  <2>12. PhaseInv'
    BY <1>1, <1>7, <2>2, <2>10 DEF PhaseInv, Creating
  <2>13. FreshInv'
    <3>1. CASE job = "merge"
      BY <1>1, <2>10, <3>1 DEF FreshInv
    <3>2. CASE job = "flush"
      <4>1. output # 0 => output \notin edit'.add
        BY <1>1, <2>1, <3>2 DEF IInv, ProcessInv, FreshInv, Fresh
      <4>2. output # 0 => Fresh(output)'
        BY <1>1, <1>4, <1>7, <2>7, <3>2, <4>1, CalmFirm, KeepOutput DEF Still
      <4>3. QED  BY <1>1, <2>10, <4>2 DEF FreshInv
    <3>3. QED  BY <2>2, <3>1, <3>2
  <2>14. DiskInv' /\ ManifestInv' /\ LogInv' /\ VersionInv' /\ WriteInv'
    <3>1. Recorded /\ Recorded'
      BY <1>1, <2>10 DEF Recorded
    <3>2. Target' = Target /\ TargetLog' = TargetLog
      BY <1>1, <3>1 DEF Target, TargetLog
    <3>3. \A v \in Views(manifestNo)' : v = Final
      BY <2>8, <2>9
    <3>4. QED  BY <1>1, <1>4, <1>7, <2>2, <2>7, <3>1, <3>2, <3>3, KeepServing
  <2>15. ApplyInv'
    BY <1>1, <1>4, <1>7, <2>1, <2>2, <2>7, <2>10, CalmFirm, KeepApply DEF Still
  <2>16. NumbersInv'
    BY <1>1, <1>4, <1>7, <2>7, KeepNumbers
  <2>17. QED
    BY <1>1, <1>7, <2>11, <2>12, <2>13, <2>14, <2>15, <2>16, UpInv
<1>8. QED  BY <1>3, <1>5, <1>6, <1>7

LEMMA StepWriteTemp ==
  ASSUME IInv, WriteTemp
  PROVE  IInv'
<1>1. /\ pc = "temp" /\ pc' = "rename" /\ WriteFileSync(Temp(manifestNo), manifestNo)
      /\ UNCHANGED <<job, up, version, nextFile, manifestNo, logNo, lastSeq, descriptor, mem, imm, logFileNo>>
      /\ UNCHANGED <<bgError, pending, logs, replay, maxSeq, save, table, edit, inputs, output, garbage>>
      /\ UNCHANGED <<writing, writes, acked, synced, losses, faulty, events>>
  BY DEF WriteTemp, versionVars, memVars, openVars, workVars, history, bounds
<1>2. ProcessTyped
  BY Typed
<1>3. Creating \/ (~up /\ job = "open")
  BY <1>1, <1>2 DEF IInv, ProcessInv, PhaseInv, Applying, Creating, Opening, Saving
<1>4. PICK m \in Nat : m = manifestNo
  BY <1>2 DEF ProcessTyped
<1>5. /\ Still({Temp(m)}, {Temp(m)}) /\ Dir'.names = Dir.names \cup {Temp(m)}
      /\ \A n : Manifest(n) \in Dir.names => files'[Manifest(n)] = files[Manifest(n)]
  BY <1>1, <1>4, StillTemp
<1>6. CASE Creating
  <2>1. /\ ~up /\ job = "new" /\ Dir.current = 0 /\ manifestNo = 1
        /\ edit = FirstEdit /\ Manifest(1) \in Dir.names /\ Recs(Manifest(1)) = <<FirstEdit>>
        /\ files[Manifest(1)].durable = 1
    BY <1>1, <1>6, CreateFacts
  <2>2. Dir'.current = 0
    BY <1>5, <2>1, StillFacts
  <2>3. Creating'
    BY <1>1, <2>1 DEF Creating
  <2>4. CreateInv'
    <3>1. FirstEdit' = FirstEdit
      BY DEF FirstEdit, NoEdit
    <3>2. files'[Manifest(1)].durable = 1 /\ Recs(Manifest(1))' = <<FirstEdit>>
      BY <1>5, <2>1 DEF Recs, Manifest
    <3>3. QED  BY <1>1, <1>5, <2>1, <2>2, <3>1, <3>2 DEF CreateInv, Manifest
  <2>5. manifestNo' \in Nat /\ edit' \in {FirstEdit, NoEdit} /\ job' = job
    BY <1>1, <2>1
  <2>6. QED  BY <1>1, <1>5, <1>6, <2>3, <2>4, <2>5, CreateStep
<1>7. CASE ~up /\ job = "open"
  <2>1. /\ nextFile \in Nat /\ lastSeq \in Nat /\ Dir.current # 0
        /\ edit.del = {} /\ edit \in VersionEdit
        /\ edit.log = logFileNo /\ EditCounters /\ Manifest(manifestNo) \in Dir.names
        /\ Recs(Manifest(manifestNo)) = <<Snapshot, edit>> /\ descriptor
        /\ files[Manifest(manifestNo)].durable = 2
    BY <1>1, <1>7, SaveFacts
  <2>2. Snapshot' = Snapshot
    BY <1>1 DEF Snapshot, NoEdit
  <2>3. /\ Recs(Manifest(manifestNo))' = <<Snapshot', edit'>> /\ Manifest(manifestNo) \in Dir'.names
        /\ files'[Manifest(manifestNo)].durable = 2
    BY <1>1, <1>5, <2>1, <2>2 DEF Recs, Manifest
  <2>4. nextFile' \in Nat /\ nextFile' >= nextFile /\ lastSeq' \in Nat /\ lastSeq' >= lastSeq
    BY <1>1, <2>1
  <2>5. EditCounters'
    BY <1>1, <1>5, <2>1, <2>4, CalmFirm, KeepEditCounters DEF Still
  <2>6. pc \in {"apply", "append", "sync", "temp"} /\ pc' = "rename"
    BY <1>1
  <2>7. edit'.log = logFileNo /\ edit'.del = {} /\ edit' \in VersionEdit /\ edit'.add = edit.add
    BY <1>1, <2>1
  <2>8. descriptor' = TRUE
    <3>1. descriptor = TRUE
      BY <1>2, <2>1, Zenon DEF ProcessTyped
    <3>2. QED  BY <1>1, <3>1
  <2>9. QED
    BY <1>1, <1>5, <1>7, <2>3, <2>5, <2>6, <2>7, <2>8, SaveStep
<1>8. QED  BY <1>3, <1>6, <1>7
LEMMA StepOpen ==
  ASSUME IInv, Open
  PROVE  IInv'
<1>1. /\ pc = "down" /\ UNCHANGED diskVars
      /\ UNCHANGED <<up, version, nextFile, logNo, lastSeq, descriptor, mem, imm, logFileNo>>
      /\ UNCHANGED <<bgError, pending, logs, replay, maxSeq, save, table, edit, inputs, output, garbage>>
      /\ UNCHANGED <<writing, writes, acked, synced, losses, faulty, events>>
  BY DEF Open, memVars, openVars, workVars, history, bounds
<1>2. ProcessTyped /\ HistoryTyped /\ PhaseInv
  BY Typed DEF IInv, ProcessInv
<1>3. /\ ~up /\ edit = NoEdit /\ mem = {} /\ imm = {} /\ ~bgError /\ inputs = {} /\ output = 0
      /\ writing = NotWriting /\ version = {} /\ ~descriptor /\ logFileNo = 0
      /\ logs = {} /\ replay = NoReplay /\ maxSeq = 0 /\ logNo = 0 /\ lastSeq = 0 /\ ~save /\ nextFile = 2
      /\ table = NoTable /\ garbage = {} /\ pending = {}
  BY <1>1, <1>2 DEF PhaseInv, Applying
<1>4. Still({}, {}) /\ Dirs' = Dirs /\ Dir' = Dir
  BY <1>1, StillSame
<1>5. CASE Dir.current = 0
  <2>1. pc' = "create" /\ job' = "new" /\ manifestNo' = 1
    BY <1>5 DEF Open
  <2>2. Creating' /\ CreateInv'
    BY <1>1, <1>3, <1>4, <1>5, <2>1 DEF Creating, CreateInv
  <2>3. manifestNo' \in Nat /\ edit' \in {FirstEdit, NoEdit} /\ edit' = NoEdit
    BY <1>1, <1>3, <2>1
  <2>4. QED  BY <1>1, <1>4, <2>2, <2>3, CreateStep
<1>6. CASE Dir.current # 0
  <2>1. pc' = "recover" /\ UNCHANGED <<job, manifestNo>>
    BY <1>6 DEF Open
  <2>2. ProcessTyped' /\ HistoryTyped'
    BY <1>1, <1>2, <2>1 DEF ProcessTyped, HistoryTyped, Places
  <2>3. ~Opening' /\ ~Saving' /\ ~Creating' /\ ~Applying'
    BY <1>1, <1>3, <2>1 DEF Opening, Saving, Creating, Applying
  <2>4. PhaseInv'
    <3>1. manifestNo <= 1
      BY <1>1, <1>2 DEF PhaseInv
    <3>2. QED  BY <1>1, <1>3, <1>4, <1>6, <2>1, <2>3, <3>1 DEF PhaseInv, NoEdit
  <2>5. FreshInv' /\ RecoveredInv' /\ ReplayInv' /\ SaveInv' /\ CreateInv'
    BY <1>1, <1>3, <2>1, <2>3 DEF FreshInv, RecoveredInv, ReplayInv, SaveInv, CreateInv
  <2>6. DiskInv'
    BY <1>1, <1>2, <1>4, KeepDisk DEF Still, HistoryTyped
  <2>7. ~up' /\ writing' = NotWriting /\ pc' \notin {"install", "delete"}
    BY <1>1, <1>3, <2>1
  <2>8. QED  BY <2>2, <2>4, <2>5, <2>6, <2>7, OpenInv
<1>7. QED  BY <1>5, <1>6
\* The numbers of the logs that the directory has.
LEMMA LogNumbers ==
  ASSUME IInv
  PROVE  /\ \A n : n \in Numbers("log") <=> n \in Nat /\ Log(n) \in Dir.names
         /\ \A k : LogsFrom(k) = LogsFor(Dir, k)
<1>1. Dir.names \subseteq FileNames
  BY Typed DEF Directory
<1>2. ASSUME NEW n, n \in Numbers("log") PROVE n \in Nat /\ Log(n) \in Dir.names
  <2>1. PICK f \in Dir.names : f[1] = "log" /\ f[2] = n
    BY <1>2 DEF Numbers
  <2>2. n \in Nat /\ f = <<"log", n>>
    BY <1>1, <2>1 DEF FileNames
  <2>3. QED  BY <2>1, <2>2 DEF Log
<1>3. ASSUME NEW n \in Nat, Log(n) \in Dir.names PROVE n \in Numbers("log")
  <2>1. Log(n)[1] = "log" /\ Log(n)[2] = n
    BY DEF Log
  <2>2. QED  BY <1>3, <2>1 DEF Numbers
<1>4. QED  BY <1>2, <1>3 DEF LogsFrom, LogsFor

LEMMA StepRecoverVersions ==
  ASSUME IInv, RecoverVersions, ReuseLogs = FALSE
  PROVE  IInv'
<1>1. /\ pc = "recover" /\ UNCHANGED diskVars
      /\ UNCHANGED <<job, up, mem, imm, logFileNo, bgError, pending, replay, maxSeq>>
      /\ UNCHANGED <<table, edit, inputs, output, garbage, writing>>
      /\ UNCHANGED <<writes, acked, synced, losses, faulty, events>>
  BY DEF RecoverVersions, memVars, workVars, history, bounds
<1>2. ProcessTyped /\ HistoryTyped /\ PhaseInv
  BY Typed DEF IInv, ProcessInv
<1>3. /\ ~up /\ edit = NoEdit /\ mem = {} /\ imm = {} /\ ~bgError /\ inputs = {} /\ output = 0
      /\ writing = NotWriting /\ logFileNo = 0 /\ replay = NoReplay /\ maxSeq = 0
      /\ table = NoTable /\ garbage = {} /\ pending = {} /\ Dir.current # 0
  BY <1>1, <1>2 DEF PhaseInv, Applying
<1>4. Still({}, {}) /\ Dirs' = Dirs /\ Dir' = Dir
  BY <1>1, StillSame
<1>5. PICK v : v = Final
  OBVIOUS
<1>6. /\ version' = v.tables /\ manifestNo' = v.next /\ nextFile' = v.next + 1
      /\ logNo' = v.log /\ lastSeq' = v.seq /\ descriptor' = FALSE /\ save' = TRUE
      /\ logs' = LogsFrom(v.log) /\ pc' = IF logs' = {} THEN "replayed" ELSE "replay"
  BY <1>5 DEF RecoverVersions, Final, View
<1>7. logs' = LogsFor(Dir, v.log)
  BY <1>6, LogNumbers
<1>8. v \in ViewType /\ Sound(Dir, v) /\ v.next = Final.next
  BY <1>3, <1>5, FinalFacts
<1>9. v.next \in Nat /\ v.log \in Nat /\ v.seq \in Nat /\ v.tables \in SUBSET Nat
  BY <1>8 DEF ViewType
<1>10. Final' = v /\ Full' = Full /\ InUse' \subseteq InUse
  BY <1>3, <1>4, <1>5, StillFacts
<1>11. v.next > 0 /\ v.seq <= writes
  <2>1. Dir.current \in Nat
    BY Typed DEF Directory
  <2>2. QED  BY <1>8, <1>9, <2>1 DEF Sound
<1>12. \A d \in Dirs : d.current < v.next
  <2>1. \A d \in Dirs : d.current # 0 => d.current < v.next
    BY <1>8, Unnamed
  <2>2. QED  BY <1>9, <1>11, <2>1
<1>13. pc' \in {"replay", "replayed"} /\ ~up'
  BY <1>1, <1>3, <1>6
<1>14. Opening' /\ ~Saving' /\ ~Creating' /\ ~Applying'
  BY <1>13 DEF Opening, Saving, Creating, Applying
<1>15. nextFile' \in Nat /\ nextFile' >= 2
  BY <1>6, <1>9, <1>11
<1>16. ProcessTyped'
  <2>1. logs' \in SUBSET Nat
    BY <1>7 DEF LogsFor
  <2>2. pc' \in Places
    BY <1>13 DEF Places
  <2>3. QED  BY <1>1, <1>2, <1>6, <1>9, <1>15, <2>1, <2>2 DEF ProcessTyped
<1>17. HistoryTyped'
  BY <1>1, <1>2 DEF HistoryTyped
<1>18. PhaseInv'
  BY <1>1, <1>3, <1>13, <1>14 DEF PhaseInv
<1>19. FreshInv'
  BY <1>1, <1>3, <1>13 DEF FreshInv
<1>20. edit'.add = {} /\ edit'.del = {}
  BY <1>1, <1>3 DEF NoEdit
<1>21. TableEntries(edit.add)' = {}
  BY <1>20, TableEntriesUnion DEF TableEntries
<1>22. RecoveredInv'
  <2>1. v.next < nextFile' /\ v.next <= manifestNo' /\ maxSeq' <= writes'
    BY <1>1, <1>2, <1>3, <1>6, <1>9 DEF HistoryTyped
  <2>2. lastSeq' <= writes' /\ Final'.seq <= lastSeq'
    BY <1>1, <1>6, <1>9, <1>10, <1>11
  <2>3. \A d \in Dirs' : d.current < manifestNo'
    BY <1>4, <1>6, <1>12
  <2>4. QED
    BY <1>1, <1>3, <1>4, <1>6, <1>10, <1>14, <1>20, <1>21, <2>1, <2>2, <2>3 DEF RecoveredInv
<1>23. ReplayInv'
  <2>1. LogsFor(Dir, logNo)' = logs'
    BY <1>4, <1>6, <1>7 DEF LogsFor, Log
  <2>2. replay'.left = <<>>
    BY <1>1, <1>3 DEF NoReplay
  <2>3. QED  BY <1>1, <1>3, <1>6, <1>13, <2>1, <2>2 DEF ReplayInv
<1>24. SaveInv' /\ CreateInv'
  BY <1>13, <1>14 DEF SaveInv, CreateInv
<1>25. DiskInv'
  BY <1>1, <1>2, <1>4, KeepDisk DEF Still, HistoryTyped
<1>26. writing' = NotWriting /\ pc' \notin {"install", "delete"}
  BY <1>1, <1>3, <1>13
<1>27. QED
  BY <1>13, <1>16, <1>17, <1>18, <1>19, <1>22, <1>23, <1>24, <1>25, <1>26, OpenInv
LEMMA FullTyped ==
  ASSUME IInv
  PROVE  Full \subseteq Update
<1>1. CASE Dir.current = 0
  BY <1>1 DEF Full
<1>2. CASE Dir.current # 0
  <2>1. Sound(Dir, Final) /\ Full = Says(Dir, Final)
    BY <1>2, FinalFacts
  <2>2. FilesTyped /\ Dir.names \subseteq DOMAIN files
    BY Typed
  <2>3. ASSUME NEW t \in Final.tables PROVE Recs(Table(t))[1] \subseteq Update
    <3>1. Table(t) \in Dir.names /\ Len(Recs(Table(t))) = 1
      BY <2>1, <2>3 DEF Sound, Whole
    <3>2. Recs(Table(t)) \in Seq(SUBSET Update)
      BY <2>2, <3>1, RecordsTyped
    <3>3. QED  BY <3>1, <3>2
  <2>4. ASSUME NEW l, Log(l) \in Dir.names PROVE LogEntries(l) \subseteq Update
    <3>1. Recs(Log(l)) \in Seq(Update)
      BY <2>2, <2>4, RecordsTyped
    <3>2. QED  BY <3>1 DEF LogEntries, EntriesOf
  <2>5. TableEntries(Final.tables) \subseteq Update
    BY <2>3 DEF TableEntries
  <2>6. Logged(Dir, Final.log) \subseteq Update
    BY <2>4 DEF Logged, LogsFor
  <2>7. QED  BY <2>1, <2>5, <2>6 DEF Says
<1>3. QED  BY <1>1, <1>2

(***************************************************************************)
(* Replaying the logs.                                                     *)
(***************************************************************************)
LEMMA ReplayFacts ==
  ASSUME IInv, pc \in {"replay", "replaying", "replayed"}
  PROVE  /\ ~up /\ Opening /\ ~Saving /\ mem = {} /\ imm = {} /\ ~bgError /\ inputs = {} /\ output = 0
         /\ writing = NotWriting /\ garbage = {} /\ pending = {} /\ table = NoTable
         /\ Dir.current # 0 /\ save /\ ~descriptor /\ logFileNo = 0
         /\ lastSeq \in Nat /\ lastSeq <= writes /\ maxSeq \in Nat /\ maxSeq <= writes
         /\ writes \in Nat /\ nextFile \in Nat /\ nextFile >= 2 /\ edit.del = {}
         /\ TableEntries(edit.add) \subseteq Full /\ \A e \in Full : e.seq <= writes
         /\ logs \in SUBSET Nat /\ logs \subseteq LogsFor(Dir, logNo)
         /\ \A l \in LogsFor(Dir, logNo) : l \in Nat /\ Log(l) \in Dir.names /\ LogEntries(l) \subseteq Full
         /\ \A l \in LogsFor(Dir, logNo) \ logs :
              /\ l < nextFile \/ l = logFileNo
              /\ LogEntries(l) \subseteq TableEntries(edit.add)
              /\ \A e \in LogEntries(l) : e.seq <= maxSeq
         /\ pc # "replayed" => logs # {}
         /\ pc = "replaying" =>
              /\ LogEntries(OldestLog) \subseteq TableEntries(edit.add) \cup EntriesOf(replay.left)
              /\ EntriesOf(replay.left) \subseteq LogEntries(OldestLog)
              /\ \A e \in LogEntries(OldestLog) : e.seq <= maxSeq
         /\ pc # "replaying" => replay.left = <<>>
         /\ replay.left \in Seq(Update)
         /\ pc = "replayed" => logs = {}
<1>1. ProcessTyped /\ HistoryTyped /\ PhaseInv /\ RecoveredInv /\ ReplayInv /\ FullInv
  BY Typed DEF IInv, ProcessInv, DiskInv
<1>2. ~up /\ Opening /\ ~Saving
  BY <1>1 DEF PhaseInv, Applying, Opening, Saving
<1>3. /\ mem = {} /\ imm = {} /\ ~bgError /\ inputs = {} /\ output = 0
      /\ writing = NotWriting /\ garbage = {} /\ pending = {} /\ table = NoTable
  BY <1>1, <1>2 DEF PhaseInv
<1>4. /\ lastSeq \in Nat /\ maxSeq \in Nat /\ writes \in Nat /\ nextFile \in Nat /\ nextFile >= 2
      /\ logs \in SUBSET Nat /\ replay.left \in Seq(Update)
  BY <1>1 DEF ProcessTyped, HistoryTyped
<1>5. \A e \in Full : e.seq <= writes
  <2>1. TAKE e \in Full
  <2>2. e.op \in 1..writes /\ e.seq <= e.op /\ e.seq \in Nat
    BY <1>1, <2>1, FullTyped DEF FullInv, Update
  <2>3. QED  BY <1>4, <2>2
<1>6. /\ Dir.current # 0 /\ save /\ ~descriptor /\ edit.del = {} /\ lastSeq <= writes /\ maxSeq <= writes
      /\ TableEntries(edit.add) \subseteq Full
  BY <1>1, <1>2 DEF RecoveredInv
<1>7. pc # "build" /\ Replaying = EntriesOf(replay.left)
  BY <1>3 DEF Replaying, NoTable
<1>8. \A l \in LogsFor(Dir, logNo) : l \in Nat /\ Log(l) \in Dir.names /\ LogEntries(l) \subseteq Full
  <2>1. Full = Says(Dir, Final) /\ logNo = Final.log
    BY <1>1, <1>2, <1>6, FinalFacts DEF RecoveredInv
  <2>2. QED  BY <2>1 DEF Says, Logged, LogsFor
<1>9. /\ logs \subseteq LogsFor(Dir, logNo)
      /\ \A l \in LogsFor(Dir, logNo) \ logs :
           /\ l < nextFile \/ l = logFileNo
           /\ LogEntries(l) \subseteq TableEntries(edit.add)
           /\ \A e \in LogEntries(l) : e.seq <= maxSeq
      /\ pc # "replayed" => logs # {}
      /\ pc = "replaying" =>
           /\ LogEntries(OldestLog) \subseteq TableEntries(edit.add) \cup Replaying
           /\ Replaying \subseteq LogEntries(OldestLog)
           /\ \A e \in LogEntries(OldestLog) : e.seq <= maxSeq
      /\ pc # "replaying" => replay.left = <<>>
      /\ pc = "replayed" => logs = {}
      /\ logFileNo = 0
  BY <1>1, <1>2, <1>7 DEF ReplayInv
<1>10. QED  BY <1>2, <1>3, <1>4, <1>5, <1>6, <1>7, <1>8, <1>9

LEMMA ReplayStep ==
  ASSUME IInv, NEW X, NEW Y, Still(X, Y), pc \in {"replay", "replaying"},
         pc' \in {"replay", "replaying", "build", "replayed"}, job' \in {"none", "new", "open", "flush", "merge"},
         UNCHANGED <<up, version, manifestNo, logNo, lastSeq, descriptor, mem, imm, bgError, edit>>,
         UNCHANGED <<inputs, output, garbage, writing, writes, acked, synced, losses, faulty, events>>,
         logFileNo' = 0, save' = TRUE, maxSeq' \in Nat, maxSeq' <= writes,
         nextFile' \in Nat, nextFile' >= nextFile, logs' \in SUBSET Nat,
         replay' \in [left : Seq(Update), cut : BOOLEAN],
         table' \in [no : Nat, entries : SUBSET Update], pc' # "build" => table' = NoTable,
         pending' = IF pc' = "build" THEN {table'.no} ELSE {},
         pc' = "build" => Fresh(table.no)' /\ table'.no # 0,
         ReplayInv'
  PROVE  IInv'
<1>1. ProcessTyped /\ HistoryTyped /\ PhaseInv
  BY Typed DEF IInv, ProcessInv
<1>2. /\ ~up /\ Opening /\ ~Saving /\ mem = {} /\ imm = {} /\ ~bgError /\ inputs = {} /\ output = 0
      /\ writing = NotWriting /\ garbage = {} /\ Dir.current # 0 /\ ~descriptor /\ edit.del = {}
      /\ lastSeq \in Nat /\ lastSeq <= writes /\ writes \in Nat
  BY ReplayFacts
<1>3. ~up' /\ Opening' /\ ~Saving' /\ ~Creating' /\ ~Applying'
  BY <1>2 DEF Opening, Saving, Creating, Applying
<1>4. ProcessTyped'
  <2>1. pc' \in Places
    BY DEF Places
  <2>2. nextFile' >= 2 /\ pending' \in SUBSET Nat
    BY <1>1 DEF ProcessTyped
  <2>3. QED  BY <1>1, <2>1, <2>2 DEF ProcessTyped
<1>5. HistoryTyped'
  BY <1>1 DEF HistoryTyped
<1>6. PhaseInv'
  BY <1>2, <1>3 DEF PhaseInv
<1>7. FreshInv'
  <2>1. output' = 0 /\ (pc' = "build" => Fresh(table.no)' /\ table'.no # output')
    BY <1>2
  <2>2. QED  BY <2>1 DEF FreshInv
<1>8. RecoveredInv'
  <2>1. lastSeq' \in Nat /\ lastSeq <= lastSeq' /\ lastSeq' <= writes /\ (descriptor' <=> Saving')
        /\ edit'.del = {} /\ edit'.add = edit.add
    BY <1>2, <1>3
  <2>2. QED  BY <1>2, <2>1, KeepRecovered DEF Still
<1>9. SaveInv' /\ CreateInv'
  BY <1>3 DEF SaveInv, CreateInv
<1>10. DiskInv'
  BY <1>2, KeepDisk DEF Still
<1>11. writing' = NotWriting /\ pc' \notin {"install", "delete"}
  BY <1>2
<1>12. QED
  BY <1>3, <1>4, <1>5, <1>6, <1>7, <1>8, <1>9, <1>10, <1>11, OpenInv

LEMMA StepReadLog ==
  ASSUME IInv, ReadLog
  PROVE  IInv'
<1>1. /\ pc = "replay" /\ pc' = "replaying" /\ UNCHANGED diskVars
      /\ replay' = [left |-> Recs(Log(OldestLog)), cut |-> FALSE]
      /\ UNCHANGED <<job, up, version, nextFile, manifestNo, logNo, lastSeq, descriptor, mem, imm, logFileNo>>
      /\ UNCHANGED <<bgError, pending, logs, save, table, edit, inputs, output, garbage>>
      /\ UNCHANGED <<writing, writes, acked, synced, losses, faulty, events>>
  BY DEF ReadLog, versionVars, memVars, workVars, history, bounds
<1>2. /\ Opening /\ logs # {} /\ table = NoTable /\ pending = {} /\ save /\ logFileNo = 0
      /\ maxSeq \in Nat /\ maxSeq <= writes /\ writes \in Nat /\ nextFile \in Nat
      /\ logs \in SUBSET Nat /\ logs \subseteq LogsFor(Dir, logNo) /\ \A e \in Full : e.seq <= writes
      /\ \A l \in LogsFor(Dir, logNo) : LogEntries(l) \subseteq Full
      /\ \A l \in LogsFor(Dir, logNo) \ logs :
           /\ l < nextFile \/ l = logFileNo
           /\ LogEntries(l) \subseteq TableEntries(edit.add)
           /\ \A e \in LogEntries(l) : e.seq <= maxSeq
  BY <1>1, ReplayFacts
<1>3. /\ OldestLog \in logs /\ LogEntries(OldestLog) \subseteq Full
      /\ Recs(Log(OldestLog)) \in Seq(Update)
  BY <1>2, Oldest
<1>4. PICK recs \in Seq(Update) : recs = Recs(Log(OldestLog))
  BY <1>3
<1> DEFINE numbers == {recs[i].seq : i \in DOMAIN recs} \cup {maxSeq}
<1>5. numbers \in SUBSET Nat /\ numbers # {} /\ \A k \in numbers : k <= writes
  <2>1. \A i \in DOMAIN recs : recs[i] \in Update /\ recs[i] \in Full
    BY <1>3, <1>4 DEF LogEntries, EntriesOf
  <2>2. QED  BY <1>2, <2>1 DEF Update
<1>6. maxSeq' = Greatest(numbers)
  BY <1>4 DEF ReadLog
<1>7. maxSeq' \in numbers /\ \A k \in numbers : k <= maxSeq'
  <2>1. \E m \in numbers : \A k \in numbers : k <= m
    BY <1>2, <1>5, GreatestNumber
  <2>2. QED  BY <1>6, <2>1 DEF Greatest
<1>8. maxSeq' \in Nat /\ maxSeq' <= writes /\ maxSeq <= maxSeq'
  BY <1>5, <1>7
<1>9. \A e \in LogEntries(OldestLog) : e.seq <= maxSeq'
  <2>1. \A i \in DOMAIN recs : recs[i].seq <= maxSeq'
    BY <1>7
  <2>2. QED  BY <1>4, <2>1 DEF LogEntries, EntriesOf
<1>10. Still({}, {}) /\ Dir' = Dir
  BY <1>1, StillSame
<1>11. /\ \A l : LogEntries(l)' = LogEntries(l)
       /\ LogsFor(Dir, logNo)' = LogsFor(Dir, logNo)
       /\ TableEntries(edit.add)' = TableEntries(edit.add)
       /\ OldestLog' = OldestLog
  BY <1>1, <1>10 DEF LogEntries, EntriesOf, Recs, Log, LogsFor, TableEntries, Table, OldestLog, diskVars
<1>12. Replaying' = LogEntries(OldestLog)
  <2>1. Replaying' = NoTable.entries \cup EntriesOf(Recs(Log(OldestLog)))
    BY <1>1, <1>2 DEF Replaying, EntriesOf
  <2>2. QED  BY <2>1 DEF NoTable, LogEntries
<1>13. ReplayInv'
  <2>1. \A l \in LogsFor(Dir, logNo)' \ logs' :
           /\ l < nextFile' \/ l = logFileNo'
           /\ LogEntries(l)' \subseteq TableEntries(edit.add)'
           /\ \A e \in LogEntries(l)' : e.seq <= maxSeq'
    <3>1. SUFFICES ASSUME NEW l \in LogsFor(Dir, logNo) \ logs, NEW e \in LogEntries(l) PROVE e.seq <= maxSeq'
      BY <1>1, <1>2, <1>11
    <3>2. e.seq <= maxSeq /\ e.seq \in Nat
      BY <1>2, <3>1, FullTyped DEF Update
    <3>3. QED  BY <1>2, <1>8, <3>2
  <2>2. /\ LogEntries(OldestLog)' = LogEntries(OldestLog)
        /\ \A e \in LogEntries(OldestLog)' : e.seq <= maxSeq'
    <3>1. LogEntries(OldestLog)' = LogEntries(OldestLog)
      BY <1>1, <1>11 DEF LogEntries, EntriesOf, Recs, Log, diskVars
    <3>2. QED  BY <1>9, <3>1
  <2>3. logs' \subseteq LogsFor(Dir, logNo)' /\ logs' # {} /\ logFileNo' = 0
    BY <1>1, <1>2, <1>11
  <2>4. QED  BY <1>1, <1>12, <2>1, <2>2, <2>3 DEF ReplayInv
<1>14. /\ replay' \in [left : Seq(Update), cut : BOOLEAN] /\ table' \in [no : Nat, entries : SUBSET Update]
       /\ table' = NoTable /\ pending' = {} /\ logFileNo' = 0 /\ logs' \in SUBSET Nat
       /\ nextFile' \in Nat /\ nextFile' >= nextFile
  BY <1>1, <1>2, <1>3 DEF NoTable
<1>15. save' = TRUE /\ job' \in {"none", "new", "open", "flush", "merge"}
  <2>1. ProcessTyped
    BY Typed
  <2>2. save = TRUE
    BY <1>2, <2>1, Zenon DEF ProcessTyped
  <2>3. QED  BY <1>1, <2>1, <2>2 DEF ProcessTyped
<1>16. QED
  BY <1>1, <1>8, <1>10, <1>13, <1>14, <1>15, ReplayStep
\* What is made a table of and what is left are the whole.
LEMMA Split ==
  ASSUME NEW S, NEW recs \in Seq(S), NEW k \in 1..Len(recs)
  PROVE  /\ SubSeq(recs, k + 1, Len(recs)) \in Seq(S) /\ EntriesOf(SubSeq(recs, 1, k)) \subseteq S
         /\ EntriesOf(SubSeq(recs, 1, k)) \cup EntriesOf(SubSeq(recs, k + 1, Len(recs))) = EntriesOf(recs)
<1> DEFINE n == Len(recs)
           rest == SubSeq(recs, k + 1, n)
<1>1. n \in Nat /\ k \in 0..n /\ DOMAIN recs = 1..n
  OBVIOUS
<1>2. /\ EntriesOf(SubSeq(recs, 1, k)) = {recs[i] : i \in 1..k}
  BY <1>1, Prefix
<1>3. rest \in Seq(S) /\ DOMAIN rest = 1..(n - k) /\ \A i \in 1..(n - k) : rest[i] = recs[i + k]
  OBVIOUS
<1>4. EntriesOf(rest) = {recs[i] : i \in (k + 1)..n}
  <2>1. EntriesOf(rest) = {recs[i + k] : i \in 1..(n - k)}
    BY <1>3 DEF EntriesOf
  <2>2. \A i \in (k + 1)..n : i - k \in 1..(n - k) /\ recs[(i - k) + k] = recs[i]
    BY <1>1
  <2>3. \A i \in 1..(n - k) : i + k \in (k + 1)..n
    BY <1>1
  <2>4. {recs[i + k] : i \in 1..(n - k)} = {recs[i] : i \in (k + 1)..n}
    <3>1. ASSUME NEW x \in {recs[i] : i \in (k + 1)..n} PROVE x \in {recs[i + k] : i \in 1..(n - k)}
      <4>1. PICK i \in (k + 1)..n : x = recs[i]
        BY <3>1
      <4>2. PICK j \in 1..(n - k) : j = i - k /\ recs[j + k] = x
        BY <2>2, <4>1
      <4>3. QED  BY <4>2
    <3>2. QED  BY <2>3, <3>1
  <2>5. QED  BY <2>1, <2>4
<1>5. EntriesOf(recs) = {recs[i] : i \in 1..n}
  BY <1>1 DEF EntriesOf
<1>6. \A i \in 1..n : recs[i] \in S
  BY <1>1
<1> HIDE DEF rest, n
<1>7. {recs[i] : i \in 1..k} \cup {recs[i] : i \in (k + 1)..n} = {recs[i] : i \in 1..n}
  <2>1. \A i : i \in 1..n <=> i \in 1..k \/ i \in (k + 1)..n
    BY <1>1
  <2>2. QED  BY <2>1
<1>8. {recs[i] : i \in 1..k} \subseteq S
  BY <1>1, <1>6
<1>9. QED  BY <1>2, <1>3, <1>4, <1>5, <1>7, <1>8 DEF rest, n

LEMMA StepReplayTable ==
  ASSUME IInv, ReplayTable
  PROVE  IInv'
<1>1. /\ pc = "replaying" /\ pc' = "build" /\ nextFile' = nextFile + 1 /\ pending' = pending \cup {nextFile}
      /\ NewWritableFile(Table(nextFile), <<>>) /\ job' = "open" /\ save' = TRUE
      /\ UNCHANGED <<up, version, manifestNo, logNo, lastSeq, descriptor, mem, imm, logFileNo, bgError>>
      /\ UNCHANGED <<logs, maxSeq, edit, inputs, output, garbage, writing>>
      /\ UNCHANGED <<writes, acked, synced, losses, faulty, events>>
  BY DEF ReplayTable, NewTable, history, bounds
<1>2. PICK k \in 1..Len(replay.left) :
         /\ table' = [no |-> nextFile, entries |-> EntriesOf(SubSeq(replay.left, 1, k))]
         /\ replay' = [left |-> SubSeq(replay.left, k + 1, Len(replay.left)), cut |-> TRUE]
  BY DEF ReplayTable, NewTable
<1>3. /\ Opening /\ logs # {} /\ table = NoTable /\ pending = {} /\ logFileNo = 0 /\ Dir.current # 0
      /\ maxSeq \in Nat /\ maxSeq <= writes /\ nextFile \in Nat /\ nextFile >= 2
      /\ logs \in SUBSET Nat /\ logs \subseteq LogsFor(Dir, logNo)
      /\ \A l \in LogsFor(Dir, logNo) : l \in Nat /\ Log(l) \in Dir.names
      /\ \A l \in LogsFor(Dir, logNo) \ logs :
           /\ l < nextFile \/ l = logFileNo
           /\ LogEntries(l) \subseteq TableEntries(edit.add)
           /\ \A e \in LogEntries(l) : e.seq <= maxSeq
      /\ LogEntries(OldestLog) \subseteq TableEntries(edit.add) \cup EntriesOf(replay.left)
      /\ EntriesOf(replay.left) \subseteq LogEntries(OldestLog)
      /\ \A e \in LogEntries(OldestLog) : e.seq <= maxSeq
      /\ replay.left \in Seq(Update)
  BY <1>1, ReplayFacts
<1>4. OldestLog \in logs /\ OldestLog \in Nat /\ Log(OldestLog) \in Dir.names
  BY <1>3, Oldest
<1>5. PICK n, o, left : n = nextFile /\ o = OldestLog /\ left = replay.left
  OBVIOUS
<1>6. /\ Still({Table(n)}, {Table(n)}) /\ Fresh(n)' /\ n \in Nat /\ n # 0
  BY <1>1, <1>3, <1>5, StillTable, NewFresh DEF Fresh
<1>7. /\ SubSeq(left, k + 1, Len(left)) \in Seq(Update) /\ EntriesOf(SubSeq(left, 1, k)) \subseteq Update
      /\ EntriesOf(SubSeq(left, 1, k)) \cup EntriesOf(SubSeq(left, k + 1, Len(left))) = EntriesOf(left)
  BY <1>2, <1>3, <1>5, Split
<1>8. Replaying' = EntriesOf(left)
  <2>1. Replaying' = table'.entries \cup EntriesOf(replay'.left)
    BY DEF Replaying, EntriesOf
  <2>2. QED  BY <1>2, <1>5, <1>7, <2>1
<1>9. /\ \A l \in Nat : Log(l) \in Dir.names => LogEntries(l)' = LogEntries(l)
      /\ LogsFor(Dir, logNo)' = LogsFor(Dir, logNo)
      /\ TableEntries(edit.add)' = TableEntries(edit.add)
      /\ OldestLog' = o
  <2>1. PICK A, b : A = edit.add /\ b = logNo
    OBVIOUS
  <2>2. TableEntries(A)' = TableEntries(A) /\ LogsFor(Dir, b)' = LogsFor(Dir, b)
    BY <1>6, <2>1, StillFacts
  <2>3. edit'.add = A /\ logNo' = b
    BY <1>1, <2>1
  <2>4. TableEntries(edit.add)' = TableEntries(A)' /\ LogsFor(Dir, logNo)' = LogsFor(Dir, b)'
    BY <2>3 DEF TableEntries, LogsFor
  <2>5. OldestLog' = OldestLog
    BY <1>1 DEF OldestLog
  <2>6. QED  BY <1>5, <1>6, <2>1, <2>2, <2>4, <2>5, StillFacts
<1>10. LogEntries(OldestLog)' = LogEntries(o)
  <2>1. LogEntries(o)' = LogEntries(o)
    BY <1>4, <1>5, <1>9
  <2>2. QED  BY <1>9, <2>1 DEF LogEntries, EntriesOf, Recs, Log
<1>11. ReplayInv'
  <2>1. \A l \in LogsFor(Dir, logNo)' \ logs' :
           /\ l < nextFile' \/ l = logFileNo'
           /\ LogEntries(l)' \subseteq TableEntries(edit.add)'
           /\ \A e \in LogEntries(l)' : e.seq <= maxSeq'
    <3>1. SUFFICES ASSUME NEW l \in LogsFor(Dir, logNo) \ logs PROVE l < nextFile'
      BY <1>1, <1>3, <1>9
    <3>2. l \in Nat /\ (l < nextFile \/ l = 0)
      BY <1>3
    <3>3. QED  BY <1>1, <1>3, <3>2
  <2>2. logs' \subseteq LogsFor(Dir, logNo)' /\ logs' # {} /\ logFileNo' = 0
    BY <1>1, <1>3, <1>9
  <2>3. LogEntries(OldestLog)' \subseteq TableEntries(edit.add)' \cup Replaying'
    BY <1>3, <1>5, <1>8, <1>9, <1>10
  <2>4. Replaying' \subseteq LogEntries(OldestLog)'
    BY <1>3, <1>5, <1>8, <1>10
  <2>5. \A e \in LogEntries(OldestLog)' : e.seq <= maxSeq'
    BY <1>1, <1>3, <1>5, <1>10
  <2>6. QED  BY <1>1, <2>1, <2>2, <2>3, <2>4, <2>5 DEF ReplayInv
<1>12. /\ replay' \in [left : Seq(Update), cut : BOOLEAN] /\ table' \in [no : Nat, entries : SUBSET Update]
       /\ table'.no = n /\ pending' = {n} /\ logFileNo' = 0 /\ logs' \in SUBSET Nat
       /\ nextFile' \in Nat /\ nextFile' >= nextFile /\ maxSeq' \in Nat /\ maxSeq' <= writes
  BY <1>1, <1>2, <1>3, <1>5, <1>6, <1>7
<1>13. Fresh(table.no)' /\ table'.no # 0 /\ pending' = {table'.no}
  BY <1>6, <1>12 DEF Fresh
<1>14. QED
  BY <1>1, <1>6, <1>11, <1>12, <1>13, ReplayStep
LEMMA StepReplayDone ==
  ASSUME IInv, ReplayDone, ReuseLogs = FALSE
  PROVE  IInv'
<1>1. /\ pc = "replaying" /\ UNCHANGED diskVars /\ replay.left = <<>> /\ replay' = NoReplay
      /\ mem' = {} /\ logFileNo' = 0 /\ nextFile' = MarkFileNumberUsed(OldestLog)
      /\ logs' = logs \ {OldestLog} /\ pc' = IF logs' = {} THEN "replayed" ELSE "replay"
      /\ UNCHANGED <<job, up, version, manifestNo, logNo, lastSeq, descriptor, imm, bgError, pending>>
      /\ UNCHANGED <<maxSeq, save, table, edit, inputs, output, garbage, writing>>
      /\ UNCHANGED <<writes, acked, synced, losses, faulty, events>>
  BY DEF ReplayDone, workVars, history, bounds
<1>2. /\ Opening /\ logs # {} /\ table = NoTable /\ pending = {} /\ logFileNo = 0 /\ save /\ mem = {}
      /\ maxSeq \in Nat /\ maxSeq <= writes /\ nextFile \in Nat /\ nextFile >= 2
      /\ logs \in SUBSET Nat /\ logs \subseteq LogsFor(Dir, logNo)
      /\ \A l \in LogsFor(Dir, logNo) : l \in Nat /\ Log(l) \in Dir.names
      /\ \A l \in LogsFor(Dir, logNo) \ logs :
           /\ l < nextFile \/ l = logFileNo
           /\ LogEntries(l) \subseteq TableEntries(edit.add)
           /\ \A e \in LogEntries(l) : e.seq <= maxSeq
      /\ LogEntries(OldestLog) \subseteq TableEntries(edit.add) \cup EntriesOf(replay.left)
      /\ \A e \in LogEntries(OldestLog) : e.seq <= maxSeq
  BY <1>1, ReplayFacts
<1>3. OldestLog \in logs /\ OldestLog \in Nat
  BY <1>2, Oldest
<1>4. PICK n \in Nat : n = OldestLog
  BY <1>3
<1>5. Still({}, {}) /\ Dir' = Dir
  BY <1>1, StillSame
<1>6. /\ \A l : LogEntries(l)' = LogEntries(l)
      /\ LogsFor(Dir, logNo)' = LogsFor(Dir, logNo)
      /\ TableEntries(edit.add)' = TableEntries(edit.add)
  BY <1>1, <1>5 DEF LogEntries, EntriesOf, Recs, Log, LogsFor, TableEntries, Table, diskVars
<1>7. nextFile' \in Nat /\ nextFile' >= nextFile /\ n < nextFile'
  BY <1>1, <1>2, <1>4 DEF MarkFileNumberUsed
<1>8. pc' \in {"replay", "replayed"} /\ (pc' = "replay" => logs' # {}) /\ (pc' = "replayed" => logs' = {})
  BY <1>1
<1>9. ReplayInv'
  <2>1. \A l \in LogsFor(Dir, logNo)' \ logs' :
           /\ l < nextFile' \/ l = logFileNo'
           /\ LogEntries(l)' \subseteq TableEntries(edit.add)'
           /\ \A e \in LogEntries(l)' : e.seq <= maxSeq'
    <3>1. SUFFICES ASSUME NEW l \in LogsFor(Dir, logNo)' \ logs'
                   PROVE  /\ l < nextFile' \/ l = logFileNo'
                          /\ LogEntries(l)' \subseteq TableEntries(edit.add)'
                          /\ \A e \in LogEntries(l)' : e.seq <= maxSeq'
      OBVIOUS
    <3>2. l \in LogsFor(Dir, logNo) /\ l \in Nat
      BY <1>2, <1>6
    <3>3. CASE l = n
      <4>1. EntriesOf(replay.left) = {}
        BY <1>1, EntriesSimple
      <4>2. LogEntries(n) \subseteq TableEntries(edit.add) /\ \A e \in LogEntries(n) : e.seq <= maxSeq
        BY <1>2, <1>4, <4>1
      <4>3. QED  BY <1>1, <1>6, <1>7, <3>3, <4>2
    <3>4. CASE l # n
      <4>1. l \in LogsFor(Dir, logNo) \ logs
        BY <1>1, <1>4, <3>2, <3>4
      <4>2. l < nextFile \/ l = 0
        BY <1>2, <4>1
      <4>3. l < nextFile'
        BY <1>2, <1>7, <3>2, <4>2
      <4>4. QED  BY <1>1, <1>2, <1>6, <4>1, <4>3
    <3>5. QED  BY <3>3, <3>4
  <2>2. logs' \subseteq LogsFor(Dir, logNo)' /\ logFileNo' = 0 /\ replay'.left = <<>>
    BY <1>1, <1>2, <1>6 DEF NoReplay
  <2>3. QED  BY <1>8, <2>1, <2>2 DEF ReplayInv
<1>10. /\ replay' \in [left : Seq(Update), cut : BOOLEAN] /\ table' \in [no : Nat, entries : SUBSET Update]
       /\ table' = NoTable /\ pending' = {} /\ logs' \in SUBSET Nat
       /\ maxSeq' \in Nat /\ maxSeq' <= writes /\ pc' # "build" /\ mem' = mem
  <2>1. replay' \in [left : Seq(Update), cut : BOOLEAN]
    BY <1>1 DEF NoReplay
  <2>2. table' = NoTable /\ NoTable \in [no : Nat, entries : SUBSET Update]
    BY <1>1, <1>2 DEF NoTable
  <2>3. pc' # "build"
    BY <1>8
  <2>4. QED  BY <1>1, <1>2, <2>1, <2>2, <2>3
<1>11. save' = TRUE /\ job' \in {"none", "new", "open", "flush", "merge"}
  <2>1. ProcessTyped
    BY Typed
  <2>2. save = TRUE
    BY <1>2, <2>1, Zenon DEF ProcessTyped
  <2>3. QED  BY <1>1, <2>1, <2>2 DEF ProcessTyped
<1>12. QED
  BY <1>1, <1>5, <1>7, <1>8, <1>9, <1>10, <1>11, ReplayStep
(***************************************************************************)
(* A new log.                                                              *)
(***************************************************************************)
LEMMA NewLog ==
  ASSUME IInv, NEW n \in Nat, \A l \in Nat : Log(l) \in Reachable(dirs) => l < n, Dir.current # 0,
         NewWritableFile(Log(n), <<>>)
  PROVE  /\ Calm({Log(n)}, {Log(n)}) /\ Dir'.names = Dir.names \cup {Log(n)}
         /\ LogEntries(n)' = {}
         /\ \A l \in Nat : Log(l) \in Reachable(dirs)' => Log(l) \in Reachable(dirs) \/ l = n
         /\ \A l \in Nat : Log(l) \in Dir.names => l < n /\ LogEntries(l)' = LogEntries(l)
         /\ \A l \in Nat : Log(l) \in Dir'.names => Log(l) \in Dir.names \/ l = n
<1> DEFINE f == Log(n)
<1>1. f \in FileNames /\ <<>> \in Seq(RecordsOf(f[1])) /\ DiskTyped /\ Dir.names \subseteq Reachable(dirs)
  BY Names, Typed
<1>2. /\ DiskTyped' /\ Frame({f}, {f}) /\ Dir'.names = Dir.names \cup {f}
      /\ files'[f] = Contents(<<>>, 0)
  BY <1>1, NewFile
<1>3. Recs(Log(n))' = <<>>
  BY <1>2 DEF Recs, Contents, Log
<1>4. Log(n) \notin Reachable(dirs)
  BY DEF Reachable
<1>5. Harmless({f}, {f})
  <2>1. \A l \in Nat : Log(l) \in {f} => l = n
    BY Names
  <2>2. \A t : f # Table(t) /\ f # Manifest(t)
    BY Names
  <2> HIDE DEF f
  <2>3. \A l \in Nat : Log(l) \in {f} => Log(l) \notin Reachable(dirs) /\ Recs(Log(l))' = <<>>
    BY <1>3, <1>4, <2>1
  <2>4. QED  BY <2>2, <2>3 DEF Harmless
<1>6. Calm({f}, {f})
  BY <1>2, <1>5, Names DEF Calm
<1>7. LogEntries(n)' = {}
  BY <1>3, EntriesSimple DEF LogEntries, EntriesOf
<1>8. ASSUME NEW l \in Nat, Log(l) \in Dir.names PROVE l < n /\ LogEntries(l)' = LogEntries(l)
  <2>1. l < n
    BY <1>1, <1>8
  <2>2. Log(l) \notin {f} \cup {f}
    BY <2>1, Names
  <2>3. LogEntries(l)' = LogEntries(l)
    BY <1>2, <1>8, <2>2, KeptLogs
  <2>4. QED  BY <2>1, <2>3
<1>9. ASSUME NEW l \in Nat, Log(l) \in Reachable(dirs)' PROVE Log(l) \in Reachable(dirs) \/ l = n
  <2>1. CASE l # n
    <3>1. Log(l) \notin {f} \cup {f}
      BY <2>1, Names
    <3>2. QED  BY <1>2, <1>9, <3>1, KeptLogs
  <2>2. QED  BY <2>1
<1>10. \A l \in Nat : Log(l) \in Dir'.names => Log(l) \in Dir.names \/ l = n
  BY <1>2, Names
<1>11. QED  BY <1>2, <1>6, <1>7, <1>8, <1>9, <1>10

LEMMA StepOpenLog ==
  ASSUME IInv, OpenLog
  PROVE  IInv' /\ Full' = Full
<1>1. /\ pc = "replayed" /\ lastSeq' = Greatest({lastSeq, maxSeq}) /\ job' = "open"
      /\ UNCHANGED <<up, version, manifestNo, logNo, descriptor, mem, imm, bgError, pending>>
      /\ UNCHANGED <<logs, replay, maxSeq, save, table, inputs, output, writing>>
      /\ UNCHANGED <<writes, acked, synced, losses, faulty, events>>
  BY DEF OpenLog, RecoveredSequence, openVars, history, bounds
<1>2. /\ ~up /\ Opening /\ ~Saving /\ mem = {} /\ imm = {} /\ ~bgError /\ inputs = {} /\ output = 0
      /\ writing = NotWriting /\ garbage = {} /\ pending = {} /\ table = NoTable
      /\ Dir.current # 0 /\ save /\ ~descriptor /\ logFileNo = 0
      /\ lastSeq \in Nat /\ lastSeq <= writes /\ maxSeq \in Nat /\ maxSeq <= writes
      /\ writes \in Nat /\ nextFile \in Nat /\ nextFile >= 2 /\ edit.del = {} /\ logs = {} /\ replay.left = <<>>
      /\ \A l \in LogsFor(Dir, logNo) \ logs :
           /\ l < nextFile \/ l = logFileNo
           /\ LogEntries(l) \subseteq TableEntries(edit.add)
           /\ \A e \in LogEntries(l) : e.seq <= maxSeq
  BY <1>1, ReplayFacts
<1>3. /\ NewWritableFile(Log(nextFile), <<>>) /\ logFileNo' = nextFile /\ nextFile' = nextFile + 1
      /\ pc' = "apply" /\ UNCHANGED <<edit, garbage>>
  BY <1>2 DEF OpenLog
<1>4. PICK n \in Nat : n = nextFile
  BY <1>2
<1>5. /\ ProcessTyped /\ HistoryTyped /\ RecoveredInv /\ LogsGone
      /\ Dir.names \subseteq Reachable(dirs)
  BY Typed DEF IInv, ProcessInv, DiskInv
<1>6. /\ version = Final.tables /\ logNo = Final.log /\ Final.seq <= lastSeq /\ Final.next <= n
      /\ Final \in ViewType /\ Sound(Dir, Final) /\ Full = Says(Dir, Final) /\ Final \in Views(Dir.current)
      /\ Final.log < n
  <2>1. /\ version = Final.tables /\ logNo = Final.log /\ Final.seq <= lastSeq
    BY <1>2, <1>5 DEF RecoveredInv
  <2>2. /\ Final \in ViewType /\ Sound(Dir, Final) /\ Full = Says(Dir, Final) /\ Final \in Views(Dir.current)
    BY <1>2, FinalFacts
  <2>3. Final.next <= n
    BY <1>2, <1>4, FinalBelow
  <2>4. Final.log \in Nat /\ Final.next \in Nat /\ Final.log < Final.next
    BY <2>2 DEF ViewType, Sound
  <2>5. QED  BY <2>1, <2>2, <2>3, <2>4
<1>7. \A l \in Nat : Log(l) \in Reachable(dirs) => l < n
  <2>1. SUFFICES ASSUME NEW l \in Nat, Log(l) \in Reachable(dirs) PROVE l < n
    OBVIOUS
  <2>2. Final.log \in Nat
    BY <1>6 DEF ViewType
  <2>3. CASE Log(l) \notin Dir.names
    <3>1. l < Final.log
      BY <1>2, <1>5, <1>6, <2>1, <2>3 DEF LogsGone
    <3>2. QED  BY <1>6, <2>2, <3>1
  <2>4. CASE Log(l) \in Dir.names
    <3>1. CASE l >= Final.log
      <4>1. l \in LogsFor(Dir, logNo) \ logs
        BY <1>2, <1>6, <2>4, <3>1 DEF LogsFor
      <4>2. l < nextFile \/ l = 0
        BY <1>2, <4>1
      <4>3. QED  BY <1>2, <1>4, <4>2
    <3>2. CASE ~(l >= Final.log)
      BY <1>6, <2>2, <3>2
    <3>3. QED  BY <3>1, <3>2
  <2>5. QED  BY <2>3, <2>4
<1>8. /\ Calm({Log(n)}, {Log(n)}) /\ Dir'.names = Dir.names \cup {Log(n)}
      /\ LogEntries(n)' = {}
      /\ \A l \in Nat : Log(l) \in Reachable(dirs)' => Log(l) \in Reachable(dirs) \/ l = n
      /\ \A l \in Nat : Log(l) \in Dir.names => l < n /\ LogEntries(l)' = LogEntries(l)
      /\ \A l \in Nat : Log(l) \in Dir'.names => Log(l) \in Dir.names \/ l = n
  BY <1>2, <1>3, <1>4, <1>7, NewLog
<1>9. lastSeq' \in Nat /\ lastSeq <= lastSeq' /\ maxSeq <= lastSeq' /\ lastSeq' <= writes
  <2>1. CASE lastSeq <= maxSeq
    <3>1. \E m \in {lastSeq, maxSeq} : \A k \in {lastSeq, maxSeq} : k <= m
      BY <1>2, <2>1
    <3>2. lastSeq' \in {lastSeq, maxSeq} /\ \A k \in {lastSeq, maxSeq} : k <= lastSeq'
      BY <1>1, <3>1 DEF Greatest
    <3>3. QED  BY <1>2, <3>2
  <2>2. CASE maxSeq <= lastSeq
    <3>1. \E m \in {lastSeq, maxSeq} : \A k \in {lastSeq, maxSeq} : k <= m
      BY <1>2, <2>2
    <3>2. lastSeq' \in {lastSeq, maxSeq} /\ \A k \in {lastSeq, maxSeq} : k <= lastSeq'
      BY <1>1, <3>1 DEF Greatest
    <3>3. QED  BY <1>2, <3>2
  <2>3. QED  BY <1>2, <2>1, <2>2
<1>10. /\ Full' = Full /\ Dir'.current = Dir.current
       /\ TableEntries(edit.add)' = TableEntries(edit.add)
  <2>1. PICK A : A = edit.add
    OBVIOUS
  <2>2. TableEntries(A)' = TableEntries(A) /\ Full' = Full /\ Dir'.current = Dir.current
    BY <1>8, <2>1, CalmFacts
  <2>3. edit'.add = A
    BY <1>3, <2>1
  <2>4. TableEntries(edit.add)' = TableEntries(A)'
    BY <2>3 DEF TableEntries
  <2>5. QED  BY <2>1, <2>2, <2>4
<1>11. nextFile' \in Nat /\ nextFile' >= nextFile /\ nextFile' = n + 1 /\ logFileNo' = n
  BY <1>3, <1>4
<1>12. Opening' /\ ~Saving' /\ ~Creating' /\ ~Applying'
  BY <1>1, <1>2, <1>3 DEF Opening, Saving, Creating, Applying
<1>13. ProcessTyped'
  <2>1. pc' \in Places /\ nextFile' >= 2
    BY <1>2, <1>3 DEF Places
  <2>2. QED  BY <1>1, <1>3, <1>5, <1>9, <1>11, <2>1 DEF ProcessTyped
<1>14. HistoryTyped'
  BY <1>1, <1>5 DEF HistoryTyped
<1>15. PhaseInv' /\ FreshInv' /\ CreateInv'
  BY <1>1, <1>2, <1>3, <1>12 DEF PhaseInv, FreshInv, CreateInv
<1>16. RecoveredInv'
  <2>1. save' /\ edit'.del = {} /\ edit'.add = edit.add /\ (descriptor' <=> Saving') /\ maxSeq' <= writes
    BY <1>1, <1>2, <1>3, <1>12
  <2>2. QED  BY <1>1, <1>2, <1>8, <1>9, <1>11, <2>1, KeepRecovered
<1>17. ReplayInv'
  <2>1. \A l \in LogsFor(Dir, logNo)' \ logs' :
           /\ l < nextFile' \/ l = logFileNo'
           /\ LogEntries(l)' \subseteq TableEntries(edit.add)'
           /\ \A e \in LogEntries(l)' : e.seq <= maxSeq'
    <3>1. SUFFICES ASSUME NEW l \in LogsFor(Dir, logNo)'
                   PROVE  /\ l < nextFile' \/ l = logFileNo'
                          /\ LogEntries(l)' \subseteq TableEntries(edit.add)'
                          /\ \A e \in LogEntries(l)' : e.seq <= maxSeq'
      OBVIOUS
    <3>2. l \in Nat /\ l >= logNo /\ Log(l) \in Dir'.names
      BY <1>1, <3>1 DEF LogsFor, Log
    <3>3. CASE l = n
      BY <1>8, <1>11, <3>3
    <3>4. CASE l # n
      <4>1. Log(l) \in Dir.names /\ l < n /\ LogEntries(l)' = LogEntries(l)
        BY <1>8, <3>2, <3>4
      <4>2. l \in LogsFor(Dir, logNo) \ logs
        BY <1>2, <3>2, <4>1 DEF LogsFor
      <4>3. l < nextFile'
        BY <1>11, <3>2, <4>1
      <4>4. LogEntries(l) \subseteq TableEntries(edit.add) /\ \A e \in LogEntries(l) : e.seq <= maxSeq
        BY <1>2, <4>2
      <4>5. QED  BY <1>1, <1>10, <4>1, <4>3, <4>4
    <3>5. QED  BY <3>3, <3>4
  <2>2. logs' \subseteq LogsFor(Dir, logNo)' /\ replay'.left = <<>> /\ pc' = "apply"
    BY <1>1, <1>2, <1>3
  <2>3. QED  BY <2>1, <2>2 DEF ReplayInv
<1>18. \A e \in Full : e.seq <= lastSeq'
  <2>1. SUFFICES ASSUME NEW e \in Full PROVE e.seq <= lastSeq'
    OBVIOUS
  <2>2. e.seq \in Nat
    BY FullTyped DEF Update
  <2>3. CASE e \in TableEntries(Final.tables)
    <3>1. e.seq <= Final.seq /\ Final.seq \in Nat
      BY <1>6, <2>3 DEF Sound, ViewType
    <3>2. QED  BY <1>2, <1>6, <1>9, <2>2, <3>1
  <2>4. CASE e \in Logged(Dir, Final.log)
    <3>1. PICK l \in LogsFor(Dir, logNo) : e \in LogEntries(l)
      BY <1>6, <2>4 DEF Logged
    <3>2. e.seq <= maxSeq
      BY <1>2, <3>1
    <3>3. QED  BY <1>2, <1>9, <2>2, <3>2
  <2>5. QED  BY <1>6, <2>3, <2>4 DEF Says
<1>19. SaveInv'
  <2>1. logs' = {} /\ logFileNo' < nextFile' /\ Log(logFileNo') \in Dir'.names
    BY <1>1, <1>2, <1>8, <1>11
  <2>2. LogEntries(logFileNo)' = {}
    BY <1>8, <1>11 DEF LogEntries, EntriesOf, Recs, Log
  <2>3. \A l \in Nat : Log(l) \in Reachable(dirs)' => l <= logFileNo'
    BY <1>7, <1>8, <1>11
  <2>4. \A e \in Full' : e.seq <= lastSeq'
    BY <1>10, <1>18
  <2>5. logNo' <= logFileNo'
    BY <1>1, <1>6, <1>11 DEF ViewType
  <2>6. QED  BY <1>12, <2>1, <2>2, <2>3, <2>4, <2>5 DEF SaveInv, Log
<1>20. DiskInv'
  BY <1>1, <1>2, <1>8, KeepDisk
<1>21. ~up' /\ writing' = NotWriting /\ pc' \notin {"install", "delete"}
  BY <1>1, <1>2, <1>3
<1>22. IInv'
  BY <1>13, <1>14, <1>15, <1>16, <1>17, <1>19, <1>20, <1>21, <1>12, OpenInv
<1>23. Full' = Full
  BY <1>10
<1>24. QED  BY <1>22, <1>23

(***************************************************************************)
(* CURRENT is set: the new MANIFEST is the one that counts.                *)
(***************************************************************************)
LEMMA StepRenameCreated ==
  ASSUME IInv, RenameTemp, Creating
  PROVE  IInv' /\ Full' = Full
<1>1. /\ pc = "rename" /\ SetCurrent(Temp(manifestNo), manifestNo)
      /\ UNCHANGED <<job, up, version, nextFile, manifestNo, logNo, lastSeq, descriptor, mem, imm, logFileNo>>
      /\ UNCHANGED <<bgError, pending, logs, replay, maxSeq, save, table, inputs, output, garbage>>
      /\ UNCHANGED <<writing, writes, acked, synced, losses, faulty, events>>
  BY DEF RenameTemp, versionVars, memVars, openVars, history, bounds
<1>2. /\ ~up /\ job = "new" /\ Dir.current = 0 /\ manifestNo = 1 /\ \A d \in Dirs : d.current = 0
      /\ Manifest(1) \in Dir.names /\ Recs(Manifest(1)) = <<FirstEdit>>
      /\ files[Manifest(1)].durable = 1
  BY <1>1, CreateFacts
<1>3. pc' = "recover" /\ edit' = NoEdit
  BY <1>2 DEF RenameTemp
<1>4. /\ DiskInv /\ DiskTyped /\ ProcessTyped /\ HistoryTyped /\ PhaseInv /\ Dir \in Dirs
      /\ \A d \in Dirs : DirInv(d)
  BY Typed DEF IInv, ProcessInv
<1>5. synced = {} /\ \A d \in Dirs : \A l \in Nat : Log(l) \notin d.names
  BY <1>2, <1>4 DEF DirInv
<1>6. \A l \in Nat : Log(l) \notin Reachable(dirs)
  BY <1>4, <1>5, DirFacts
<1>7. PICK v : v = View(Recs(Manifest(1)))
  OBVIOUS
<1>8. v = [tables |-> {}, log |-> 0, next |-> 2, seq |-> 0]
  BY <1>2, <1>7, ViewFirst
<1>9. HasCounters(1) /\ files[Manifest(1)].durable = Len(Recs(Manifest(1)))
  BY <1>2 DEF HasCounters, FirstEdit, NoEdit
<1>10. Full = {} /\ Says(Dir, v) = {}
  <2>1. TableEntries(v.tables) = {}
    BY <1>8, TableEntriesUnion
  <2>2. Logged(Dir, v.log) = {}
    BY <1>4, <1>5 DEF Logged, LogsFor
  <2>3. QED  BY <1>2, <2>1, <2>2 DEF Full, Says
<1>11. /\ \A t \in v.tables : Table(t) \in Dir.names /\ Whole(t) /\ t < v.next
       /\ v.log < v.next /\ 1 < v.next /\ v.seq <= writes
       /\ \A x \in TableEntries(v.tables) : x.seq <= v.seq
  <2>1. TableEntries(v.tables) = {}
    BY <1>8, TableEntriesUnion
  <2>2. QED  BY <1>4, <1>8, <2>1 DEF HistoryTyped
<1>12. /\ DiskInv' /\ Dir'.current = 1 /\ Full' = Full
  <2>1. \A d \in Dirs : d.current # 1
    BY <1>2
  <2>2. synced \subseteq OpsOf(IsSure(Dir, v)) /\ synced' = synced /\ writes' = writes
    BY <1>1, <1>5
  <2>3. SetCurrent(Temp(1), 1)
    BY <1>1, <1>2
  <2>4. \A l \in Nat : Log(l) \in Reachable(dirs) /\ Log(l) \notin Dir.names => l < v.log
    BY <1>6
  <2>5. Dir.current # 0 => Final.next <= v.next
    BY <1>2
  <2>6. Says(Dir, v) = Full
    BY <1>10
  <2>7. QED
    BY <1>2, <1>4, <1>7, <1>9, <1>11, <2>1, <2>2, <2>3, <2>4, <2>5, <2>6, CurrentSet
<1>13. /\ mem = {} /\ imm = {} /\ ~bgError /\ inputs = {} /\ output = 0 /\ writing = NotWriting
       /\ version = {} /\ ~descriptor /\ logFileNo = 0
       /\ logs = {} /\ replay = NoReplay /\ maxSeq = 0 /\ logNo = 0 /\ lastSeq = 0 /\ ~save /\ nextFile = 2
       /\ table = NoTable /\ garbage = {} /\ pending = {}
  BY <1>1, <1>2, <1>4 DEF PhaseInv, Creating
<1>14. ~Opening' /\ ~Saving' /\ ~Creating' /\ ~Applying' /\ ~up'
  BY <1>1, <1>2, <1>3 DEF Opening, Saving, Creating, Applying
<1>15. ProcessTyped'
  <2>1. NoEdit \in VersionEdit
    BY DEF NoEdit, VersionEdit
  <2>2. QED  BY <1>1, <1>3, <1>4, <2>1 DEF ProcessTyped, Places
<1>16. HistoryTyped'
  BY <1>1, <1>4 DEF HistoryTyped
<1>17. PhaseInv'
  <2>1. manifestNo' <= 1
    BY <1>1, <1>2
  <2>2. QED  BY <1>1, <1>3, <1>12, <1>13, <1>14, <2>1 DEF PhaseInv, NoEdit
<1>18. FreshInv' /\ RecoveredInv' /\ ReplayInv' /\ SaveInv' /\ CreateInv'
  BY <1>1, <1>3, <1>13, <1>14 DEF FreshInv, RecoveredInv, ReplayInv, SaveInv, CreateInv
<1>19. writing' = NotWriting /\ pc' \notin {"install", "delete"}
  BY <1>1, <1>3, <1>13
<1>20. IInv'
  BY <1>12, <1>14, <1>15, <1>16, <1>17, <1>18, <1>19, OpenInv
<1>21. Full' = Full
  BY <1>12
<1>22. QED  BY <1>20, <1>21

\* What the MANIFEST of an open says.
LEMMA SavedView ==
  ASSUME IInv, ~up, job = "open", pc = "rename",
         NEW v, v = View(Recs(Manifest(manifestNo)))
  PROVE  /\ v = [tables |-> version \cup edit.add, log |-> logFileNo, next |-> edit.next, seq |-> edit.seq]
         /\ v \in ViewType /\ HasCounters(manifestNo) /\ manifestNo # 0
         /\ files[Manifest(manifestNo)].durable = Len(Recs(Manifest(manifestNo)))
         /\ \A t \in v.tables : Table(t) \in Dir.names /\ Whole(t) /\ t < v.next
         /\ v.log < v.next /\ manifestNo < v.next /\ v.seq <= lastSeq /\ v.next <= nextFile
         /\ Final.next <= v.next /\ \A x \in TableEntries(v.tables) : x.seq <= v.seq
         /\ Says(Dir, v) = Full /\ Full = TableEntries(v.tables)
         /\ synced \subseteq OpsOf(IsSure(Dir, v))
         /\ \A l \in Nat : Log(l) \in Reachable(dirs) /\ Log(l) \notin Dir.names => l < v.log /\ l < logNo
<1>1. /\ Opening /\ Dir.current # 0 /\ version = Final.tables /\ logNo = Final.log
      /\ Final \in ViewType /\ Full = Says(Dir, Final)
      /\ Final.next <= manifestNo /\ manifestNo < nextFile /\ manifestNo \in Nat
      /\ nextFile \in Nat /\ lastSeq \in Nat
      /\ edit.del = {} /\ edit \in VersionEdit
      /\ TableEntries(edit.add) \subseteq Full /\ TableEntries(version) \subseteq Full
      /\ logFileNo \in Nat /\ logNo <= logFileNo /\ Log(logFileNo) \in Dir.names
      /\ LogEntries(logFileNo) = {}
      /\ \A l \in LogsFor(Dir, logNo) : LogEntries(l) \subseteq TableEntries(edit.add)
      /\ \A l \in Nat : Log(l) \in Reachable(dirs) => l <= logFileNo
      /\ edit.log = logFileNo /\ EditCounters
      /\ Recs(Manifest(manifestNo)) = <<Snapshot, edit>>
      /\ files[Manifest(manifestNo)].durable = 2
  BY SaveFacts
<1>2. /\ DiskTyped /\ FilesTyped /\ ProcessTyped /\ Dir \in Dirs /\ DirInv(Dir) /\ LogsGone
      /\ Dir.names \subseteq Reachable(dirs) /\ Dir.names \subseteq DOMAIN files
  BY Typed DEF IInv, DiskInv
<1>3. /\ manifestNo < edit.next /\ edit.next <= nextFile /\ edit.log < edit.next
      /\ Final.next <= edit.next /\ edit.seq <= lastSeq /\ \A t \in edit.add : t < edit.next
      /\ \A e \in TableEntries(Final.tables) \cup TableEntries(edit.add) : e.seq <= edit.seq
      /\ edit.next \in Nat /\ edit.log \in Nat /\ edit.seq \in Nat /\ edit.add \in SUBSET Nat
  BY <1>1 DEF EditCounters, VersionEdit
<1>4. edit.next # 0 /\ version \in SUBSET Nat
  BY <1>1, <1>2, <1>3 DEF ProcessTyped
<1>5. v = [tables |-> version \cup edit.add, log |-> logFileNo, next |-> edit.next, seq |-> edit.seq]
  <2>1. PICK e \in VersionEdit : e = edit
    BY <1>1
  <2>2. View(<<Snapshot, e>>) = [tables |-> version \cup e.add, log |-> e.log, next |-> e.next, seq |-> e.seq]
    BY <1>1, <1>4, <2>1, ViewOfSnapshot
  <2>3. QED  BY <1>1, <2>1, <2>2
<1>6. v \in ViewType
  BY <1>1, <1>3, <1>4, <1>5 DEF ViewType
<1>7. HasCounters(manifestNo) /\ files[Manifest(manifestNo)].durable = Len(Recs(Manifest(manifestNo)))
  BY <1>1, <1>4 DEF HasCounters
<1>8. Sound(Dir, Final)
  BY <1>1, FinalFacts
<1>9. ASSUME NEW t \in v.tables PROVE Table(t) \in Dir.names /\ Whole(t) /\ t < v.next
  <2>1. t \in version \cup edit.add /\ t \in Nat
    <3>1. v.tables = version \cup edit.add
      BY <1>5
    <3>2. version \cup edit.add \subseteq Nat
      BY <1>3, <1>4
    <3>3. QED  BY <3>1, <3>2
  <2>2. Table(t) \in Dir.names /\ Whole(t)
    BY <2>1, Present
  <2>3. t \in version => t < Final.next /\ Final.next \in Nat
    BY <1>1, <1>8 DEF Sound, ViewType
  <2>4. QED  BY <1>3, <1>5, <2>1, <2>2, <2>3
<1>10. TableEntries(v.tables) = TableEntries(version) \cup TableEntries(edit.add)
  BY <1>5, TableEntriesUnion
<1>11. Full = TableEntries(v.tables)
  <2>1. Logged(Dir, Final.log) \subseteq TableEntries(edit.add)
    BY <1>1 DEF Logged
  <2>2. QED  BY <1>1, <1>10, <2>1 DEF Says
<1>12. Logged(Dir, v.log) = {}
  <2>1. \A l \in LogsFor(Dir, v.log) : l = logFileNo
    BY <1>1, <1>2, <1>5 DEF LogsFor
  <2>2. QED  BY <1>1, <2>1 DEF Logged
<1>13. Says(Dir, v) = Full
  BY <1>11, <1>12 DEF Says
<1>14. synced \subseteq OpsOf(IsSure(Dir, v))
  <2>1. synced \subseteq OpsOf(IsSure(Dir, Final))
    BY <1>8 DEF Sound
  <2>2. LoggedSafely(Dir, Final.log) \subseteq Logged(Dir, Final.log)
    BY <1>2, SafeLogged DEF LoggedSafely, Logged, LogsFor
  <2>3. IsSure(Dir, Final) \subseteq Full
    BY <1>1, <2>2 DEF IsSure, Says
  <2>4. Full \subseteq IsSure(Dir, v)
    BY <1>11 DEF IsSure
  <2>5. QED  BY <2>1, <2>3, <2>4 DEF OpsOf
<1>15. ASSUME NEW l \in Nat, Log(l) \in Reachable(dirs), Log(l) \notin Dir.names PROVE l < v.log /\ l < logNo
  <2>1. l <= logFileNo /\ l # logFileNo
    BY <1>1, <1>15
  <2>2. l < Final.log
    BY <1>1, <1>2, <1>15, FinalFacts DEF LogsGone
  <2>3. QED  BY <1>1, <1>5, <2>1, <2>2
<1>16. v.log < v.next /\ manifestNo < v.next /\ v.seq <= lastSeq /\ v.next <= nextFile /\ Final.next <= v.next
  BY <1>1, <1>3, <1>5
<1>17. \A x \in TableEntries(v.tables) : x.seq <= v.seq
  BY <1>1, <1>3, <1>5, <1>10
<1>18. manifestNo # 0
  <2>1. Dir.current < Final.next /\ Dir.current \in Nat /\ Final.next \in Nat
    BY <1>1, <1>2, <1>8, Typed DEF Sound, ViewType, Directory
  <2>2. QED  BY <1>1, <2>1
<1>19. QED
  BY <1>5, <1>6, <1>7, <1>9, <1>11, <1>13, <1>14, <1>15, <1>16, <1>17, <1>18
LEMMA StepRenameSaved ==
  ASSUME IInv, RenameTemp, ~up, job = "open"
  PROVE  IInv' /\ Full' = Full
<1>1. /\ pc = "rename" /\ pc' = "install" /\ SetCurrent(Temp(manifestNo), manifestNo)
      /\ UNCHANGED <<job, up, version, nextFile, manifestNo, logNo, lastSeq, descriptor, mem, imm, logFileNo>>
      /\ UNCHANGED <<bgError, pending, logs, replay, maxSeq, save, table, edit, inputs, output, garbage>>
      /\ UNCHANGED <<writing, writes, acked, synced, losses, faulty, events>>
  BY DEF RenameTemp, versionVars, memVars, openVars, history, bounds
<1>2. /\ Opening /\ Dir.current # 0 /\ version = Final.tables /\ logNo = Final.log
      /\ manifestNo \in Nat /\ nextFile \in Nat /\ lastSeq \in Nat /\ lastSeq <= writes
      /\ \A d \in Dirs : d.current # manifestNo
      /\ edit.del = {} /\ edit \in VersionEdit /\ descriptor
      /\ TableEntries(edit.add) \subseteq Full
      /\ logFileNo \in Nat /\ logNo <= logFileNo /\ logFileNo < nextFile /\ Log(logFileNo) \in Dir.names
      /\ LogEntries(logFileNo) = {}
      /\ \A l \in LogsFor(Dir, logNo) : LogEntries(l) \subseteq TableEntries(edit.add)
      /\ \A l \in Nat : Log(l) \in Reachable(dirs) => l <= logFileNo
      /\ \A e \in Full : e.seq <= lastSeq
      /\ edit.log = logFileNo /\ Manifest(manifestNo) \in Dir.names
  BY <1>1, SaveFacts
<1>3. /\ DiskInv /\ ProcessTyped /\ HistoryTyped /\ PhaseInv /\ RecoveredInv
  BY Typed DEF IInv, ProcessInv
<1>4. PICK m, v : m = manifestNo /\ v = View(Recs(Manifest(m)))
  OBVIOUS
<1>5. /\ v = [tables |-> version \cup edit.add, log |-> logFileNo, next |-> edit.next, seq |-> edit.seq]
      /\ v \in ViewType /\ HasCounters(m) /\ m # 0
      /\ files[Manifest(m)].durable = Len(Recs(Manifest(m)))
      /\ \A t \in v.tables : Table(t) \in Dir.names /\ Whole(t) /\ t < v.next
      /\ v.log < v.next /\ m < v.next /\ v.seq <= lastSeq /\ v.next <= nextFile
      /\ Final.next <= v.next /\ \A x \in TableEntries(v.tables) : x.seq <= v.seq
      /\ Says(Dir, v) = Full /\ Full = TableEntries(v.tables)
      /\ synced \subseteq OpsOf(IsSure(Dir, v))
      /\ \A l \in Nat : Log(l) \in Reachable(dirs) /\ Log(l) \notin Dir.names => l < v.log /\ l < logNo
  BY <1>1, <1>2, <1>4, SavedView
<1>6. /\ DiskInv' /\ Full' = Full /\ Final' = v /\ UNCHANGED files
      /\ Dir'.current = m /\ Dir'.names = Dir.names \ {Temp(m)}
      /\ Views(m)' = {v}
      /\ \A l \in Nat : Log(l) \in Reachable(dirs)' => Log(l) \in Reachable(dirs)
  <2>1. m \in Nat \ {0} /\ m \in Nat /\ SetCurrent(Temp(m), m) /\ Manifest(m) \in Dir.names
        /\ \A d \in Dirs : d.current # m
    BY <1>1, <1>2, <1>4, <1>5
  <2>2. v.seq <= writes
    <3>1. v.seq \in Nat /\ writes \in Nat
      BY <1>3, <1>5 DEF ViewType, HistoryTyped
    <3>2. QED  BY <1>2, <1>5, <3>1
  <2>3. synced' = synced /\ writes' = writes
    BY <1>1
  <2>4. QED  BY <1>3, <1>4, <1>5, <2>1, <2>2, <2>3, CurrentSet
<1>7. /\ \A l : LogEntries(l)' = LogEntries(l)
      /\ \A T : TableEntries(T)' = TableEntries(T)
      /\ \A t : Whole(t)' = Whole(t)
  BY <1>6, SameFiles
<1>8. /\ TableEntries(version)' = TableEntries(version) /\ TableEntries(edit.add)' = TableEntries(edit.add)
      /\ TableEntries(Final.tables)' = TableEntries(v.tables) /\ LogEntries(logFileNo)' = {}
  <2>1. PICK V, A, T, l : V = version /\ A = edit.add /\ T = v.tables /\ l = logFileNo
    OBVIOUS
  <2>2. /\ TableEntries(V)' = TableEntries(V) /\ TableEntries(A)' = TableEntries(A)
        /\ TableEntries(T)' = TableEntries(T) /\ LogEntries(l)' = LogEntries(l)
    BY <1>7
  <2>3. version' = V /\ edit'.add = A /\ Final'.tables = T /\ logFileNo' = l
    BY <1>1, <1>6, <2>1
  <2>4. /\ TableEntries(version)' = TableEntries(V)' /\ TableEntries(edit.add)' = TableEntries(A)'
        /\ TableEntries(Final.tables)' = TableEntries(T)'
    BY <2>3 DEF TableEntries
  <2>5. LogEntries(logFileNo)' = LogEntries(l)'
    BY <2>3 DEF LogEntries, Recs, Log, EntriesOf
  <2>6. QED  BY <1>2, <2>1, <2>2, <2>4, <2>5
<1>9. /\ mem = {} /\ imm = {} /\ ~bgError /\ inputs = {} /\ output = 0 /\ writing = NotWriting
      /\ table = NoTable /\ garbage = {} /\ pending = {}
  BY <1>1, <1>2, <1>3 DEF PhaseInv
<1>10. ~up' /\ ~Applying' /\ ~Opening' /\ ~Saving' /\ ~Creating' /\ Serving'
  BY <1>1, <1>2 DEF Opening, Saving, Creating, Applying, Serving
<1>11. ProcessTyped'
  BY <1>1, <1>3 DEF ProcessTyped, Places
<1>12. HistoryTyped'
  BY <1>1, <1>3 DEF HistoryTyped
<1>13. PhaseInv' /\ FreshInv'
  BY <1>1, <1>2, <1>9, <1>10 DEF PhaseInv, FreshInv
<1>14. TableEntries(v.tables) = TableEntries(version) \cup TableEntries(edit.add)
  BY <1>5, TableEntriesUnion
<1>15. Brought' = TableEntries(edit.add) /\ Recorded'
  BY <1>1, <1>2, <1>8, <1>10 DEF Brought, Recorded
<1>16. ManifestInv'
  <2>1. Target' = version \cup edit.add /\ TargetLog' = logFileNo
    BY <1>1, <1>2, <1>15 DEF Target, TargetLog
  <2>2. /\ Dir'.current # 0 /\ Dir'.current = manifestNo' /\ descriptor'
    BY <1>1, <1>2, <1>4, <1>5, <1>6
  <2>3. Views(manifestNo)' = {v}
    <3>1. Views(manifestNo)' = Views(m)'
      BY <1>1, <1>4
    <3>2. QED  BY <1>6, <3>1
  <2>4. \A x \in Views(manifestNo)' : /\ logNo' <= x.log /\ x.log <= logFileNo'
                                      /\ x.next <= nextFile' /\ x.seq <= lastSeq'
    BY <1>1, <1>2, <1>5, <2>3
  <2>5. Final'.tables = Target' /\ Final'.log = TargetLog'
    BY <1>5, <1>6, <2>1
  <2>6. /\ TableEntries(version)' \subseteq TableEntries(Final.tables)'
        /\ TableEntries(Final.tables)' \subseteq TableEntries(version)' \cup imm' \cup Brought'
        /\ TableEntries(edit.add)' \subseteq TableEntries(Final.tables)'
    BY <1>8, <1>14, <1>15
  <2>7. Final'.log = edit'.log /\ lastSeq' <= writes'
    BY <1>1, <1>2, <1>5, <1>6
  <2>8. Views(manifestNo)' = {Final'}
    BY <1>6, <2>3
  <2>9. QED  BY <2>2, <2>4, <2>5, <2>6, <2>7, <2>8 DEF ManifestInv
<1>17. LogInv'
  <2>1. logFileNo' < nextFile' /\ Log(logFileNo') \in Dir'.names
    BY <1>1, <1>2, <1>6, Names
  <2>2. \A l \in Nat : Log(l) \in Reachable(dirs)' =>
          l <= logFileNo' /\ (Log(l) \notin Dir'.names => l < logNo')
    BY <1>1, <1>2, <1>5, <1>6, Names
  <2>3. imm' \subseteq Full' /\ mem' \subseteq LogEntries(logFileNo)'
    BY <1>1, <1>9
  <2>4. \A l \in LogsFor(Dir, logNo)' : LogEntries(l)' \subseteq Brought'
    <3>1. \A l \in LogsFor(Dir, logNo)' : l \in LogsFor(Dir, logNo)
      BY <1>1, <1>6 DEF LogsFor, Log
    <3>2. QED  BY <1>2, <1>7, <1>15, <3>1
  <2>5. \A e \in mem' \cup imm' \cup TableEntries(Final.tables)' : e.seq <= lastSeq'
    BY <1>1, <1>2, <1>5, <1>8, <1>9
  <2>6. QED  BY <1>8, <2>1, <2>2, <2>3, <2>4, <2>5 DEF LogInv, Log
<1>18. VersionInv'
  <2>1. \A t \in version' : t < nextFile' /\ Table(t) \in Dir'.names /\ Whole(t)'
    BY <1>1, <1>6, <1>7, Present, Names
  <2>2. inputs' = {} /\ garbage' = {}
    BY <1>1, <1>9
  <2>3. QED  BY <2>1, <2>2 DEF VersionInv, Table
<1>19. ApplyInv'
  <2>1. \A t \in edit.add : t \notin version
    BY <1>2, <1>3 DEF RecoveredInv
  <2>2. \A t \in edit.add : t < nextFile' /\ Table(t) \in Dir'.names /\ Whole(t)'
    BY <1>1, <1>6, <1>7, Present, Names
  <2>3. QED  BY <1>1, <1>2, <1>10, <2>1, <2>2 DEF ApplyInv, Table
<1>20. WriteInv' /\ NumbersInv'
  BY <1>1, <1>9, <1>10 DEF WriteInv, NumbersInv, NotWriting
<1>21. IInv'
  BY <1>1, <1>6, <1>11, <1>12, <1>13, <1>16, <1>17, <1>18, <1>19, <1>20, UpInv
<1>22. Full' = Full
  BY <1>6
<1>23. QED  BY <1>21, <1>22

LEMMA StepRenameTemp ==
  ASSUME IInv, RenameTemp
  PROVE  IInv' /\ Full' = Full
<1>1. pc = "rename"
  BY DEF RenameTemp
<1>2. Creating \/ (~up /\ job = "open")
  BY <1>1 DEF IInv, ProcessInv, PhaseInv, Applying, Creating, Opening, Saving
<1>3. QED  BY <1>2, StepRenameCreated, StepRenameSaved
(***************************************************************************)
(* The new version is installed, and what is obsolete then is removed.     *)
(***************************************************************************)
LEMMA InstallFacts ==
  ASSUME IInv, pc = "install"
  PROVE  /\ Serving /\ Dir.current # 0 /\ Dir.current = manifestNo /\ descriptor
         /\ job \in {"open", "flush", "merge"} /\ (up <=> job # "open")
         /\ Views(manifestNo) = {Final} /\ Final \in ViewType /\ Final.log = edit.log /\ logNo <= edit.log
         /\ ~bgError => Final.tables = (version \ edit.del) \cup edit.add
         /\ TableEntries(version) \cup TableEntries(edit.add) \subseteq TableEntries(Final.tables)
         /\ edit \in VersionEdit /\ edit.add \in SUBSET Nat /\ edit.log \in Nat /\ logNo \in Nat
         /\ table = NoTable /\ pending = (IF output # 0 THEN {output} ELSE {})
         /\ inputs \subseteq version /\ (output # 0 => inputs # {})
         /\ job = "open" => edit.del = {} /\ imm = {} /\ inputs = {} /\ output = 0 /\ ~bgError
         /\ job = "flush" => TableEntries(edit.add) = imm /\ edit.del = {}
         /\ job = "merge" => edit.add = {output} /\ output # 0 /\ edit.del = inputs
                             /\ TableEntries(edit.add) = TableEntries(inputs)
         /\ TableEntries(Final.tables) \subseteq TableEntries(version) \cup TableEntries(edit.add) \cup imm
         /\ \A l \in LogsFor(Dir, logNo) \ {logFileNo} :
              LogEntries(l) \subseteq TableEntries(version) \cup TableEntries(edit.add) \cup imm
<1>1. ProcessTyped /\ PhaseInv /\ ManifestInv /\ LogInv /\ VersionInv /\ ApplyInv
  BY Typed DEF IInv, ProcessInv
<1>2. Serving /\ Recorded
  BY DEF Serving, Recorded
<1>3. /\ Dir.current # 0 /\ Dir.current = manifestNo /\ descriptor /\ Final \in ViewType
      /\ Final \in Views(manifestNo) /\ logNo <= Final.log
  BY <1>2, ServingFacts
<1>4. /\ Views(manifestNo) = {Final} /\ Final.log = edit.log
      /\ ~bgError => Final.tables = (version \ edit.del) \cup edit.add
      /\ TableEntries(version) \cup TableEntries(edit.add) \subseteq TableEntries(Final.tables)
      /\ TableEntries(Final.tables) \subseteq TableEntries(version) \cup imm \cup Brought
  BY <1>1, <1>2 DEF ManifestInv, Target
<1>5. Brought \subseteq TableEntries(edit.add)
  BY DEF Brought
<1>6. \A l \in LogsFor(Dir, logNo) \ {logFileNo} :
        LogEntries(l) \subseteq TableEntries(version) \cup TableEntries(edit.add) \cup imm
  BY <1>1, <1>2, <1>5 DEF LogInv
<1>7. /\ edit \in VersionEdit /\ edit.add \in SUBSET Nat /\ edit.log \in Nat /\ logNo \in Nat
  BY <1>1 DEF ProcessTyped, VersionEdit
<1>8. /\ table = NoTable /\ pending = (IF output # 0 THEN {output} ELSE {}) /\ (output # 0 => inputs # {})
  BY <1>1 DEF PhaseInv
<1>9. inputs \subseteq version
  BY <1>1, <1>2 DEF VersionInv
<1>10. CASE up
  <2>1. Applying
    BY <1>10 DEF Applying
  <2>2. job \in {"flush", "merge"}
    BY <1>1, <2>1 DEF PhaseInv
  <2>3. /\ job = "flush" => TableEntries(edit.add) = imm /\ edit.del = {}
        /\ job = "merge" => edit.add = {output} /\ output # 0 /\ edit.del = inputs
                            /\ TableEntries(edit.add) = TableEntries(inputs)
    BY <2>1, ApplyFacts
  <2>4. QED
    BY <1>2, <1>3, <1>4, <1>5, <1>6, <1>7, <1>8, <1>9, <1>10, <2>2, <2>3
<1>11. CASE ~up
  <2>1. job = "open" /\ imm = {} /\ inputs = {} /\ output = 0 /\ ~bgError
    BY <1>1, <1>11 DEF PhaseInv, Creating, Opening, Saving
  <2>2. edit.del = {}
    BY <1>1, <1>11 DEF ApplyInv
  <2>3. QED
    BY <1>2, <1>3, <1>4, <1>5, <1>6, <1>7, <1>8, <1>9, <1>11, <2>1, <2>2
<1>12. QED  BY <1>10, <1>11

LEMMA StepInstall ==
  ASSUME IInv, Install
  PROVE  IInv'
<1>1. /\ pc = "install" /\ pc' = "delete" /\ UNCHANGED diskVars /\ edit' = NoEdit
      /\ version' = (version \ edit.del) \cup edit.add /\ logNo' = edit.log
      /\ garbage' = (IF bgError THEN {} ELSE Obsolete)
      /\ UNCHANGED <<job, up, nextFile, manifestNo, lastSeq, descriptor, mem, logFileNo, bgError>>
      /\ UNCHANGED <<logs, replay, maxSeq, save, table, writing>>
      /\ UNCHANGED <<writes, acked, synced, losses, faulty, events>>
  BY DEF Install, RemoveObsoleteFiles, openVars, history, bounds
<1>2. /\ imm' = (IF job = "flush" THEN {} ELSE imm)
      /\ job = "merge" => pending' = pending \ {output} /\ inputs' = {} /\ output' = 0
      /\ job # "merge" => UNCHANGED <<pending, inputs, output>>
  BY DEF Install
<1>3. /\ Serving /\ Dir.current # 0 /\ Dir.current = manifestNo /\ descriptor
      /\ job \in {"open", "flush", "merge"} /\ (up <=> job # "open")
      /\ Views(manifestNo) = {Final} /\ Final \in ViewType /\ Final.log = edit.log /\ logNo <= edit.log
      /\ ~bgError => Final.tables = version'
      /\ TableEntries(version) \cup TableEntries(edit.add) \subseteq TableEntries(Final.tables)
      /\ edit \in VersionEdit /\ edit.add \in SUBSET Nat /\ edit.log \in Nat /\ logNo \in Nat
      /\ table = NoTable /\ pending = (IF output # 0 THEN {output} ELSE {})
      /\ inputs \subseteq version /\ (output # 0 => inputs # {})
      /\ job = "open" => edit.del = {} /\ imm = {} /\ inputs = {} /\ output = 0 /\ ~bgError
      /\ job = "flush" => TableEntries(edit.add) = imm /\ edit.del = {}
      /\ job = "merge" => edit.add = {output} /\ output # 0 /\ edit.del = inputs
                          /\ TableEntries(edit.add) = TableEntries(inputs)
      /\ TableEntries(Final.tables) \subseteq TableEntries(version) \cup TableEntries(edit.add) \cup imm
      /\ \A l \in LogsFor(Dir, logNo) \ {logFileNo} :
           LogEntries(l) \subseteq TableEntries(version) \cup TableEntries(edit.add) \cup imm
  BY <1>1, InstallFacts
<1>4. /\ ProcessTyped /\ HistoryTyped /\ PhaseInv /\ ManifestInv /\ LogInv /\ VersionInv
      /\ Dir.names \subseteq FileNames
  BY Typed DEF IInv, ProcessInv, Directory
<1>5. Still({}, {}) /\ Dirs' = Dirs /\ Dir' = Dir
  BY <1>1, StillSame
<1>6. /\ \A l : LogEntries(l)' = LogEntries(l)
      /\ \A T : TableEntries(T)' = TableEntries(T)
      /\ \A t : Whole(t)' = Whole(t)
      /\ \A k : Views(k)' = Views(k)
  BY <1>1, SameFiles DEF diskVars
<1>7. Full' = Full /\ Final' = Final /\ InUse' \subseteq InUse
  BY <1>3, <1>5, StillFacts
<1>8. PICK V, m, n : V = version' /\ m = manifestNo /\ n = edit.log
  OBVIOUS
<1>9. /\ TableEntries(version)' = TableEntries(V)
      /\ TableEntries(Final.tables)' = TableEntries(Final.tables)
      /\ Views(manifestNo)' = {Final}
      /\ LogEntries(logFileNo)' = LogEntries(logFileNo)
  <2>1. PICK T, l : T = Final.tables /\ l = logFileNo
    OBVIOUS
  <2>2. TableEntries(V)' = TableEntries(V) /\ TableEntries(T)' = TableEntries(T)
        /\ Views(m)' = Views(m) /\ LogEntries(l)' = LogEntries(l)
    BY <1>6
  <2>3. TableEntries(version)' = TableEntries(V)' /\ TableEntries(Final.tables)' = TableEntries(T)'
    BY <1>7, <1>8, <2>1 DEF TableEntries
  <2>4. Views(manifestNo)' = Views(m)' /\ LogEntries(logFileNo)' = LogEntries(l)'
    BY <1>1, <1>8, <2>1 DEF Views, ViewOf, Manifest, LogEntries, Recs, Log, EntriesOf
  <2>5. QED  BY <1>3, <1>8, <2>1, <2>2, <2>3, <2>4
<1>10. /\ V \subseteq version \cup edit.add /\ edit.add \subseteq V
       /\ TableEntries(V) \subseteq TableEntries(version) \cup TableEntries(edit.add)
       /\ TableEntries(version) \cup TableEntries(edit.add) \subseteq TableEntries(V)
  <2>1. V \subseteq version \cup edit.add /\ edit.add \subseteq V
    BY <1>1, <1>8
  <2>2. /\ TableEntries(V) \subseteq TableEntries(version \cup edit.add)
        /\ TableEntries(version \cup edit.add) = TableEntries(version) \cup TableEntries(edit.add)
        /\ TableEntries(edit.add) \subseteq TableEntries(V)
    BY <2>1, TableEntriesUnion
  <2>3. TableEntries(version) \subseteq TableEntries(V)
    <3>1. CASE job # "merge"
      <4>1. version \subseteq V
        BY <1>1, <1>3, <1>8, <3>1
      <4>2. QED  BY <4>1, TableEntriesUnion
    <3>2. CASE job = "merge"
      <4>1. version \subseteq V \cup inputs
        BY <1>1, <1>3, <1>8, <3>2
      <4>2. /\ TableEntries(version) \subseteq TableEntries(V \cup inputs)
            /\ TableEntries(V \cup inputs) = TableEntries(V) \cup TableEntries(inputs)
        BY <4>1, TableEntriesUnion
      <4>3. QED  BY <1>3, <2>2, <3>2, <4>2
    <3>3. QED  BY <3>1, <3>2
  <2>4. QED  BY <2>1, <2>2, <2>3
<1>11. imm \subseteq TableEntries(V) \cup imm'
  BY <1>2, <1>3, <1>10
<1>12. Brought' = {} /\ Target' = V /\ TargetLog' = n /\ ~Recorded' /\ ~Applying'
  BY <1>1, <1>8 DEF Brought, Target, TargetLog, Recorded, Applying
<1>13. /\ V \in SUBSET Nat /\ nextFile \in Nat /\ \A t \in V : t < nextFile /\ Table(t) \in Dir.names /\ Whole(t)
  BY <1>3, <1>4, <1>10, Present DEF ProcessTyped
<1>14. DiskInv'
  BY <1>1, <1>4, <1>5, KeepDisk DEF Still, HistoryTyped
<1>15. Obsolete \subseteq FileNames
  <2>1. \A f \in Obsolete : f \in FileNames
    <3>1. SUFFICES ASSUME NEW f \in Obsolete PROVE f \in FileNames
      OBVIOUS
    <3>2. \A kind : \A k \in Numbers(kind) : k \in Nat
      BY <1>4 DEF Numbers, FileNames
    <3>3. \E k \in Nat : f \in {Log(k), Manifest(k), Table(k), Temp(k)}
      BY <3>1, <3>2 DEF Obsolete
    <3>4. QED  BY <3>3, Names
  <2>2. QED  BY <2>1
<1>16. ProcessTyped'
  <2>1. garbage' \in SUBSET FileNames /\ version' \in SUBSET Nat /\ logNo' \in Nat /\ edit' \in VersionEdit
    BY <1>1, <1>3, <1>8, <1>13, <1>15 DEF NoEdit, VersionEdit
  <2>2. imm' \in SUBSET Update /\ pending' \in SUBSET Nat /\ inputs' \in SUBSET Nat /\ output' \in Nat
    <3>1. imm \in SUBSET Update /\ pending \in SUBSET Nat /\ inputs \in SUBSET Nat /\ output \in Nat
      BY <1>4 DEF ProcessTyped
    <3>2. imm' \in SUBSET Update
      BY <1>2, <3>1
    <3>3. CASE job = "merge"
      <4>1. pending' = pending \ {output} /\ inputs' = {} /\ output' = 0
        BY <1>2, <3>3
      <4>2. pending \ {output} \subseteq Nat /\ {} \subseteq Nat /\ 0 \in Nat
        BY <3>1
      <4>3. QED  BY <3>2, <4>1, <4>2
    <3>4. CASE job # "merge"
      BY <1>2, <3>1, <3>2, <3>4
    <3>5. QED  BY <3>3, <3>4
  <2>3. QED  BY <1>1, <1>4, <2>1, <2>2 DEF ProcessTyped, Places
<1>17. HistoryTyped'
  BY <1>1, <1>4 DEF HistoryTyped
<1>18. /\ pending' = (IF output' # 0 THEN {output'} ELSE {}) /\ (output' # 0 => inputs' # {})
       /\ inputs' \subseteq V
  <2>1. CASE job = "merge"
    BY <1>2, <1>3, <2>1
  <2>2. CASE job # "merge"
    <3>1. edit.del = {} /\ UNCHANGED <<pending, inputs, output>>
      BY <1>2, <1>3, <2>2
    <3>2. QED  BY <1>1, <1>3, <1>8, <3>1
  <2>3. QED  BY <2>1, <2>2
<1>19. PhaseInv'
  <2>1. ~up' => /\ job' = "open" /\ mem' = {} /\ imm' = {} /\ ~bgError' /\ inputs' = {} /\ output' = 0
                /\ writing' = NotWriting
    BY <1>1, <1>2, <1>3, <1>4 DEF PhaseInv
  <2>2. ~Creating'
    BY <1>1 DEF Creating
  <2>3. QED  BY <1>1, <1>3, <1>12, <1>18, <2>1, <2>2 DEF PhaseInv
<1>20. FreshInv'
  <2>1. output' # 0 => Fresh(output)'
    <3>1. SUFFICES ASSUME output' # 0 PROVE Fresh(output)'
      OBVIOUS
    <3>2. job = "flush" /\ output' = output
      BY <1>2, <1>3, <3>1
    <3>3. PICK o \in Nat : o = output
      BY <1>4 DEF ProcessTyped
    <3>4. Fresh(o)
      BY <3>1, <3>2, <3>3 DEF IInv, ProcessInv, FreshInv
    <3>5. o \notin version' \cup edit'.add
      BY <1>1, <1>8, <1>10, <3>4 DEF Fresh, NoEdit
    <3>6. nextFile' \in Nat /\ nextFile' >= nextFile
      BY <1>1, <1>13
    <3>7. Fresh(o)'
      BY <1>5, <3>4, <3>5, <3>6, CalmFirm, KeepFresh DEF Still
    <3>8. QED  BY <3>2, <3>3, <3>7
  <2>2. QED  BY <1>1, <2>1 DEF FreshInv
<1>21. ManifestInv'
  <2>1. Dir'.current # 0 /\ Dir'.current = manifestNo' /\ descriptor' /\ lastSeq' <= writes'
    BY <1>1, <1>3, <1>4, <1>5 DEF ManifestInv
  <2>2. \A v \in Views(manifestNo)' : /\ logNo' <= v.log /\ v.log <= logFileNo'
                                      /\ v.next <= nextFile' /\ v.seq <= lastSeq'
    BY <1>1, <1>3, <1>4, <1>9 DEF ManifestInv
  <2>3. ~bgError' => Final'.tables = Target' /\ Final'.log = TargetLog'
    BY <1>1, <1>3, <1>7, <1>8, <1>12
  <2>4. TableEntries(version)' \subseteq TableEntries(Final.tables)'
    BY <1>3, <1>9, <1>10
  <2>5. TableEntries(Final.tables)' \subseteq TableEntries(version)' \cup imm' \cup Brought'
    BY <1>3, <1>9, <1>10, <1>11
  <2>6. pc' # "install"
    BY <1>1
  <2>7. QED  BY <1>12, <2>1, <2>2, <2>3, <2>4, <2>5, <2>6 DEF ManifestInv
<1>22. LogInv'
  <2>1. /\ logFileNo < nextFile /\ Log(logFileNo) \in Dir.names
        /\ \A l \in Nat : Log(l) \in Reachable(dirs) =>
             l <= logFileNo /\ (Log(l) \notin Dir.names => l < logNo)
        /\ imm \subseteq Full /\ mem \subseteq LogEntries(logFileNo)
        /\ \A e \in LogEntries(logFileNo) :
             \/ e \in mem
             \/ writing.op # 0 /\ e = Entry(writing)
             \/ bgError /\ e.op \notin acked /\ e.op # writing.op
        /\ \A e \in mem \cup imm \cup TableEntries(Final.tables) : e.seq <= lastSeq
        /\ \A e \in LogEntries(logFileNo) :
             e.seq <= lastSeq \/ (writing.op # 0 /\ e = Entry(writing))
    BY <1>3, <1>4 DEF LogInv
  <2>2. logFileNo' < nextFile' /\ Log(logFileNo') \in Dir'.names
    BY <1>1, <1>5, <2>1
  <2>3. \A l \in Nat : Log(l) \in Reachable(dirs)' =>
          l <= logFileNo' /\ (Log(l) \notin Dir'.names => l < logNo')
    <3>1. Reachable(dirs)' = Reachable(dirs)
      BY <1>1, SameDirs DEF diskVars
    <3>2. \A l \in Nat : l < logNo => l < logNo'
      BY <1>1, <1>3
    <3>3. QED  BY <1>1, <1>5, <2>1, <3>1, <3>2
  <2>4. imm' \subseteq imm
    BY <1>2
  <2>5. imm' \subseteq Full' /\ mem' \subseteq LogEntries(logFileNo)'
    BY <1>1, <1>7, <1>9, <2>1, <2>4
  <2>6. \A l \in LogsFor(Dir, logNo)' \ {logFileNo'} :
          LogEntries(l)' \subseteq TableEntries(version)' \cup imm' \cup Brought'
    <3>1. SUFFICES ASSUME NEW l \in LogsFor(Dir, logNo)', l # logFileNo
                   PROVE  LogEntries(l)' \subseteq TableEntries(version)' \cup imm' \cup Brought'
      BY <1>1
    <3>2. l \in Nat /\ l >= edit.log /\ Log(l) \in Dir.names
      BY <1>1, <1>5, <3>1 DEF LogsFor, Log
    <3>3. l \in LogsFor(Dir, logNo) \ {logFileNo}
      BY <1>3, <3>1, <3>2 DEF LogsFor
    <3>4. LogEntries(l) \subseteq TableEntries(version) \cup TableEntries(edit.add) \cup imm
      BY <1>3, <3>3
    <3>5. QED  BY <1>6, <1>9, <1>10, <1>11, <3>4
  <2>7. \A e \in LogEntries(logFileNo)' :
          /\ \/ e \in mem'
             \/ writing'.op # 0 /\ e = Entry(writing)
             \/ bgError' /\ e.op \notin acked' /\ e.op # writing'.op
          /\ e.seq <= lastSeq' \/ (writing'.op # 0 /\ e = Entry(writing))
    BY <1>1, <1>9, <2>1
  <2>8. \A e \in mem' \cup imm' \cup TableEntries(Final.tables)' : e.seq <= lastSeq'
    BY <1>1, <1>9, <2>1, <2>4
  <2>9. Entry(writing)' = Entry(writing)
    BY <1>1 DEF Entry
  <2>10. QED  BY <2>2, <2>3, <2>5, <2>6, <2>7, <2>8, <2>9 DEF LogInv, Log
<1>23. ASSUME NEW f \in garbage'
       PROVE  /\ f # Manifest(m) /\ \A t \in V : f # Table(t)
              /\ \A l \in Nat : f = Log(l) => l < n
  <2>1. f \in Obsolete
    BY <1>1, <1>23
  <2>2. \/ \E k \in Numbers("log") : f = Log(k) /\ k < n
        \/ \E k \in Numbers("manifest") : f = Manifest(k) /\ k < m
        \/ \E k \in Numbers("table") \ Live : f = Table(k)
        \/ \E k \in Numbers("temp") \ Live : f = Temp(k)
    BY <1>1, <1>8, <2>1 DEF Obsolete
  <2>3. m \in Nat
    BY <1>4, <1>8 DEF ProcessTyped
  <2>4. CASE \E k \in Numbers("log") : f = Log(k) /\ k < n
    BY <2>4, Names
  <2>5. CASE \E k \in Numbers("manifest") : f = Manifest(k) /\ k < m
    BY <2>3, <2>5, Names
  <2>6. CASE \E k \in Numbers("table") \ Live : f = Table(k)
    BY <1>8, <2>6, Names DEF Live
  <2>7. CASE \E k \in Numbers("temp") \ Live : f = Temp(k)
    BY <2>7, Names
  <2>8. QED  BY <2>2, <2>4, <2>5, <2>6, <2>7
<1>24. VersionInv'
  <2>1. \A f \in garbage' : \A v \in Views(manifestNo)' : \A t \in v.tables : f # Table(t)
    <3>1. CASE bgError
      BY <1>1, <3>1
    <3>2. CASE ~bgError
      BY <1>3, <1>8, <1>9, <1>23, <3>2
    <3>3. QED  BY <3>1, <3>2
  <2>2. \A t \in V : t < nextFile' /\ Table(t) \in Dir'.names /\ Whole(t)'
    BY <1>1, <1>5, <1>6, <1>13
  <2>3. QED  BY <1>1, <1>8, <1>18, <1>23, <2>1, <2>2 DEF VersionInv, Table, Manifest, Log
<1>25. ApplyInv'
  BY <1>1, <1>12 DEF ApplyInv
<1>26. WriteInv'
  BY <1>1, <1>3, <1>5, StillSteady, KeepWrite
<1>27. NumbersInv'
  <2>1. SUFFICES ASSUME ~faulty, NEW t \in Nat, Table(t) \in Dir.names, ~(t < nextFile)
                 PROVE  Table(t) \in garbage' /\ ~up
    BY <1>1, <1>5 DEF NumbersInv, Table
  <2>2. ~up
    BY <1>1, <2>1 DEF IInv, ProcessInv, NumbersInv
  <2>3. t \notin V /\ pending' = {} /\ ~bgError
    BY <1>2, <1>3, <1>13, <2>1, <2>2
  <2>4. t \in Numbers("table")
    BY <2>1 DEF Numbers, Table
  <2>5. Table(t) \in Obsolete
    BY <1>8, <2>3, <2>4 DEF Obsolete, Live
  <2>6. QED  BY <1>1, <2>2, <2>3, <2>5
<1>28. GarbageInv'
  <2>1. SUFFICES ASSUME NEW f \in Obsolete, NEW t \in pending' PROVE f # Table(t)
    BY <1>1 DEF GarbageInv, Table
  <2>2. \/ \E k \in Numbers("table") \ Live : f = Table(k)
        \/ \E k : f \in {Log(k), Manifest(k), Temp(k)}
    BY <2>1 DEF Obsolete
  <2>3. QED  BY <2>1, <2>2, Names DEF Live
<1>29. QED
  BY <1>1, <1>14, <1>16, <1>17, <1>19, <1>20, <1>21, <1>22, <1>24, <1>25, <1>26, <1>27, <1>28, UpInv
LEMMA DeleteFacts ==
  ASSUME IInv, pc = "delete"
  PROVE  /\ Serving /\ edit = NoEdit /\ table = NoTable /\ Dir.current = manifestNo /\ Dir.current # 0
         /\ pending = (IF output # 0 THEN {output} ELSE {}) /\ (output # 0 => inputs # {})
         /\ inputs \subseteq version /\ ~Applying /\ ~Recorded /\ ~Opening /\ ~Creating
         /\ ~up => /\ mem = {} /\ imm = {} /\ ~bgError /\ inputs = {} /\ output = 0
                   /\ writing = NotWriting /\ job = "open"
         /\ nextFile \in Nat /\ garbage \in SUBSET FileNames
         /\ \A f \in garbage : /\ f # Manifest(manifestNo)
                               /\ \A t \in version : f # Table(t)
                               /\ \A v \in Views(manifestNo) : \A t \in v.tables : f # Table(t)
                               /\ \A l \in Nat : f = Log(l) => l < logNo
<1>1. PhaseInv /\ VersionInv /\ ProcessTyped
  BY DEF IInv, ProcessInv
<1>2. Serving /\ ~Applying /\ ~Recorded /\ ~Opening /\ ~Creating
  BY DEF Serving, Applying, Recorded, Opening, Saving, Creating
<1>3. Dir.current = manifestNo /\ Dir.current # 0
  BY <1>2, ServingFacts
<1>4. /\ edit = NoEdit /\ table = NoTable
      /\ pending = (IF output # 0 THEN {output} ELSE {}) /\ (output # 0 => inputs # {})
      /\ ~up => /\ mem = {} /\ imm = {} /\ ~bgError /\ inputs = {} /\ output = 0
                /\ writing = NotWriting /\ job = "open"
  BY <1>1, <1>2 DEF PhaseInv
<1>5. /\ inputs \subseteq version
      /\ \A f \in garbage : /\ f # Manifest(manifestNo)
                            /\ \A t \in version : f # Table(t)
                            /\ \A v \in Views(manifestNo) : \A t \in v.tables : f # Table(t)
                            /\ \A l \in Nat : f = Log(l) => l < logNo
  BY <1>1, <1>2 DEF VersionInv
<1>6. nextFile \in Nat /\ garbage \in SUBSET FileNames
  BY <1>1 DEF ProcessTyped
<1>7. QED  BY <1>2, <1>3, <1>4, <1>5, <1>6

LEMMA StepCollected ==
  ASSUME IInv, Collected
  PROVE  IInv'
<1>1. /\ pc = "delete" /\ garbage = {} /\ up' = TRUE /\ UNCHANGED diskVars
      /\ pc' = (IF inputs # {} THEN "merge" ELSE "idle") /\ job' = "none"
      /\ logs' = {} /\ replay' = NoReplay /\ maxSeq' = 0 /\ save' = FALSE /\ edit' = NoEdit
      /\ UNCHANGED <<version, nextFile, manifestNo, logNo, lastSeq, descriptor, mem, imm, logFileNo>>
      /\ UNCHANGED <<bgError, pending, table, inputs, output, garbage, writing>>
      /\ UNCHANGED <<writes, acked, synced, losses, faulty, events>>
  BY DEF Collected, Resume, versionVars, memVars, history, bounds
<1>2. /\ Serving /\ edit = NoEdit /\ table = NoTable
      /\ pending = (IF output # 0 THEN {output} ELSE {}) /\ (output # 0 => inputs # {})
      /\ inputs \subseteq version /\ ~Applying /\ ~Recorded /\ nextFile \in Nat
  BY <1>1, DeleteFacts
<1>3. ProcessTyped /\ HistoryTyped /\ FreshInv /\ ManifestInv
  BY Typed DEF IInv, ProcessInv
<1>4. Still({}, {}) /\ Dirs' = Dirs /\ Dir' = Dir
  BY <1>1, StillSame
<1>5. pc' \in {"merge", "idle"} /\ ~Applying' /\ ~Recorded' /\ ~Creating'
  BY <1>1 DEF Applying, Recorded, Creating
<1>6. ProcessTyped'
  <2>1. NoReplay \in [left : Seq(Update), cut : BOOLEAN] /\ NoEdit \in VersionEdit
    BY DEF NoReplay, NoEdit, VersionEdit
  <2>2. pc' \in Places /\ logs' \in SUBSET Nat
    BY <1>1, <1>5 DEF Places
  <2>3. QED  BY <1>1, <1>3, <2>1, <2>2 DEF ProcessTyped
<1>7. HistoryTyped'
  BY <1>1, <1>3 DEF HistoryTyped
<1>8. PhaseInv'
  BY <1>1, <1>2, <1>5 DEF PhaseInv
<1>9. FreshInv'
  <2>1. output' # 0 => Fresh(output)'
    <3>1. SUFFICES ASSUME output # 0 PROVE Fresh(output)'
      BY <1>1
    <3>2. PICK o \in Nat : o = output
      BY <1>3 DEF ProcessTyped
    <3>3. Fresh(o)
      BY <1>2, <1>3, <3>1, <3>2 DEF FreshInv
    <3>4. o \notin version' \cup edit'.add /\ nextFile' \in Nat /\ nextFile' >= nextFile
      BY <1>1, <1>2, <3>3 DEF Fresh, NoEdit
    <3>5. Fresh(o)'
      BY <1>4, <3>3, <3>4, CalmFirm, KeepFresh DEF Still
    <3>6. QED  BY <1>1, <3>2, <3>5
  <2>2. QED  BY <1>5, <2>1 DEF FreshInv
<1>10. DiskInv'
  BY <1>1, <1>3, <1>4, KeepDisk DEF Still, HistoryTyped
<1>11. ManifestInv'
  <2>1. Target' = Target /\ TargetLog' = TargetLog
    BY <1>1, <1>2, <1>5 DEF Target, TargetLog
  <2>2. /\ logFileNo' \in Nat /\ logFileNo' >= logFileNo /\ imm \subseteq imm'
        /\ nextFile' \in Nat /\ nextFile' >= nextFile
        /\ lastSeq' \in Nat /\ lastSeq' >= lastSeq /\ lastSeq' <= writes'
    BY <1>1, <1>2, <1>3 DEF ProcessTyped, ManifestInv
  <2>3. pc # "install" /\ pc' # "install" /\ (bgError' = bgError)
    BY <1>1, <1>5
  <2>4. QED  BY <1>1, <1>2, <1>4, <1>5, <2>1, <2>2, <2>3, CalmFirm, KeepManifest DEF Still
<1>12. LogInv' /\ VersionInv' /\ WriteInv'
  <2>1. /\ nextFile' \in Nat /\ nextFile' >= nextFile /\ logNo' \in Nat /\ logNo' >= logNo
        /\ pc # "install" /\ pc' # "install" /\ inputs' \subseteq version /\ garbage' \subseteq garbage
    BY <1>1, <1>2, <1>3, <1>5 DEF ProcessTyped
  <2>2. LogInv'
    BY <1>1, <1>2, <1>4, <2>1, StillSteady, KeepLog
  <2>3. VersionInv'
    BY <1>1, <1>2, <1>4, <2>1, CalmFirm, KeepVersion DEF Still
  <2>4. WriteInv'
    BY <1>1, <1>2, <1>4, StillSteady, KeepWrite
  <2>5. QED  BY <2>2, <2>3, <2>4
<1>13. ApplyInv'
  BY <1>5 DEF ApplyInv
<1>14. NumbersInv'
  BY <1>1, <1>2, <1>4, KeepNumbers
<1>15. QED
  BY <1>1, <1>6, <1>7, <1>8, <1>9, <1>10, <1>11, <1>12, <1>13, <1>14, UpInv

LEMMA StepDeleteFile ==
  ASSUME IInv, DeleteFile
  PROVE  IInv' /\ Full' = Full
<1>1. /\ pc = "delete" /\ pc' = pc /\ garbage # {}
      /\ \E f \in garbage : /\ garbage' = garbage \ {f}
                            /\ \/ RemoveFile(f) /\ UNCHANGED <<faulty, events>>
                               \/ Fails("remove") /\ UNCHANGED diskVars
      /\ UNCHANGED <<job, up, version, nextFile, manifestNo, logNo, lastSeq, descriptor, mem, imm>>
      /\ UNCHANGED <<logFileNo, bgError, pending, logs, replay, maxSeq, save, table, edit, inputs>>
      /\ UNCHANGED <<output, writing, writes, acked, synced, losses>>
  BY DEF DeleteFile, versionVars, memVars, openVars, history, bounds
<1>2. PICK f \in garbage : /\ garbage' = garbage \ {f}
                           /\ \/ RemoveFile(f) /\ UNCHANGED <<faulty, events>>
                              \/ Fails("remove") /\ UNCHANGED diskVars
  BY <1>1
<1>3. /\ Serving /\ edit = NoEdit /\ table = NoTable /\ Dir.current = manifestNo /\ Dir.current # 0
      /\ pending = (IF output # 0 THEN {output} ELSE {})
      /\ inputs \subseteq version /\ ~Applying /\ ~Recorded
      /\ nextFile \in Nat
      /\ f # Manifest(manifestNo) /\ (\A t \in version : f # Table(t))
      /\ (\A v \in Views(manifestNo) : \A t \in v.tables : f # Table(t))
      /\ (\A l \in Nat : f = Log(l) => l < logNo)
  BY <1>1, DeleteFacts
<1>4. /\ ProcessTyped /\ HistoryTyped /\ PhaseInv /\ FreshInv /\ ManifestInv /\ GarbageInv /\ NumbersInv
      /\ logNo \in Nat /\ logFileNo \in Nat /\ lastSeq \in Nat /\ lastSeq <= writes /\ writes \in Nat
  BY <1>3, Typed DEF IInv, ProcessInv, ProcessTyped, HistoryTyped, ManifestInv
<1>5. \E X : /\ Steady(X, {}) /\ X \subseteq {f} /\ Dir'.names \subseteq Dir.names
             /\ ~faulty' => ~faulty /\ f \notin Dir'.names
  <2>1. CASE RemoveFile(f) /\ UNCHANGED <<faulty, events>>
    <3>1. /\ DiskTyped' /\ Frame({f}, {}) /\ Dir'.names = Dir.names \ {f}
      BY <2>1, Typed, WithoutTyped DEF RemoveFile
    <3>2. ASSUME NEW l \in Nat, Log(l) = f, NEW v \in Views(Dir.current) PROVE l < v.log
      <4>1. l < logNo /\ logNo <= v.log /\ v.log \in Nat
        BY <1>3, <3>2, ServingFacts DEF ViewType
      <4>2. QED  BY <1>4, <4>1
    <3>3. Harmless({f}, {})
      BY <1>3, <3>2 DEF Harmless
    <3>4. Calm({f}, {})
      BY <1>3, <3>1, <3>3 DEF Calm, NoEdit
    <3>5. \A l \in Nat : l >= logNo => Log(l) # f
      BY <1>3, <1>4
    <3>6. Steady({f}, {})
      BY <3>4, <3>5 DEF Steady
    <3>7. QED  BY <2>1, <3>1, <3>6
  <2>2. CASE Fails("remove") /\ UNCHANGED diskVars
    <3>1. Steady({}, {}) /\ Dir' = Dir
      BY <2>2, StillSame, StillSteady
    <3>2. QED  BY <2>2, <3>1 DEF Fails
  <2>3. QED  BY <1>2, <2>1, <2>2
<1>6. PICK X : /\ Steady(X, {}) /\ X \subseteq {f} /\ Dir'.names \subseteq Dir.names
               /\ ~faulty' => ~faulty /\ f \notin Dir'.names
  BY <1>5
<1>7. Calm(X, {})
  BY <1>6 DEF Steady
<1>8. ~Applying' /\ ~Recorded' /\ Brought' = {}
  BY <1>1 DEF Applying, Recorded, Brought
<1>9. ProcessTyped'
  BY <1>1, <1>2, <1>4 DEF ProcessTyped
<1>10. HistoryTyped'
  <2>1. CASE UNCHANGED <<faulty, events>>
    BY <1>1, <1>4, <2>1 DEF HistoryTyped
  <2>2. CASE Fails("remove")
    BY <1>1, <1>4, <2>2, EventTyped DEF Fails
  <2>3. QED  BY <1>2, <2>1, <2>2
<1>11. DiskInv'
  BY <1>1, <1>4, <1>7, KeepDisk
<1>12. PhaseInv'
  <2>1. ~Creating' /\ ~Opening' /\ ~Applying'
    BY <1>1 DEF Creating, Opening, Saving, Applying
  <2>2. ~up => job = "open"
    BY <1>1, DeleteFacts
  <2>3. QED  BY <1>1, <1>4, <2>1, <2>2 DEF PhaseInv
<1>13. FreshInv'
  <2>1. output' # 0 => Fresh(output)'
    <3>1. SUFFICES ASSUME output # 0 PROVE Fresh(output)'
      BY <1>1
    <3>2. PICK o \in Nat : o = output
      BY <1>4 DEF ProcessTyped
    <3>3. Fresh(o) /\ f # Table(o)
      BY <1>1, <1>3, <1>4, <3>1, <3>2 DEF FreshInv, GarbageInv
    <3>4. o \notin version' \cup edit'.add /\ nextFile' \in Nat /\ nextFile' >= nextFile
      BY <1>1, <1>3, <3>3 DEF Fresh
    <3>5. Fresh(o)'
      BY <1>6, <1>7, <3>3, <3>4, CalmFirm, KeepFresh
    <3>6. QED  BY <1>1, <3>2, <3>5
  <2>2. QED  BY <1>1, <2>1 DEF FreshInv
<1>14. ManifestInv'
  <2>1. Target' = Target /\ TargetLog' = TargetLog
    BY <1>1, <1>3, <1>8 DEF Target, TargetLog
  <2>2. QED  BY <1>1, <1>3, <1>4, <1>7, <1>8, <2>1, CalmFirm, KeepManifest
<1>15. LogInv' /\ VersionInv' /\ WriteInv'
  <2>1. LogInv'
    BY <1>1, <1>3, <1>4, <1>6, KeepLog
  <2>2. garbage' \subseteq garbage
    BY <1>2
  <2>3. VersionInv'
    BY <1>1, <1>3, <1>4, <1>7, <2>2, CalmFirm, KeepVersion
  <2>4. WriteInv'
    BY <1>1, <1>3, <1>6, KeepWrite
  <2>5. QED  BY <2>1, <2>3, <2>4
<1>16. ApplyInv'
  BY <1>1, <1>8 DEF ApplyInv
<1>17. NumbersInv'
  <2>1. SUFFICES ASSUME ~faulty', NEW t \in Nat, Table(t) \in Dir'.names
                 PROVE  t < nextFile \/ (Table(t) \in garbage' /\ ~up)
    BY <1>1 DEF NumbersInv, Table
  <2>2. Table(t) \in Dir.names /\ Table(t) # f
    BY <1>6, <2>1
  <2>3. t < nextFile \/ (Table(t) \in garbage /\ ~up)
    BY <1>1, <1>4, <1>6, <2>1, <2>2 DEF NumbersInv
  <2>4. QED  BY <1>2, <2>2, <2>3
<1>18. GarbageInv'
  BY <1>1, <1>2, <1>4 DEF GarbageInv, Table
<1>19. up' \/ pc' \in {"install", "delete"}
  BY <1>1
<1>20. IInv'
  BY <1>9, <1>10, <1>11, <1>12, <1>13, <1>14, <1>15, <1>16, <1>17, <1>18, <1>19, UpInv
<1>21. Full' = Full
  BY <1>7, CalmFacts
<1>22. QED  BY <1>20, <1>21

(***************************************************************************)
(* The writer.                                                             *)
(***************************************************************************)
LEMMA LogFacts ==
  ASSUME IInv, up
  PROVE  /\ Serving /\ Brought = {} /\ Dir.current # 0 /\ Dir.current = manifestNo
         /\ logFileNo \in Nat /\ Log(logFileNo) \in Dir.names /\ logFileNo < nextFile /\ nextFile \in Nat
         /\ logNo \in Nat /\ logNo <= logFileNo /\ lastSeq \in Nat /\ lastSeq <= writes /\ writes \in Nat
         /\ \A l \in Nat : Log(l) \in Reachable(dirs) =>
              l <= logFileNo /\ (Log(l) \notin Dir.names => l < logNo)
         /\ imm \subseteq Full /\ mem \subseteq LogEntries(logFileNo)
         /\ \A l \in LogsFor(Dir, logNo) \ {logFileNo} :
              LogEntries(l) \subseteq TableEntries(version) \cup imm
         /\ \A e \in LogEntries(logFileNo) :
              /\ e \in Full /\ e \in Update /\ e.op # 0
              /\ e.seq <= lastSeq \/ (writing.op # 0 /\ e = Entry(writing))
              /\ \/ e \in mem
                 \/ writing.op # 0 /\ e = Entry(writing)
                 \/ bgError /\ e.op \notin acked /\ e.op # writing.op
         /\ \A e \in mem \cup imm \cup TableEntries(Final.tables) : e \in Update /\ e.seq <= lastSeq
<1>1. /\ Serving /\ Brought = {} /\ LogInv /\ ManifestInv /\ ProcessTyped /\ HistoryTyped
  BY Typed DEF Serving, Brought, IInv, ProcessInv
<1>2. /\ Dir.current # 0 /\ Dir.current = manifestNo /\ Full = Says(Dir, Final)
      /\ Final \in Views(manifestNo) /\ Final \in ViewType
      /\ logNo <= Final.log /\ Final.log <= logFileNo
      /\ logFileNo \in Nat /\ Log(logFileNo) \in Dir.names /\ logFileNo < nextFile
      /\ \A l \in Nat : Log(l) \in Reachable(dirs) =>
           l <= logFileNo /\ (Log(l) \notin Dir.names => l < logNo)
  BY <1>1, ServingFacts
<1>3. /\ logNo \in Nat /\ nextFile \in Nat /\ lastSeq \in Nat /\ writes \in Nat /\ Final.log \in Nat
      /\ lastSeq <= writes
  BY <1>1, <1>2 DEF ProcessTyped, HistoryTyped, ViewType, ManifestInv
<1>4. Full \subseteq Update /\ \A e \in Full : e.op # 0
  <2>1. \A e \in Full : e.op \in 1..writes
    BY DEF IInv, DiskInv, FullInv
  <2>2. QED  BY <1>3, <2>1, FullTyped
<1>5. LogEntries(logFileNo) \subseteq Full /\ TableEntries(Final.tables) \subseteq Full
  <2>1. logFileNo >= Final.log
    BY <1>2, <1>3
  <2>2. QED  BY <1>2, <2>1, SaysSplit
<1>6. /\ imm \subseteq Full /\ mem \subseteq LogEntries(logFileNo)
      /\ \A l \in LogsFor(Dir, logNo) \ {logFileNo} :
           LogEntries(l) \subseteq TableEntries(version) \cup imm
      /\ \A e \in LogEntries(logFileNo) :
           /\ e.seq <= lastSeq \/ (writing.op # 0 /\ e = Entry(writing))
           /\ \/ e \in mem
              \/ writing.op # 0 /\ e = Entry(writing)
              \/ bgError /\ e.op \notin acked /\ e.op # writing.op
      /\ \A e \in mem \cup imm \cup TableEntries(Final.tables) : e.seq <= lastSeq
  BY <1>1 DEF LogInv
<1>7. logNo <= logFileNo
  BY <1>2, <1>3
<1>8. QED  BY <1>1, <1>2, <1>3, <1>4, <1>5, <1>6, <1>7

\* Between two writes every entry has a sequence number that is used up.
LEMMA UsedNumbers ==
  ASSUME IInv, up, writing = NotWriting
  PROVE  \A e \in Full : e.seq <= lastSeq
<1>1. /\ Full = Says(Dir, Final) /\ logNo <= Final.log /\ Final.log \in Nat /\ logNo \in Nat
      /\ TableEntries(version) \subseteq TableEntries(Final.tables)
  BY LogFacts, ServingFacts DEF IInv, ProcessInv, ManifestInv, ViewType
<1>2. writing.op = 0
  BY DEF NotWriting
<1>3. SUFFICES ASSUME NEW e \in Full PROVE e.seq <= lastSeq
  OBVIOUS
<1>4. CASE e \in TableEntries(Final.tables)
  BY <1>4, LogFacts
<1>5. CASE \E l \in Nat : l >= Final.log /\ Log(l) \in Dir.names /\ e \in LogEntries(l)
  <2>1. PICK l \in Nat : l >= Final.log /\ Log(l) \in Dir.names /\ e \in LogEntries(l)
    BY <1>5
  <2>2. l \in LogsFor(Dir, logNo)
    BY <1>1, <2>1 DEF LogsFor
  <2>3. CASE l = logFileNo
    BY <1>2, <2>1, <2>3, LogFacts
  <2>4. CASE l # logFileNo
    BY <1>1, <2>1, <2>2, <2>4, LogFacts
  <2>5. QED  BY <2>3, <2>4
<1>6. QED  BY <1>1, <1>4, <1>5, SaysSplit

LEMMA WriterStep ==
  ASSUME IInv, NEW X, Firm(X), up, \A t \in Nat : Table(t) \notin X,
         UNCHANGED <<pc, job, up, version, manifestNo, logNo, descriptor, pending, logs, replay>>,
         UNCHANGED <<maxSeq, save, table, edit, inputs, output, garbage>>,
         faulty => faulty', bgError => bgError', bgError' \in BOOLEAN,
         nextFile' \in Nat, nextFile' >= nextFile, lastSeq' \in Nat, lastSeq' >= lastSeq,
         lastSeq' <= writes', logFileNo' \in Nat, logFileNo' >= logFileNo,
         mem' \in SUBSET Update, imm' \in SUBSET Update,
         imm = {} \/ UNCHANGED <<imm, logFileNo>>,
         writing' \in [op : Nat, seq : Nat, sync : BOOLEAN, at : {"idle", "sync", "insert"}],
         DiskInv', HistoryTyped', LogInv', WriteInv'
  PROVE  IInv'
<1>1. /\ ProcessTyped /\ PhaseInv /\ VersionInv /\ GarbageInv /\ NumbersInv /\ Serving
      /\ nextFile \in Nat /\ logNo \in Nat /\ nextFile >= 2
  BY DEF IInv, ProcessInv, ProcessTyped, Serving
<1>2. Applying' = Applying /\ Recorded' = Recorded /\ up'
  BY DEF Applying, Recorded
<1>3. ProcessTyped'
  <2>1. nextFile' >= 2
    BY <1>1
  <2>2. QED  BY <1>1, <2>1 DEF ProcessTyped
<1>4. PhaseInv'
  <2>1. ~(pc \in {"down", "recover"} \/ Creating)' /\ (pc = "build" => imm # {})
    BY <1>1, <1>2 DEF Creating, PhaseInv, Applying
  <2>2. pc # "recover"
    BY <1>1, UpFacts
  <2>3. QED  BY <1>1, <1>2, <2>1, <2>2 DEF PhaseInv
<1>5. FreshInv'
  BY <1>2, KeepFreshInv
<1>6. ManifestInv'
  <2>1. Target' = Target /\ TargetLog' = TargetLog
    BY <1>2 DEF Target, TargetLog
  <2>2. imm \subseteq imm'
    OBVIOUS
  <2>3. QED  BY <1>1, <1>2, <2>1, <2>2, KeepManifest
<1>7. VersionInv'
  <2>1. inputs' \subseteq version /\ garbage' \subseteq garbage
    BY <1>1 DEF VersionInv
  <2>2. QED  BY <1>1, <2>1, KeepVersion
<1>8. ApplyInv'
  <2>1. Applying => job = "merge" \/ UNCHANGED <<logFileNo, imm>>
    BY ApplyFacts
  <2>2. pc' \in {"apply", "append", "sync", "install"} => Applying
    BY DEF Applying
  <2>3. QED  BY <1>1, <1>2, <2>1, <2>2, KeepApply
<1>9. NumbersInv'
  <2>1. \A t \in Nat : Table(t) \in Dir'.names => Table(t) \in Dir.names \/ t < nextFile'
    BY DEF Firm
  <2>2. QED  BY <2>1, KeepNumbers
<1>10. GarbageInv'
  BY <1>1 DEF GarbageInv, Table
<1>11. QED  BY <1>2, <1>3, <1>4, <1>5, <1>6, <1>7, <1>8, <1>9, <1>10, UpInv

\* Steps of the writer that leave the disk as it is.
LEMMA QuietWriter ==
  ASSUME IInv, UNCHANGED diskVars, up, UNCHANGED version
  PROVE  /\ Firm({}) /\ Calm({}, {}) /\ Dirs' = Dirs /\ Dir' = Dir /\ Full' = Full /\ Final' = Final
         /\ Reachable(dirs)' = Reachable(dirs)
         /\ TableEntries(Final.tables)' = TableEntries(Final.tables)
         /\ TableEntries(version)' = TableEntries(version)
         /\ \A l \in Nat : Log(l) \in Dir.names => LogEntries(l)' = LogEntries(l)
         /\ \A n : LogsFor(Dir, n)' = LogsFor(Dir, n)
<1>1. Still({}, {}) /\ Dirs' = Dirs /\ Dir' = Dir
  BY StillSame
<1>2. Calm({}, {}) /\ Dir.current # 0
  BY <1>1, LogFacts DEF Still
<1>3. Firm({})
  BY <1>2, CalmFirm
<1>4. Reachable(dirs)' = Reachable(dirs) /\ TableEntries(version)' = TableEntries(version)
  <2>1. Reachable(dirs)' = Reachable(dirs)
    BY DEF Reachable, diskVars
  <2>2. TableEntries(version)' = TableEntries(version)
    BY <1>1, StillFacts
  <2>3. QED  BY <2>1, <2>2
<1>5. QED  BY <1>1, <1>2, <1>3, <1>4, StillFacts

LEMMA StepAppendFails ==
  ASSUME IInv, AppendFails
  PROVE  IInv'
<1>1. /\ up /\ ~bgError /\ writing = NotWriting /\ writes < MaxWrites /\ events + writes < MaxEvents
      /\ events' = events + 1 /\ faulty' = TRUE /\ writes' = writes + 1 /\ lastSeq' = lastSeq + 1
      /\ UNCHANGED diskVars
      /\ UNCHANGED <<pc, job, up, version, manifestNo, logNo, descriptor, pending, logs, replay>>
      /\ UNCHANGED <<maxSeq, save, table, edit, inputs, output, garbage, nextFile, mem, imm, logFileNo>>
      /\ UNCHANGED <<bgError, writing, acked, synced, losses>>
  BY DEF AppendFails, Writable, Fails, Event, memVars, openVars, workVars
<1>2. /\ ProcessTyped /\ HistoryTyped /\ WriteInv /\ LogInv
      /\ nextFile \in Nat /\ lastSeq \in Nat /\ writes \in Nat /\ lastSeq <= writes
      /\ logFileNo \in Nat /\ bgError \in BOOLEAN
  BY <1>1, LogFacts, Typed DEF IInv, ProcessInv, ProcessTyped
<1>3. HistoryTyped'
  BY <1>1, <1>2, BoundsAssumption DEF HistoryTyped
<1>4. DiskInv'
  BY <1>1, <1>2, QuietWriter, KeepDisk
<1>5. WriteInv'
  BY <1>1 DEF WriteInv, NotWriting
<1>6. LogInv'
  <2>1. Brought' = {}
    BY <1>1 DEF Brought
  <2>2. \A e \in LogEntries(logFileNo) \cup mem \cup imm \cup TableEntries(Final.tables) :
          e.seq <= lastSeq => e.seq <= lastSeq'
    <3>1. \A e \in LogEntries(logFileNo) \cup mem \cup imm \cup TableEntries(Final.tables) : e.seq \in Nat
      BY <1>1, LogFacts DEF Update
    <3>2. QED  BY <1>1, <1>2, <3>1
  <2>3. Entry(writing)' = Entry(writing)
    BY <1>1 DEF Entry
  <2>4. LogEntries(logFileNo)' = LogEntries(logFileNo) /\ LogsFor(Dir, logNo)' = LogsFor(Dir, logNo)
    BY <1>1, LogFacts, QuietWriter
  <2>5. \A l \in LogsFor(Dir, logNo)' \ {logFileNo'} :
          LogEntries(l)' \subseteq TableEntries(version)' \cup imm' \cup Brought'
    <3>1. SUFFICES ASSUME NEW l \in LogsFor(Dir, logNo), l # logFileNo
                   PROVE  LogEntries(l)' \subseteq TableEntries(version)' \cup imm' \cup Brought'
      BY <1>1, <2>4
    <3>2. l \in Nat /\ Log(l) \in Dir.names
      BY <3>1 DEF LogsFor
    <3>3. QED  BY <1>1, <2>1, <3>1, <3>2, LogFacts, QuietWriter
  <2>6. \A e \in LogEntries(logFileNo)' :
          /\ e \in mem' \/ (writing'.op # 0 /\ e = Entry(writing)')
             \/ (bgError' /\ e.op \notin acked' /\ e.op # writing'.op)
          /\ e.seq <= lastSeq' \/ (writing'.op # 0 /\ e = Entry(writing)')
    BY <1>1, <2>2, <2>3, <2>4, LogFacts
  <2>7. \A e \in mem' \cup imm' \cup TableEntries(Final.tables)' : e.seq <= lastSeq'
    BY <1>1, <2>2, LogFacts, QuietWriter
  <2>8. /\ logFileNo' < nextFile' /\ Log(logFileNo') \in Dir'.names
        /\ \A l \in Nat : Log(l) \in Reachable(dirs)' =>
             l <= logFileNo' /\ (Log(l) \notin Dir'.names => l < logNo')
        /\ imm' \subseteq Full' /\ mem' \subseteq LogEntries(logFileNo)'
    BY <1>1, <2>4, LogFacts, QuietWriter
  <2>9. QED  BY <2>5, <2>6, <2>7, <2>8 DEF LogInv, Log
<1>7. /\ mem' \in SUBSET Update /\ imm' \in SUBSET Update
      /\ writing' \in [op : Nat, seq : Nat, sync : BOOLEAN, at : {"idle", "sync", "insert"}]
  BY <1>1, <1>2 DEF ProcessTyped
<1>8. lastSeq' \in Nat /\ lastSeq' >= lastSeq /\ lastSeq' <= writes'
  BY <1>1, <1>2
<1>9. QED
  BY <1>1, <1>2, <1>3, <1>4, <1>5, <1>6, <1>7, <1>8, QuietWriter, WriterStep

LEMMA StepSyncFails ==
  ASSUME IInv, SyncFails
  PROVE  IInv'
<1>1. /\ writing.at = "sync" /\ Fails("fsync") /\ faulty' = TRUE /\ bgError' = TRUE
      /\ lastSeq' = writing.seq /\ writing' = NotWriting /\ UNCHANGED diskVars
      /\ UNCHANGED <<pc, job, up, version, manifestNo, logNo, descriptor, pending, logs, replay>>
      /\ UNCHANGED <<maxSeq, save, table, edit, inputs, output, garbage, nextFile, mem, imm, logFileNo>>
      /\ UNCHANGED <<writes, acked, synced, losses>>
  BY DEF SyncFails, Fails, openVars, workVars, history
<1>2. /\ up /\ writing.op = writes /\ writing.op # 0 /\ writing.op \notin acked
      /\ writing.seq = lastSeq + 1 /\ writing.seq <= writing.op
  BY <1>1 DEF IInv, ProcessInv, WriteInv
<1>3. /\ ProcessTyped /\ HistoryTyped
      /\ nextFile \in Nat /\ lastSeq \in Nat /\ writes \in Nat /\ logFileNo \in Nat
  BY <1>2, LogFacts, Typed
<1>4. HistoryTyped'
  BY <1>1, <1>3, EventTyped DEF Fails
<1>5. DiskInv'
  BY <1>1, <1>2, <1>3, QuietWriter, KeepDisk
<1>6. writing'.op = 0 /\ writing'.at = "idle"
  BY <1>1 DEF NotWriting
<1>7. WriteInv'
  BY <1>1, <1>6 DEF WriteInv
<1>8. lastSeq' \in Nat /\ lastSeq' >= lastSeq /\ lastSeq' <= writes'
  BY <1>1, <1>2, <1>3
<1>9. LogInv'
  <2>1. Brought' = {}
    BY <1>1, <1>2 DEF Brought
  <2>2. \A e \in LogEntries(logFileNo) \cup mem \cup imm \cup TableEntries(Final.tables) :
          e.seq <= lastSeq => e.seq <= lastSeq'
    <3>1. \A e \in LogEntries(logFileNo) \cup mem \cup imm \cup TableEntries(Final.tables) : e.seq \in Nat
      BY <1>2, LogFacts DEF Update
    <3>2. QED  BY <1>3, <1>8, <3>1
  <2>3. Entry(writing).seq = lastSeq' /\ Entry(writing).op = writing.op
    BY <1>1 DEF Entry
  <2>4. LogEntries(logFileNo)' = LogEntries(logFileNo) /\ LogsFor(Dir, logNo)' = LogsFor(Dir, logNo)
    BY <1>1, <1>2, LogFacts, QuietWriter
  <2>5. \A l \in LogsFor(Dir, logNo)' \ {logFileNo'} :
          LogEntries(l)' \subseteq TableEntries(version)' \cup imm' \cup Brought'
    <3>1. SUFFICES ASSUME NEW l \in LogsFor(Dir, logNo), l # logFileNo
                   PROVE  LogEntries(l)' \subseteq TableEntries(version)' \cup imm' \cup Brought'
      BY <1>1, <2>4
    <3>2. l \in Nat /\ Log(l) \in Dir.names
      BY <3>1 DEF LogsFor
    <3>3. QED  BY <1>1, <1>2, <2>1, <3>1, <3>2, LogFacts, QuietWriter
  <2>6. \A e \in LogEntries(logFileNo)' :
          /\ e \in mem' \/ (bgError' /\ e.op \notin acked' /\ e.op # writing'.op)
          /\ e.seq <= lastSeq'
    <3>1. SUFFICES ASSUME NEW e \in LogEntries(logFileNo)
                   PROVE  /\ e \in mem \/ (e.op \notin acked /\ e.op # 0)
                          /\ e.seq <= lastSeq'
      BY <1>1, <1>6, <2>4
    <3>2. e.op # 0
      BY <1>2, LogFacts
    <3>3. CASE e = Entry(writing)
      BY <1>2, <1>8, <2>3, <3>2, <3>3
    <3>4. CASE e # Entry(writing)
      BY <1>2, <2>2, <3>2, <3>4, LogFacts
    <3>5. QED  BY <3>3, <3>4
  <2>7. \A e \in mem' \cup imm' \cup TableEntries(Final.tables)' : e.seq <= lastSeq'
    BY <1>1, <1>2, <2>2, LogFacts, QuietWriter
  <2>8. /\ logFileNo' < nextFile' /\ Log(logFileNo') \in Dir'.names
        /\ \A l \in Nat : Log(l) \in Reachable(dirs)' =>
             l <= logFileNo' /\ (Log(l) \notin Dir'.names => l < logNo')
        /\ imm' \subseteq Full' /\ mem' \subseteq LogEntries(logFileNo)'
    BY <1>1, <1>2, <2>4, LogFacts, QuietWriter
  <2>9. QED  BY <2>5, <2>6, <2>7, <2>8 DEF LogInv, Log
<1>10. /\ mem' \in SUBSET Update /\ imm' \in SUBSET Update
       /\ writing' \in [op : Nat, seq : Nat, sync : BOOLEAN, at : {"idle", "sync", "insert"}]
  BY <1>1, <1>3 DEF ProcessTyped, NotWriting
<1>11. QED
  BY <1>1, <1>2, <1>3, <1>4, <1>5, <1>7, <1>8, <1>9, <1>10, QuietWriter, WriterStep

LEMMA StepFinishWrite ==
  ASSUME IInv, FinishWrite
  PROVE  IInv'
<1>1. /\ writing.at = "insert" /\ mem' = mem \cup {Entry(writing)} /\ lastSeq' = writing.seq
      /\ acked' = acked \cup {writing.op}
      /\ synced' = (IF writing.sync THEN synced \cup {writing.op} ELSE synced)
      /\ writing' = NotWriting /\ UNCHANGED diskVars
      /\ UNCHANGED <<pc, job, up, version, manifestNo, logNo, descriptor, pending, logs, replay>>
      /\ UNCHANGED <<maxSeq, save, table, edit, inputs, output, garbage, nextFile, imm, logFileNo>>
      /\ UNCHANGED <<bgError, writes, losses, faulty, events>>
  BY DEF FinishWrite, openVars, workVars, bounds
<1>2. /\ up /\ writing.op = writes /\ writing.op # 0 /\ writing.op \notin acked
      /\ writing.seq = lastSeq + 1 /\ writing.seq <= writing.op
      /\ Entry(writing) \in LogEntries(logFileNo)
      /\ writing.sync => /\ \A d \in Dirs : d.current = manifestNo /\ Log(logFileNo) \in d.names
                         /\ Entry(writing) \in SafeEntries(logFileNo)
  BY <1>1 DEF IInv, ProcessInv, WriteInv
<1>3. /\ ProcessTyped /\ HistoryTyped /\ writing.sync \in BOOLEAN /\ bgError \in BOOLEAN
      /\ nextFile \in Nat /\ lastSeq \in Nat /\ writes \in Nat /\ logFileNo \in Nat
  BY <1>2, LogFacts, Typed DEF ProcessTyped
<1>4. HistoryTyped'
  BY <1>1, <1>2, <1>3 DEF HistoryTyped
<1>5. DiskInv'
  <2>1. CASE writing.sync
    <3>1. PICK op : op = writing.op
      OBVIOUS
    <3>2. ASSUME NEW d \in Dirs, NEW v \in Views(d.current)
          PROVE  op \in OpsOf(IsSure(d, v))
      <4>1. d.current = manifestNo /\ Log(logFileNo) \in d.names /\ v \in Views(manifestNo)
        BY <1>2, <2>1, <3>2
      <4>2. v.log <= logFileNo
        BY <1>2, <4>1, ServingFacts, LogFacts
      <4>3. v.log \in Nat
        BY <1>2, <4>1, ServingFacts, LogFacts DEF ViewType
      <4>4. Entry(writing) \in IsSure(d, v)
        BY <1>2, <1>3, <2>1, <4>1, <4>2, <4>3, SaysSplit
      <4>5. Entry(writing).op = op
        BY <3>1 DEF Entry
      <4>6. QED  BY <4>4, <4>5 DEF OpsOf
    <3>3. \A d \in Dirs : d.current # 0
      BY <1>2, <2>1, LogFacts
    <3>4. DiskInv /\ synced' = synced \cup {op} /\ writes' = writes
      BY <1>1, <2>1, <3>1 DEF IInv
    <3>5. QED  BY <1>1, <3>2, <3>3, <3>4, SyncedOne
  <2>2. CASE ~writing.sync
    BY <1>1, <1>2, <1>3, <2>2, QuietWriter, KeepDisk
  <2>3. QED  BY <1>3, <2>1, <2>2
<1>6. writing'.op = 0 /\ writing'.at = "idle"
  BY <1>1 DEF NotWriting
<1>7. WriteInv'
  BY <1>1, <1>6 DEF WriteInv
<1>8. lastSeq' \in Nat /\ lastSeq' >= lastSeq /\ lastSeq' <= writes'
  BY <1>1, <1>2, <1>3
<1>9. LogInv'
  <2>1. Brought' = {}
    BY <1>1, <1>2 DEF Brought
  <2>2. \A e \in LogEntries(logFileNo) \cup mem \cup imm \cup TableEntries(Final.tables) :
          e.seq <= lastSeq => e.seq <= lastSeq'
    <3>1. \A e \in LogEntries(logFileNo) \cup mem \cup imm \cup TableEntries(Final.tables) : e.seq \in Nat
      BY <1>2, LogFacts DEF Update
    <3>2. QED  BY <1>3, <1>8, <3>1
  <2>3. Entry(writing).seq = lastSeq' /\ Entry(writing).op = writing.op
    BY <1>1 DEF Entry
  <2>4. LogEntries(logFileNo)' = LogEntries(logFileNo) /\ LogsFor(Dir, logNo)' = LogsFor(Dir, logNo)
    BY <1>1, <1>2, LogFacts, QuietWriter
  <2>5. \A l \in LogsFor(Dir, logNo)' \ {logFileNo'} :
          LogEntries(l)' \subseteq TableEntries(version)' \cup imm' \cup Brought'
    <3>1. SUFFICES ASSUME NEW l \in LogsFor(Dir, logNo), l # logFileNo
                   PROVE  LogEntries(l)' \subseteq TableEntries(version)' \cup imm' \cup Brought'
      BY <1>1, <2>4
    <3>2. l \in Nat /\ Log(l) \in Dir.names
      BY <3>1 DEF LogsFor
    <3>3. QED  BY <1>1, <1>2, <2>1, <3>1, <3>2, LogFacts, QuietWriter
  <2>6. \A e \in LogEntries(logFileNo)' :
          /\ e \in mem' \/ (bgError' /\ e.op \notin acked' /\ e.op # writing'.op)
          /\ e.seq <= lastSeq'
    <3>1. SUFFICES ASSUME NEW e \in LogEntries(logFileNo)
                   PROVE  /\ \/ e \in mem \cup {Entry(writing)}
                             \/ bgError /\ e.op \notin acked \cup {writing.op} /\ e.op # 0
                          /\ e.seq <= lastSeq'
      BY <1>1, <1>6, <2>4
    <3>2. CASE e = Entry(writing)
      BY <1>8, <2>3, <3>2
    <3>3. CASE e # Entry(writing)
      BY <1>2, <2>2, <3>3, LogFacts
    <3>4. QED  BY <3>2, <3>3
  <2>7. \A e \in mem' \cup imm' \cup TableEntries(Final.tables)' : e.seq <= lastSeq'
    <3>1. Entry(writing).seq <= lastSeq'
      BY <1>8, <2>3
    <3>2. QED  BY <1>1, <1>2, <2>2, <3>1, LogFacts, QuietWriter
  <2>8. /\ logFileNo' < nextFile' /\ Log(logFileNo') \in Dir'.names
        /\ \A l \in Nat : Log(l) \in Reachable(dirs)' =>
             l <= logFileNo' /\ (Log(l) \notin Dir'.names => l < logNo')
        /\ imm' \subseteq Full' /\ mem' \subseteq LogEntries(logFileNo)'
    BY <1>1, <1>2, <2>4, LogFacts, QuietWriter
  <2>9. QED  BY <2>5, <2>6, <2>7, <2>8 DEF LogInv, Log
<1>10. /\ mem' \in SUBSET Update /\ imm' \in SUBSET Update
       /\ writing' \in [op : Nat, seq : Nat, sync : BOOLEAN, at : {"idle", "sync", "insert"}]
  <2>1. Entry(writing) \in Update
    BY <1>2, LogFacts
  <2>2. QED  BY <1>1, <1>3, <2>1 DEF ProcessTyped, NotWriting
<1>11. QED
  BY <1>1, <1>2, <1>3, <1>4, <1>5, <1>7, <1>8, <1>9, <1>10, QuietWriter, WriterStep

LEMMA StepSyncWrite ==
  ASSUME IInv, SyncWrite
  PROVE  IInv'
<1>1. /\ writing.at = "sync" /\ SyncFile(Log(logFileNo), Recs(Log(logFileNo)))
      /\ writing' = [writing EXCEPT !.at = "insert"]
      /\ UNCHANGED <<pc, job, up, version, manifestNo, logNo, descriptor, pending, logs, replay>>
      /\ UNCHANGED <<maxSeq, save, table, edit, inputs, output, garbage, nextFile, mem, imm, logFileNo>>
      /\ UNCHANGED <<lastSeq, bgError, writes, acked, synced, losses, faulty, events>>
  BY DEF SyncWrite, versionVars, memVars, openVars, workVars, history, bounds
<1>2. /\ up /\ writing.op = writes /\ writing.op # 0 /\ writing.op \notin acked
      /\ writing.seq = lastSeq + 1 /\ writing.seq <= writing.op
      /\ Entry(writing) \in LogEntries(logFileNo)
  BY <1>1 DEF IInv, ProcessInv, WriteInv
<1>3. /\ ProcessTyped /\ HistoryTyped /\ LogInv /\ bgError \in BOOLEAN
      /\ nextFile \in Nat /\ lastSeq \in Nat /\ writes \in Nat /\ logFileNo \in Nat /\ lastSeq <= writes
      /\ Log(logFileNo) \in Dir.names
      /\ writing \in [op : Nat, seq : Nat, sync : BOOLEAN, at : {"idle", "sync", "insert"}]
  BY <1>2, LogFacts, Typed DEF ProcessTyped, IInv, ProcessInv
<1>4. PICK f, recs : f = Log(logFileNo) /\ recs = Recs(f)
  OBVIOUS
<1>5. /\ Still({}, {}) /\ Dirs' = {Dir} /\ Dir' = Dir
      /\ Recs(f)' = recs /\ files'[f].durable = Len(recs)
  BY <1>1, <1>3, <1>4, StillSync
<1>6. Calm({}, {}) /\ Firm({}) /\ Steady({}, {})
  BY <1>5, CalmFirm, StillSteady DEF Still
<1>7. HistoryTyped'
  BY <1>1, <1>3 DEF HistoryTyped
<1>8. DiskInv'
  BY <1>1, <1>3, <1>6, KeepDisk
<1>9. Entry(writing)' = Entry(writing) /\ writing'.at = "insert" /\ writing'.op = writing.op
      /\ writing'.seq = writing.seq /\ writing'.sync = writing.sync
      /\ writing' \in [op : Nat, seq : Nat, sync : BOOLEAN, at : {"idle", "sync", "insert"}]
  BY <1>1, <1>3 DEF Entry
<1>10. LogEntries(logFileNo)' = LogEntries(logFileNo)
  BY <1>1, <1>3, <1>5, StillFacts
<1>11. SafeEntries(logFileNo)' = LogEntries(logFileNo)
  <2>1. recs \in Seq(Update)
    BY <1>3, <1>4, Typed, RecordsTyped
  <2>2. SubSeq(recs, 1, Len(recs)) = recs
    BY <2>1, SubSeqFull
  <2>3. Log(logFileNo') = f
    BY <1>1, <1>4
  <2>4. files'[f].recs = recs
    BY <1>5 DEF Recs
  <2>5. SafeEntries(logFileNo)' = EntriesOf(SubSeq(recs, 1, Len(recs)))
    BY <1>5, <2>3, <2>4 DEF SafeEntries, EntriesOf, Recs, Log
  <2>6. QED  BY <1>4, <2>2, <2>5 DEF LogEntries
<1>12. WriteInv'
  <2>1. \A d \in Dirs' : d.current = manifestNo /\ Log(logFileNo) \in d.names
    BY <1>2, <1>3, <1>5, LogFacts
  <2>2. QED  BY <1>1, <1>2, <1>9, <1>10, <1>11, <2>1 DEF WriteInv, Log
<1>13. LogInv'
  <2>1. Brought = {} /\ Brought' = {} /\ Dir.current # 0
    BY <1>1, <1>2, LogFacts DEF Brought
  <2>2. /\ Full' = Full /\ TableEntries(Final.tables)' = TableEntries(Final.tables)
        /\ \A l \in Nat : /\ Log(l) \in Dir'.names <=> Log(l) \in Dir.names
                          /\ Log(l) \in Reachable(dirs)' => Log(l) \in Reachable(dirs)
                          /\ Log(l) \in Dir.names => LogEntries(l)' = LogEntries(l)
        /\ LogsFor(Dir, logNo)' = LogsFor(Dir, logNo)
        /\ TableEntries(version)' = TableEntries(version)
    <3>1. /\ \A T : T \subseteq version \cup edit.add => TableEntries(T)' = TableEntries(T)
          /\ \A n : LogsFor(Dir, n)' = LogsFor(Dir, n)
      BY <1>5, StillFacts
    <3>2. TableEntries(version)' = TableEntries(version) /\ LogsFor(Dir, logNo)' = LogsFor(Dir, logNo)
      BY <1>1, <3>1
    <3>3. QED  BY <1>5, <2>1, <3>2, StillFacts
  <2>3. \A l \in LogsFor(Dir, logNo)' \ {logFileNo'} :
          LogEntries(l)' \subseteq TableEntries(version)' \cup imm' \cup Brought'
    <3>1. SUFFICES ASSUME NEW l \in LogsFor(Dir, logNo), l # logFileNo
                   PROVE  LogEntries(l)' \subseteq TableEntries(version)' \cup imm' \cup Brought'
      BY <1>1, <2>2
    <3>2. l \in Nat /\ Log(l) \in Dir.names
      BY <3>1 DEF LogsFor
    <3>3. QED  BY <1>1, <1>2, <2>1, <2>2, <3>1, <3>2, LogFacts
  <2>4. \A e \in LogEntries(logFileNo)' :
          /\ \/ e \in mem'
             \/ writing'.op # 0 /\ e = Entry(writing)'
             \/ bgError' /\ e.op \notin acked' /\ e.op # writing'.op
          /\ e.seq <= lastSeq' \/ (writing'.op # 0 /\ e = Entry(writing)')
    BY <1>1, <1>2, <1>9, <1>10, LogFacts
  <2>5. \A e \in mem' \cup imm' \cup TableEntries(Final.tables)' : e.seq <= lastSeq'
    BY <1>1, <1>2, <2>2, LogFacts
  <2>6. /\ logFileNo' < nextFile' /\ Log(logFileNo') \in Dir'.names
        /\ \A l \in Nat : Log(l) \in Reachable(dirs)' =>
             l <= logFileNo' /\ (Log(l) \notin Dir'.names => l < logNo')
        /\ imm' \subseteq Full' /\ mem' \subseteq LogEntries(logFileNo)'
    BY <1>1, <1>2, <1>10, <2>2, LogFacts
  <2>7. QED  BY <2>3, <2>4, <2>5, <2>6 DEF LogInv, Log
<1>14. mem' \in SUBSET Update /\ imm' \in SUBSET Update
  BY <1>1, <1>3 DEF ProcessTyped
<1>15. QED
  BY <1>1, <1>2, <1>3, <1>6, <1>7, <1>8, <1>9, <1>12, <1>13, <1>14, WriterStep

LEMMA StepSwitchMemTable ==
  ASSUME IInv, SwitchMemTable
  PROVE  IInv'
<1>1. /\ up /\ ~bgError /\ writing = NotWriting /\ imm = {}
      /\ NewWritableFile(Log(nextFile), <<>>)
      /\ logFileNo' = nextFile /\ nextFile' = nextFile + 1 /\ imm' = mem /\ mem' = {}
      /\ UNCHANGED <<pc, job, up, version, manifestNo, logNo, descriptor, pending, logs, replay>>
      /\ UNCHANGED <<maxSeq, save, table, edit, inputs, output, garbage>>
      /\ UNCHANGED <<lastSeq, bgError, writing, writes, acked, synced, losses, faulty, events>>
  BY DEF SwitchMemTable, Writable, openVars, workVars, history, bounds
<1>2. /\ ProcessTyped /\ HistoryTyped /\ bgError \in BOOLEAN /\ writing.op = 0
      /\ nextFile \in Nat /\ lastSeq \in Nat /\ writes \in Nat /\ logFileNo \in Nat /\ lastSeq <= writes
      /\ Dir.current # 0 /\ logFileNo < nextFile
  BY <1>1, LogFacts, Typed DEF ProcessTyped, NotWriting
<1>3. PICK n \in Nat : n = nextFile
  BY <1>2
<1>4. \A l \in Nat : Log(l) \in Reachable(dirs) => l < n
  BY <1>1, <1>2, <1>3, LogFacts
<1>5. /\ Calm({Log(n)}, {Log(n)}) /\ Dir'.names = Dir.names \cup {Log(n)}
      /\ LogEntries(n)' = {}
      /\ \A l \in Nat : Log(l) \in Reachable(dirs)' => Log(l) \in Reachable(dirs) \/ l = n
      /\ \A l \in Nat : Log(l) \in Dir.names => l < n /\ LogEntries(l)' = LogEntries(l)
      /\ \A l \in Nat : Log(l) \in Dir'.names => Log(l) \in Dir.names \/ l = n
  BY <1>1, <1>2, <1>3, <1>4, NewLog
<1>6. Firm({Log(n)}) /\ \A t \in Nat : Table(t) \notin {Log(n)}
  BY <1>5, CalmFirm, Names
<1>7. HistoryTyped'
  BY <1>1, <1>2 DEF HistoryTyped
<1>8. DiskInv'
  BY <1>1, <1>2, <1>5, KeepDisk
<1>9. WriteInv'
  BY <1>1 DEF WriteInv, NotWriting
<1>10. LogInv'
  <2>1. Brought' = {}
    BY <1>1 DEF Brought
  <2>2. /\ Full' = Full /\ TableEntries(Final.tables)' = TableEntries(Final.tables)
        /\ TableEntries(version)' = TableEntries(version)
    <3>1. \A T : T \subseteq version \cup edit.add => TableEntries(T)' = TableEntries(T)
      BY <1>5, CalmFacts
    <3>2. TableEntries(version)' = TableEntries(version)
      BY <1>1, <3>1
    <3>3. QED  BY <1>2, <1>5, <3>2, CalmFacts
  <2>3. LogEntries(logFileNo) \subseteq mem
    BY <1>1, <1>2, LogFacts
  <2>4. \A l \in LogsFor(Dir, logNo)' \ {logFileNo'} :
          LogEntries(l)' \subseteq TableEntries(version)' \cup imm' \cup Brought'
    <3>1. SUFFICES ASSUME NEW l \in LogsFor(Dir, logNo)', l # n
                   PROVE  LogEntries(l)' \subseteq TableEntries(version) \cup mem
      BY <1>1, <1>3, <2>2
    <3>2. l \in Nat /\ Log(l) \in Dir'.names /\ l >= logNo
      BY <1>1, <3>1 DEF LogsFor, Log
    <3>3. Log(l) \in Dir.names /\ LogEntries(l)' = LogEntries(l) /\ l \in LogsFor(Dir, logNo)
      BY <1>5, <3>1, <3>2 DEF LogsFor
    <3>4. CASE l = logFileNo
      BY <2>3, <3>3, <3>4
    <3>5. CASE l # logFileNo
      BY <1>1, <3>3, <3>5, LogFacts
    <3>6. QED  BY <3>4, <3>5
  <2>5. LogEntries(logFileNo)' = {}
    <3>1. LogEntries(logFileNo)' = LogEntries(n)'
      BY <1>1, <1>3 DEF LogEntries, EntriesOf, Recs, Log
    <3>2. QED  BY <1>5, <3>1
  <2>6. \A e \in mem' \cup imm' \cup TableEntries(Final.tables)' : e.seq <= lastSeq'
    BY <1>1, <2>2, LogFacts
  <2>7. imm' \subseteq Full' /\ mem' \subseteq LogEntries(logFileNo)'
    BY <1>1, <2>2, LogFacts
  <2>8. logFileNo' < nextFile' /\ Log(logFileNo') \in Dir'.names
    BY <1>1, <1>2, <1>3, <1>5
  <2>9. ASSUME NEW l \in Nat, Log(l) \in Reachable(dirs)'
        PROVE  l <= logFileNo' /\ (Log(l) \notin Dir'.names => l < logNo')
    <3>1. CASE l = n
      BY <1>1, <1>3, <1>5, <3>1
    <3>2. CASE l # n
      <4>1. Log(l) \in Reachable(dirs)
        BY <1>5, <2>9, <3>2
      <4>2. l < n /\ (Log(l) \notin Dir.names => l < logNo)
        BY <1>1, <1>4, <4>1, LogFacts
      <4>3. QED  BY <1>1, <1>3, <1>5, <4>2
    <3>3. QED  BY <3>1, <3>2
  <2>10. QED  BY <2>4, <2>5, <2>6, <2>7, <2>8, <2>9 DEF LogInv, Log
<1>11. /\ mem' \in SUBSET Update /\ imm' \in SUBSET Update
       /\ writing' \in [op : Nat, seq : Nat, sync : BOOLEAN, at : {"idle", "sync", "insert"}]
  BY <1>1, <1>2 DEF ProcessTyped
<1>12. nextFile' \in Nat /\ nextFile' >= nextFile /\ logFileNo' \in Nat /\ logFileNo' >= logFileNo
  BY <1>1, <1>2
<1>13. QED
  BY <1>1, <1>2, <1>6, <1>7, <1>8, <1>9, <1>10, <1>11, <1>12, WriterStep

LEMMA StepBeginWrite ==
  ASSUME IInv, NEW sync \in BOOLEAN, BeginWrite(sync)
  PROVE  IInv'
<1>1. /\ up /\ ~bgError /\ writing = NotWriting /\ writes < MaxWrites /\ writes' = writes + 1
      /\ writing' = [op |-> writes + 1, seq |-> lastSeq + 1, sync |-> sync,
                     at |-> IF sync THEN "sync" ELSE "insert"]
      /\ AppendRecord(Log(logFileNo), [op |-> writes + 1, seq |-> lastSeq + 1])
      /\ UNCHANGED <<pc, job, up, version, manifestNo, logNo, descriptor, pending, logs, replay>>
      /\ UNCHANGED <<maxSeq, save, table, edit, inputs, output, garbage, nextFile, mem, imm, logFileNo>>
      /\ UNCHANGED <<lastSeq, bgError, acked, synced, losses, faulty, events>>
  BY DEF BeginWrite, Writable, Entry, versionVars, memVars, openVars, workVars, bounds
<1>2. /\ ProcessTyped /\ HistoryTyped /\ bgError \in BOOLEAN /\ writing.op = 0 /\ Serving
      /\ nextFile \in Nat /\ lastSeq \in Nat /\ writes \in Nat /\ logFileNo \in Nat /\ lastSeq <= writes
      /\ Dir.current # 0 /\ Dir.current = manifestNo /\ Log(logFileNo) \in Dir.names
  BY <1>1, LogFacts, Typed DEF ProcessTyped, NotWriting
<1>3. PICK n, e, m : /\ n \in Nat /\ n = logFileNo /\ m = manifestNo
                     /\ e = [op |-> writes + 1, seq |-> lastSeq + 1]
  BY <1>2
<1>4. e \in Update /\ e.op = writes' /\ e.seq = lastSeq + 1 /\ e.seq <= e.op
  BY <1>1, <1>2, <1>3 DEF Update
<1>5. /\ DiskInv' /\ Full' = Full \cup {e} /\ Final' = Final /\ Dirs' = Dirs /\ Dir' = Dir
      /\ LogEntries(n)' = LogEntries(n) \cup {e} /\ DiskTyped' /\ Frame({}, {Log(n)})
      /\ InUse' \subseteq InUse /\ Views(Dir.current)' \subseteq Views(Dir.current)
  <2>1. \A v \in Views(Dir.current) : v.log <= n
    BY <1>2, <1>3, ServingFacts
  <2>2. \A x \in Full : x.seq < e.seq
    <3>1. \A x \in Full : x.seq \in Nat /\ x.seq <= lastSeq
      BY <1>1, UsedNumbers, FullTyped DEF Update
    <3>2. QED  BY <1>2, <1>4, <3>1
  <2>3. DiskInv /\ synced' = synced /\ Log(n) \in Dir.names /\ AppendRecord(Log(n), e)
    BY <1>1, <1>2, <1>3 DEF IInv
  <2>4. QED  BY <1>1, <1>2, <1>3, <1>4, <2>1, <2>2, <2>3, LogAppended
<1>6. UNCHANGED dirs /\ Reachable(dirs)' = Reachable(dirs)
  BY <1>1 DEF AppendRecord, Reachable
<1>7. Firm({})
  <2>1. \A t \in version \cup edit.add : Table(t) \notin {} \cup {Log(n)}
    BY Names
  <2>2. /\ \A T : T \subseteq version \cup edit.add => TableEntries(T)' = TableEntries(T)
        /\ \A t \in version \cup edit.add : Table(t) \in Dir'.names /\ Whole(t)'
    BY <1>5, <2>1, KeptTables
  <2>3. Final \in Views(Dir.current)'
    <3>1. /\ DiskTyped /\ Manifest(m) \in DOMAIN files /\ Log(n) \in DOMAIN files
          /\ Final \in Views(m) /\ Dir'.current = m
      <4>1. Manifest(Dir.current) \in DOMAIN files
        BY <1>2, Typed, DirOpen
      <4>2. Log(n) \in DOMAIN files /\ DiskTyped
        BY <1>2, <1>3, Typed
      <4>3. QED  BY <1>2, <1>3, <1>5, <4>1, <4>2, ServingFacts
    <3>2. files'[Manifest(m)] = files[Manifest(m)]
      <4>1. e \in RecordsOf(Log(n)[1])
        BY <1>4, RecordKinds
      <4>2. AppendRecord(Log(n), e)
        BY <1>1, <1>3
      <4>3. \A g \in DOMAIN files : g # Log(n) => files'[g] = files[g]
        BY <3>1, <4>1, <4>2, Appended
      <4>4. Manifest(m) # Log(n)
        BY Names
      <4>5. QED  BY <3>1, <4>3, <4>4
    <3>3. Views(m)' = Views(m)
      <4>1. \A r : View(r)' = View(r)
        BY DEF View, Tables, LastEdit, Numbered
      <4>2. QED  BY <3>2, <4>1 DEF Views, ViewOf, Recs, Manifest
    <3>4. Views(Dir.current)' = Views(m)'
      BY <3>1
    <3>5. QED  BY <3>1, <3>3, <3>4
  <2>4. TableEntries(Final.tables)' = TableEntries(Final.tables)
    <3>1. PICK v \in Views(manifestNo) : v = Final
      BY <1>2, ServingFacts
    <3>2. \A t \in v.tables : Table(t) \in DOMAIN files' \ {Log(n)}
      <4>1. \A t \in v.tables : Table(t) \in Dir.names
        BY <1>2, <3>1, ServingFacts DEF Sound
      <4>2. Dir.names \subseteq DOMAIN files'
        BY <1>5, NextDirs
      <4>3. QED  BY <4>1, <4>2, Names
    <3>3. TableEntries(v.tables)' = TableEntries(v.tables)
      BY <1>5, <3>2, FrameTables
    <3>4. TableEntries(Final.tables)' = TableEntries(v.tables)'
      BY <1>5, <3>1 DEF TableEntries, Recs, Table
    <3>5. QED  BY <3>1, <3>3, <3>4
  <2>5. \A t \in version \cup edit.add : Table(t) \notin {}
    OBVIOUS
  <2>6. QED  BY <1>5, <2>2, <2>3, <2>4, <2>5 DEF Firm
<1>8. HistoryTyped'
  <2>1. acked \subseteq 1..writes'
    BY <1>1, <1>2 DEF HistoryTyped
  <2>2. writes' \in 0..MaxWrites
    BY <1>1, <1>2, BoundsAssumption DEF HistoryTyped
  <2>3. QED  BY <1>1, <1>2, <2>1, <2>2 DEF HistoryTyped
<1>9. /\ writing'.op = writes' /\ writing'.op # 0 /\ writing'.op \notin acked /\ Entry(writing)' = e
      /\ writing'.seq = lastSeq + 1 /\ writing'.seq <= writing'.op
      /\ writing'.at = (IF sync THEN "sync" ELSE "insert") /\ writing'.sync = sync
      /\ writing' \in [op : Nat, seq : Nat, sync : BOOLEAN, at : {"idle", "sync", "insert"}]
  <2>1. writes + 1 \notin acked
    BY <1>2 DEF HistoryTyped
  <2>2. QED  BY <1>1, <1>2, <1>3, <2>1 DEF Entry
<1>10. LogEntries(logFileNo)' = LogEntries(logFileNo) \cup {e}
  <2>1. LogEntries(logFileNo)' = LogEntries(n)'
    BY <1>1, <1>3 DEF LogEntries, EntriesOf, Recs, Log
  <2>2. QED  BY <1>3, <1>5, <2>1
<1>11. WriteInv'
  <2>1. e \in LogEntries(logFileNo)'
    BY <1>10
  <2>2. QED  BY <1>1, <1>9, <2>1 DEF WriteInv
<1>12. LogInv'
  <2>1. Brought' = {} /\ TableEntries(version)' = TableEntries(version)
    <3>1. \A T : T \subseteq version \cup edit.add => TableEntries(T)' = TableEntries(T)
      BY <1>7 DEF Firm
    <3>2. TableEntries(version)' = TableEntries(version)
      BY <1>1, <3>1
    <3>3. QED  BY <1>1, <3>2 DEF Brought
  <2>2. LogsFor(Dir, logNo)' = LogsFor(Dir, logNo)
    BY <1>1, <1>5 DEF LogsFor, Log
  <2>3. \A l \in LogsFor(Dir, logNo)' \ {logFileNo'} :
          LogEntries(l)' \subseteq TableEntries(version)' \cup imm' \cup Brought'
    <3>1. SUFFICES ASSUME NEW l \in LogsFor(Dir, logNo), l # n
                   PROVE  LogEntries(l)' \subseteq TableEntries(version)' \cup imm' \cup Brought'
      BY <1>1, <1>3, <2>2
    <3>2. l \in Nat /\ Log(l) \in Dir.names /\ Log(l) \notin {} \cup {Log(n)}
      BY <3>1, Names DEF LogsFor
    <3>3. LogEntries(l)' = LogEntries(l)
      BY <1>5, <3>2, KeptLogs
    <3>4. QED  BY <1>1, <1>3, <2>1, <3>1, <3>3, LogFacts
  <2>4. \A x \in LogEntries(logFileNo)' :
          /\ \/ x \in mem'
             \/ writing'.op # 0 /\ x = Entry(writing)'
             \/ bgError' /\ x.op \notin acked' /\ x.op # writing'.op
          /\ x.seq <= lastSeq' \/ (writing'.op # 0 /\ x = Entry(writing)')
    BY <1>1, <1>2, <1>9, <1>10, LogFacts
  <2>5. \A x \in mem' \cup imm' \cup TableEntries(Final.tables)' : x.seq <= lastSeq'
    BY <1>1, <1>2, <1>7, LogFacts DEF Firm
  <2>6. /\ logFileNo' < nextFile' /\ Log(logFileNo') \in Dir'.names
        /\ \A l \in Nat : Log(l) \in Reachable(dirs)' =>
             l <= logFileNo' /\ (Log(l) \notin Dir'.names => l < logNo')
        /\ imm' \subseteq Full' /\ mem' \subseteq LogEntries(logFileNo)'
    BY <1>1, <1>5, <1>6, <1>10, LogFacts
  <2>7. QED  BY <2>3, <2>4, <2>5, <2>6 DEF LogInv, Log
<1>13. mem' \in SUBSET Update /\ imm' \in SUBSET Update /\ lastSeq' <= writes'
  BY <1>1, <1>2 DEF ProcessTyped
<1>14. \A t \in Nat : Table(t) \notin {}
  OBVIOUS
<1>15. QED
  BY <1>1, <1>2, <1>5, <1>7, <1>8, <1>9, <1>11, <1>12, <1>13, <1>14, WriterStep
(***************************************************************************)
(* The invariant.                                                          *)
(***************************************************************************)
LEMMA StutterSame ==
  ASSUME UNCHANGED vars
  PROVE  /\ UNCHANGED <<dirs, files, pc, job, up, version, nextFile, manifestNo, logNo, lastSeq>>
         /\ UNCHANGED <<descriptor, mem, imm, logFileNo, bgError, pending, logs, replay, maxSeq, save>>
         /\ UNCHANGED <<table, edit, inputs, output, garbage, writing, writes, acked, synced>>
         /\ UNCHANGED <<losses, faulty, events>>
         /\ Dir' = Dir /\ Dirs' = Dirs /\ Reachable(dirs)' = Reachable(dirs)
         /\ \A f : Recs(f)' = Recs(f)
         /\ \A m : Views(m)' = Views(m)
         /\ Final' = Final /\ Full' = Full /\ InUse' = InUse
         /\ \A T : TableEntries(T)' = TableEntries(T)
         /\ \A l : LogEntries(l)' = LogEntries(l) /\ SafeEntries(l)' = SafeEntries(l)
         /\ \A t : Whole(t)' = Whole(t)
         /\ \A n : LogsFor(Dir, n)' = LogsFor(Dir, n)
<1>1. /\ UNCHANGED <<dirs, files, pc, job, up, version, nextFile, manifestNo, logNo, lastSeq>>
      /\ UNCHANGED <<descriptor, mem, imm, logFileNo, bgError, pending, logs, replay, maxSeq, save>>
      /\ UNCHANGED <<table, edit, inputs, output, garbage, writing, writes, acked, synced>>
      /\ UNCHANGED <<losses, faulty, events>>
  BY DEF vars, diskVars, versionVars, memVars, openVars, workVars, history, bounds
<1>2. dirs' = dirs /\ files' = files
  BY <1>1
<1>3. Dir' = Dir /\ Reachable(dirs)' = Reachable(dirs)
  BY <1>2 DEF Dir, Reachable
<1>4. Dirs' = Dirs
  BY <1>2 DEF Dirs
<1>5. \A f : Recs(f)' = Recs(f)
  BY <1>2 DEF Recs
<1>6. \A r : View(r)' = View(r)
  BY DEF View, Tables, LastEdit, Numbered
<1>7. \A m : Views(m)' = Views(m)
  BY <1>2, <1>5, <1>6 DEF Views, ViewOf
<1>8. Final' = Final
  BY <1>3, <1>5, <1>6 DEF Final
<1>9. \A T : TableEntries(T)' = TableEntries(T)
  BY <1>5 DEF TableEntries
<1>10. \A l : LogEntries(l)' = LogEntries(l)
  BY <1>5 DEF LogEntries, EntriesOf
<1>11. \A l : SafeEntries(l)' = SafeEntries(l)
  BY <1>2, <1>5 DEF SafeEntries, EntriesOf
<1>12. \A t : Whole(t)' = Whole(t)
  BY <1>2, <1>5 DEF Whole
<1>13. \A n : LogsFor(Dir, n)' = LogsFor(Dir, n)
  BY <1>3 DEF LogsFor
<1>14. Full' = Full
  BY <1>3, <1>8, <1>9, <1>10, <1>13 DEF Full, Says, Logged
<1>15. InUse' = InUse
  BY <1>4, <1>7 DEF InUse
<1>16. QED
  BY <1>1, <1>3, <1>4, <1>5, <1>7, <1>8, <1>9, <1>10, <1>11, <1>12, <1>13, <1>14, <1>15

LEMMA StepStutter ==
  ASSUME IInv, UNCHANGED vars
  PROVE  IInv'
<1>1. /\ UNCHANGED <<pc, job, up, version, nextFile, manifestNo, logNo, lastSeq>>
      /\ UNCHANGED <<descriptor, mem, imm, logFileNo, bgError, pending, logs, replay, maxSeq, save>>
      /\ UNCHANGED <<table, edit, inputs, output, garbage, writing, writes, acked, synced>>
      /\ UNCHANGED <<losses, faulty, events>>
  BY StutterSame
<1>2. UNCHANGED diskVars
  BY StutterSame DEF diskVars
<1>3. DiskInv'
  <2>1. writes \in Nat
    BY Typed DEF HistoryTyped
  <2>2. Still({}, {})
    BY <1>2, StillSame
  <2>3. QED  BY <1>1, <2>1, <2>2, KeepDisk DEF Still
<1>4. ProcessTyped' /\ HistoryTyped' /\ PhaseInv'
  <2>1. ProcessTyped /\ HistoryTyped /\ PhaseInv
    BY DEF IInv, ProcessInv
  <2>2. ProcessTyped'
    BY <1>1, <2>1 DEF ProcessTyped
  <2>3. HistoryTyped'
    BY <1>1, <2>1 DEF HistoryTyped
  <2>4. Dir' = Dir
    BY StutterSame
  <2>5. PhaseInv'
    BY <1>1, <2>1, <2>4 DEF PhaseInv, Applying, Creating, Opening, Saving
  <2>6. QED  BY <2>2, <2>3, <2>5
<1>5. FreshInv' /\ CreateInv' /\ GarbageInv' /\ NumbersInv'
  <2>1. FreshInv /\ CreateInv /\ GarbageInv /\ NumbersInv
    BY DEF IInv, ProcessInv
  <2>2. FreshInv'
    <3>1. \A t : Fresh(t)' = Fresh(t)
      BY <1>1, StutterSame DEF Fresh
    <3>2. QED  BY <1>1, <2>1, <3>1 DEF FreshInv, Applying
  <2>3. CreateInv'
    BY <1>1, <2>1, StutterSame DEF CreateInv, Creating
  <2>4. GarbageInv' /\ NumbersInv'
    BY <1>1, <2>1, StutterSame DEF GarbageInv, NumbersInv
  <2>5. QED  BY <2>2, <2>3, <2>4
<1>6. RecoveredInv' /\ ReplayInv'
  <2>1. RecoveredInv /\ ReplayInv
    BY DEF IInv, ProcessInv
  <2>2. Opening' = Opening /\ Saving' = Saving
    BY <1>1 DEF Opening, Saving
  <2>3. RecoveredInv'
    BY <1>1, <2>1, <2>2, StutterSame DEF RecoveredInv
  <2>4. Replaying' = Replaying /\ OldestLog' = OldestLog
    BY <1>1 DEF Replaying, OldestLog, EntriesOf
  <2>5. ReplayInv'
    BY <1>1, <2>1, <2>2, <2>4, StutterSame DEF ReplayInv
  <2>6. QED  BY <2>3, <2>5
<1>7. SaveInv'
  <2>1. SaveInv
    BY DEF IInv, ProcessInv
  <2>2. Saving' = Saving /\ Snapshot' = Snapshot
    BY <1>1 DEF Saving, Snapshot, NoEdit
  <2>3. EditCounters' = EditCounters
    BY <1>1, StutterSame DEF EditCounters
  <2>4. QED  BY <1>1, <2>1, <2>2, <2>3, StutterSame DEF SaveInv
<1>8. ManifestInv'
  <2>1. ManifestInv
    BY DEF IInv, ProcessInv
  <2>2. Serving' = Serving /\ Recorded' = Recorded /\ Target' = Target /\ TargetLog' = TargetLog
    BY <1>1 DEF Serving, Recorded, Target, TargetLog
  <2>3. Brought' = Brought
    BY <1>1, StutterSame DEF Brought
  <2>4. QED  BY <1>1, <2>1, <2>2, <2>3, StutterSame DEF ManifestInv
<1>9. LogInv'
  <2>1. LogInv
    BY DEF IInv, ProcessInv
  <2>2. Serving' = Serving /\ Entry(writing)' = Entry(writing)
    BY <1>1 DEF Serving, Entry
  <2>3. Brought' = Brought
    BY <1>1, StutterSame DEF Brought
  <2>4. QED  BY <1>1, <2>1, <2>2, <2>3, StutterSame DEF LogInv
<1>10. VersionInv' /\ ApplyInv'
  <2>1. VersionInv /\ ApplyInv
    BY DEF IInv, ProcessInv
  <2>2. VersionInv'
    BY <1>1, <2>1, StutterSame DEF VersionInv, Serving
  <2>3. EditCounters' = EditCounters
    BY <1>1, StutterSame DEF EditCounters
  <2>4. ApplyInv'
    BY <1>1, <2>1, <2>3, StutterSame DEF ApplyInv, Applying
  <2>5. QED  BY <2>2, <2>4
<1>11. WriteInv'
  <2>1. WriteInv
    BY DEF IInv, ProcessInv
  <2>2. Entry(writing)' = Entry(writing)
    BY <1>1 DEF Entry
  <2>3. QED  BY <1>1, <2>1, <2>2, StutterSame DEF WriteInv
<1>12. QED
  BY <1>3, <1>4, <1>5, <1>6, <1>7, <1>8, <1>9, <1>10, <1>11 DEF IInv, ProcessInv

LEMMA StepInv ==
  ASSUME IInv, [Next]_vars, ReuseLogs = FALSE
  PROVE  IInv'
<1>1. CASE Open \/ RecoverVersions \/ RecoverFails
  BY <1>1, StepOpen, StepRecoverVersions, StepRecoverFails
<1>2. CASE ReadLog \/ ReplayTable \/ ReplayDone \/ OpenLog \/ OpenLogFails
  BY <1>2, StepReadLog, StepReplayTable, StepReplayDone, StepOpenLog, StepRecoverFails
<1>3. CASE TableBuilt \/ TableFails
  BY <1>3, StepTableBuilt, StepTableFails
<1>4. CASE BeginFlush \/ BeginCompaction \/ OpenOutput \/ FinishOutput \/ OutputFails
  BY <1>4, StepBeginFlush, StepBeginCompaction, StepOpenOutput, StepFinishOutput, StepOutputFails
<1>5. CASE CreateDB \/ LogAndApply \/ AppendEdit \/ SyncManifest \/ WriteTemp \/ RenameTemp
  BY <1>5, StepCreateDB, StepLogAndApply, StepAppendEdit, StepSyncManifest, StepWriteTemp, StepRenameTemp
<1>6. CASE ManifestFails \/ CurrentFails \/ Install
  BY <1>6, StepApplyFails, StepInstall
<1>7. CASE DeleteFile \/ Collected
  BY <1>7, StepDeleteFile, StepCollected
<1>8. CASE \E sync \in BOOLEAN : BeginWrite(sync)
  BY <1>8, StepBeginWrite
<1>9. CASE AppendFails \/ SyncWrite \/ SyncFails \/ FinishWrite \/ SwitchMemTable
  BY <1>9, StepAppendFails, StepSyncWrite, StepSyncFails, StepFinishWrite, StepSwitchMemTable
<1>10. CASE Crash
  BY <1>10, StepCrash
<1>11. CASE UNCHANGED vars
  BY <1>11, StepStutter
<1>12. QED  BY <1>1, <1>2, <1>3, <1>4, <1>5, <1>6, <1>7, <1>8, <1>9, <1>10, <1>11 DEF Next
\* Whatever has failed, and wherever the process or the machine has died: every
\* prefix of the MANIFEST that may be left is one that the files bear out, and the
\* thread of DB::Open and the background work hold what the files do not say yet.
\* For options.reuse_logs = false, the default.
THEOREM DurabilityInvariant ==
  ASSUME ReuseLogs = FALSE
  PROVE  Spec => []IInv
<1>1. Init => IInv
  BY InitInv
<1>2. IInv /\ [Next]_vars => IInv'
  BY StepInv
<1>3. QED  BY <1>1, <1>2, PTL DEF Spec

LEMMA OpensNow ==
  ASSUME IInv, Dir.current # 0
  PROVE  Intact
<1>1. /\ DirInv(Dir) /\ Manifest(Dir.current) \in Dir.names
      /\ Manifest(Dir.current) \in DOMAIN files /\ FilesTyped
  <2>1. DirInv(Dir) /\ Dir.names \subseteq DOMAIN files /\ FilesTyped
    BY Typed
  <2>2. QED  BY <2>1 DEF DirInv
<1>2. PICK f : f = Manifest(Dir.current)
  OBVIOUS
<1>3. Recs(f) \in Seq(VersionEdit) /\ files[f].durable \in Nat /\ files[f].durable <= Len(Recs(f))
  BY <1>1, <1>2 DEF FilesTyped, RecordsOf, Recs, Manifest
<1>4. Numbered(Recs(f)) # {}
  <2>1. PICK i \in 1..files[f].durable : Recs(f)[i].next # 0
    BY <1>1, <1>2 DEF DirInv, HasCounters
  <2>2. i \in DOMAIN Recs(f)
    BY <1>3, <2>1
  <2>3. QED  BY <2>1, <2>2 DEF Numbered
<1>5. \A t \in Final.tables : Table(t) \in Dir.names /\ Whole(t)
  BY FinalFacts DEF Sound
<1>6. Final.tables = Tables(Recs(f))
  BY <1>2 DEF Final, View
<1>7. \A t \in Tables(Recs(f)) : Table(t) \in Dir.names /\ Recs(Table(t)) # <<>>
  BY <1>5, <1>6 DEF Whole
<1>8. QED  BY <1>1, <1>2, <1>4, <1>7 DEF Intact

\* A crash anywhere leaves a database that opens (DBImpl::Recover): CURRENT names
\* a MANIFEST that VersionSet::Recover can read, and every table that it lists is
\* there and is not empty.  For options.reuse_logs = false.
THEOREM OpensAfterCrash ==
  ASSUME ReuseLogs = FALSE
  PROVE  Spec => []CanOpen
<1>1. IInv => CanOpen
  BY OpensNow DEF CanOpen
<1>2. QED  BY <1>1, DurabilityInvariant, PTL

\* What can be read is what the files say, without what a Write has logged and not
\* yet put into the memtable.
LEMMA EntriesDown ==
  ASSUME IInv, ~up
  PROVE  Entries = Full
<1>1. CASE Dir.current = 0
  BY <1>1 DEF Entries, Full
<1>2. CASE Dir.current # 0
  <2>1. Intact
    BY <1>2, OpensNow
  <2>2. /\ Final.tables = Tables(Recs(Manifest(Dir.current)))
        /\ Final.log = LastEdit(Recs(Manifest(Dir.current))).log
    BY DEF Final, View
  <2>3. \A k : LogsFrom(k) = LogsFor(Dir, k)
    BY LogNumbers
  <2>4. UNION {EntriesOf(Recs(Log(n))) : n \in LogsFrom(Final.log)} = Logged(Dir, Final.log)
    BY <2>3 DEF Logged, LogEntries
  <2>5. Entries = TableEntries(Final.tables) \cup Logged(Dir, Final.log)
    BY <1>2, <2>1, <2>2, <2>4 DEF Entries
  <2>6. QED  BY <1>2, <2>5 DEF Full, Says
<1>3. QED  BY <1>1, <1>2

LEMMA EntriesUp ==
  ASSUME IInv, up
  PROVE  /\ Entries = mem \cup imm \cup TableEntries(version) /\ Entries \subseteq Full
         /\ \A e \in Full \ Entries : /\ e \in LogEntries(logFileNo) /\ e.op \notin acked
                                      /\ bgError \/ (writing.op # 0 /\ e = Entry(writing))
<1>1. Entries = mem \cup imm \cup TableEntries(version)
  BY DEF Entries
<1>2. /\ Serving /\ Dir.current # 0 /\ Dir.current = manifestNo /\ Brought = {}
      /\ imm \subseteq Full /\ mem \subseteq LogEntries(logFileNo)
      /\ logFileNo \in Nat /\ logNo \in Nat
      /\ \A e \in LogEntries(logFileNo) : e \in Full
      /\ \A l \in LogsFor(Dir, logNo) \ {logFileNo} :
           LogEntries(l) \subseteq TableEntries(version) \cup imm
  BY LogFacts
<1>3. /\ TableEntries(version) \subseteq TableEntries(Final.tables)
      /\ TableEntries(Final.tables) \subseteq TableEntries(version) \cup imm
      /\ \A v \in Views(manifestNo) : logNo <= v.log
  <2>1. ManifestInv
    BY DEF IInv, ProcessInv
  <2>2. QED  BY <1>2, <2>1 DEF ManifestInv
<1>4. Full = TableEntries(Final.tables) \cup Logged(Dir, Final.log) /\ logNo <= Final.log /\ Final.log \in Nat
  BY <1>2, <1>3, FinalFacts DEF Says, ViewType
<1>5. Entries \subseteq Full
  BY <1>1, <1>2, <1>3, <1>4
<1>6. ASSUME NEW e \in Full, e \notin Entries PROVE e \in LogEntries(logFileNo)
  <2>1. e \notin TableEntries(Final.tables)
    BY <1>1, <1>3, <1>6
  <2>2. e \in Logged(Dir, Final.log)
    BY <1>4, <1>6, <2>1
  <2>3. PICK l \in LogsFor(Dir, Final.log) : e \in LogEntries(l)
    BY <2>2 DEF Logged
  <2>4. l \in LogsFor(Dir, logNo)
    BY <1>2, <1>4, <2>3 DEF LogsFor
  <2>5. QED  BY <1>1, <1>2, <1>6, <2>3, <2>4
<1>7. ASSUME NEW e \in LogEntries(logFileNo), e \notin Entries
      PROVE  e.op \notin acked /\ (bgError \/ (writing.op # 0 /\ e = Entry(writing)))
  <2>1. LogInv /\ WriteInv
    BY DEF IInv, ProcessInv
  <2>2. \/ writing.op # 0 /\ e = Entry(writing)
        \/ bgError /\ e.op \notin acked
    BY <1>1, <1>2, <1>7, <2>1 DEF LogInv
  <2>3. CASE writing.op # 0 /\ e = Entry(writing)
    <3>1. writing.op \notin acked
      BY <2>1, <2>3 DEF WriteInv, NotWriting
    <3>2. QED  BY <2>3, <3>1 DEF Entry
  <2>4. QED  BY <2>2, <2>3
<1>8. QED  BY <1>1, <1>5, <1>6, <1>7

LEMMA EntriesInFull == ASSUME IInv PROVE Entries \subseteq Full
<1>1. up \in BOOLEAN
  BY Typed DEF ProcessTyped
<1>2. QED  BY <1>1, EntriesDown, EntriesUp

\* Of two operations that can be read, or could be after DB::Open, the later Write
\* has the greater sequence number: SetLastSequence never goes back behind a
\* number that is in a table or a log.  For options.reuse_logs = false.
THEOREM SequencesOrdered ==
  ASSUME ReuseLogs = FALSE
  PROVE  Spec => []SequenceOrder
<1>1. IInv => SequenceOrder
  <2>1. IInv => FullInv
    BY DEF IInv, DiskInv
  <2>2. QED  BY <2>1, EntriesInFull DEF FullInv, SequenceOrder
<1>2. QED  BY <1>1, DurabilityInvariant, PTL
\* The numbers that are in use, by phase.
LEMMA NumbersTyped ==
  ASSUME IInv
  PROVE  /\ nextFile \in Nat
         /\ manifestNo \in 0..(nextFile + 1) /\ logNo \in 0..(nextFile + 1)
         /\ logFileNo \in 0..(nextFile + 1) /\ inputs \subseteq version
<1>1. ProcessTyped /\ PhaseInv /\ RecoveredInv /\ ReplayInv /\ SaveInv /\ ManifestInv /\ LogInv /\ VersionInv
  BY DEF IInv, ProcessInv
<1>2. nextFile \in Nat /\ manifestNo \in Nat /\ logNo \in Nat /\ logFileNo \in Nat
  BY <1>1 DEF ProcessTyped
<1>3. CASE Serving
  <2>1. /\ logFileNo < nextFile /\ Dir.current # 0 /\ Dir.current = manifestNo /\ inputs \subseteq version
        /\ \A v \in Views(manifestNo) : logNo <= v.log /\ v.log <= logFileNo
    BY <1>1, <1>3 DEF LogInv, ManifestInv, VersionInv
  <2>2. Final \in Views(manifestNo) /\ Final \in ViewType /\ Sound(Dir, Final)
    BY <2>1, FinalFacts
  <2>3. Final.next <= nextFile
    BY <1>3, FinalBelow
  <2>4. manifestNo < Final.next /\ Final.next \in Nat /\ Final.log \in Nat
    BY <2>1, <2>2 DEF Sound, ViewType
  <2>5. logNo <= Final.log /\ Final.log <= logFileNo
    BY <2>1, <2>2
  <2>6. QED  BY <1>2, <2>1, <2>3, <2>4, <2>5
<1>4. CASE Opening
  <2>1. ~up /\ inputs = {}
    BY <1>1, <1>4 DEF PhaseInv, Opening, Saving
  <2>2. Final \in ViewType /\ Final.next <= nextFile /\ Dir.current # 0
    BY <1>4, FinalBelow
  <2>3. logNo = Final.log /\ manifestNo < nextFile
    BY <1>1, <1>4 DEF RecoveredInv
  <2>4. Final.log < Final.next
    BY <2>2, FinalFacts DEF Sound
  <2>5. Final.log \in Nat /\ Final.next \in Nat
    BY <2>2 DEF ViewType
  <2>6. logFileNo = 0 \/ logFileNo < nextFile
    <3>1. CASE pc \in {"replay", "replaying", "build", "replayed"}
      BY <1>1, <1>4, <3>1 DEF ReplayInv
    <3>2. CASE pc \notin {"replay", "replaying", "build", "replayed"}
      <4>1. Saving \/ (~up /\ job = "open" /\ pc = "apply")
        BY <1>4, <3>2 DEF Opening
      <4>2. QED  BY <1>1, <4>1 DEF SaveInv
    <3>3. QED  BY <3>1, <3>2
  <2>7. QED  BY <1>2, <2>1, <2>2, <2>3, <2>4, <2>5, <2>6
<1>5. CASE ~Serving /\ ~Opening
  <2>1. pc \in {"down", "recover"} \/ Creating
    BY <1>1, <1>5 DEF PhaseInv, Serving
  <2>2. ~up
    BY <1>5 DEF Serving
  <2>3. logFileNo = 0 /\ logNo = 0 /\ manifestNo <= 1 /\ inputs = {}
    BY <1>1, <2>1, <2>2 DEF PhaseInv
  <2>4. QED  BY <1>2, <2>3
<1>6. QED  BY <1>3, <1>4, <1>5

\* A table that is being written has a number of its own, which is not one of the
\* version.
LEMMA PendingTyped ==
  ASSUME IInv
  PROVE  /\ output \in Nat /\ output < nextFile
         /\ \A t \in pending : t < nextFile /\ t \notin version
<1>1. ProcessTyped /\ PhaseInv /\ FreshInv /\ ApplyInv
  BY DEF IInv, ProcessInv
<1>2. output \in Nat /\ nextFile \in Nat /\ nextFile >= 2
  BY <1>1 DEF ProcessTyped
<1>3. ASSUME output # 0 PROVE output < nextFile /\ output \notin version
  <2>1. CASE Applying /\ job = "merge"
    <3>1. output \in edit.add
      BY <1>1, <2>1 DEF ApplyInv
    <3>2. QED  BY <1>1, <2>1, <3>1 DEF ApplyInv
  <2>2. CASE ~(Applying /\ job = "merge")
    BY <1>1, <1>3, <2>2 DEF FreshInv, Fresh
  <2>3. QED  BY <2>1, <2>2
<1>4. ASSUME pc = "build" PROVE table.no < nextFile /\ table.no \notin version
  BY <1>1, <1>4 DEF FreshInv, Fresh
<1>5. ASSUME NEW t \in pending PROVE t < nextFile /\ t \notin version
  <2>1. (t = table.no /\ pc = "build") \/ (t = output /\ output # 0)
    BY <1>1, <1>5 DEF PhaseInv
  <2>2. QED  BY <1>3, <1>4, <2>1
<1>6. QED  BY <1>2, <1>3, <1>5

\* Types, and what NewFileNumber and MarkFileNumberUsed keep: while the database
\* is open its log is there, no table that is being written is in the version, and
\* if nothing has failed no log or table has a number that is still to be given
\* out, also when the MANIFEST says nothing of it.  For options.reuse_logs = false.
THEOREM TypeCorrect ==
  ASSUME ReuseLogs = FALSE
  PROVE  Spec => []TypeOK
<1>1. ASSUME IInv PROVE TypeOK
  <2>1. ProcessTyped /\ HistoryTyped
    BY <1>1, Typed
  <2>2. /\ nextFile \in Nat /\ inputs \subseteq version
        /\ {manifestNo, logNo, logFileNo, output} \subseteq Numbering
    BY <1>1, NumbersTyped, PendingTyped DEF Numbering
  <2>3. version \cup pending \cup inputs \cup edit.add \subseteq Numbering
    <3>1. version \subseteq Nat /\ pending \subseteq Nat /\ edit.add \subseteq Nat
      BY <2>1 DEF ProcessTyped, VersionEdit
    <3>2. \A t \in version \cup edit.add : t < nextFile
      BY <1>1, Present
    <3>3. \A t \in pending : t < nextFile
      BY <1>1, PendingTyped
    <3>4. \A t \in Nat : t < nextFile => t \in Numbering
      BY <2>2 DEF Numbering
    <3>5. QED  BY <2>2, <3>1, <3>2, <3>3, <3>4
  <2>4. {up, descriptor, bgError, save, faulty} \subseteq BOOLEAN
    BY <2>1 DEF ProcessTyped, HistoryTyped
  <2>5. writing.at \in {"idle", "sync", "insert"} /\ pc \in Places
        /\ job \in {"none", "new", "open", "flush", "merge"}
    BY <2>1 DEF ProcessTyped
  <2>6. \A f \in garbage : f[1] \in {"log", "table", "manifest", "temp"} /\ f[2] \in Nat
    BY <2>1 DEF ProcessTyped, FileNames
  <2>7. ASSUME up
        PROVE  /\ Log(logFileNo) \in Dir.names /\ pending \cap version = {}
               /\ ~faulty => \A n \in Numbers("log") \cup Numbers("table") : n < nextFile
    <3>1. /\ Log(logFileNo) \in Dir.names /\ logFileNo \in Nat /\ logFileNo < nextFile
          /\ \A l \in Nat : Log(l) \in Dir.names => l <= logFileNo
      BY <1>1, <2>7, LogFacts, Typed
    <3>2. \A n \in Numbers("log") : n \in Nat /\ Log(n) \in Dir.names
      BY <1>1, LogNumbers
    <3>3. \A n \in Numbers("log") : n < nextFile
      BY <2>2, <3>1, <3>2
    <3>4. ASSUME ~faulty, NEW n \in Numbers("table") PROVE n < nextFile
      <4>1. Dir.names \subseteq FileNames
        BY <1>1, Typed DEF Directory
      <4>2. PICK f \in Dir.names : f[1] = "table" /\ n = f[2]
        BY <3>4 DEF Numbers
      <4>3. n \in Nat /\ Table(n) = f
        BY <4>1, <4>2 DEF FileNames, Table
      <4>4. NumbersInv
        BY <1>1 DEF IInv, ProcessInv
      <4>5. QED  BY <2>7, <3>4, <4>2, <4>3, <4>4 DEF NumbersInv
    <3>5. pending \cap version = {}
      BY <1>1, PendingTyped
    <3>6. QED  BY <3>1, <3>3, <3>4, <3>5
  <2>8. writes \in 0..MaxWrites /\ events \in 0..MaxEvents
    BY <2>1 DEF HistoryTyped
  <2>9. QED  BY <2>2, <2>3, <2>4, <2>5, <2>6, <2>7, <2>8 DEF TypeOK
<1>2. QED  BY <1>1, DurabilityInvariant, PTL
(***************************************************************************)
(* DurableStore: before DB::Open returns no step but a power failure       *)
(* changes what the files say.                                             *)
(***************************************************************************)
LEMMA OwnManifest ==
  ASSUME IInv, ~up, pc \in {"create", "apply", "append", "sync", "temp"}
  PROVE  /\ manifestNo \in Nat /\ \A d \in Dirs : d.current # manifestNo
         /\ edit \in VersionEdit
         /\ pc \in {"append", "sync"} => Manifest(manifestNo) \in Dir.names
<1>1. ProcessTyped
  BY Typed
<1>2. Creating \/ job = "open"
  BY <1>1 DEF IInv, ProcessInv, PhaseInv, Applying, Creating, Opening, Saving
<1>3. manifestNo \in Nat /\ edit \in VersionEdit
  BY <1>1 DEF ProcessTyped
<1>4. CASE Creating
  <2>1. manifestNo = 1 /\ \A d \in Dirs : d.current = 0
    BY <1>4, CreateFacts
  <2>2. pc \in {"append", "sync"} => Manifest(1) \in Dir.names
    BY <1>4, CreateFacts
  <2>3. QED  BY <1>3, <2>1, <2>2
<1>5. CASE ~Creating /\ job = "open"
  <2>1. pc # "create"
    BY <1>1, <1>5 DEF IInv, ProcessInv, PhaseInv, Applying, Creating, Opening, Saving
  <2>2. \A d \in Dirs : d.current # manifestNo
    BY <1>5, <2>1, SaveFacts
  <2>3. pc \in {"append", "sync"} => Manifest(manifestNo) \in Dir.names
    BY <1>5, <2>1, SaveFacts
  <2>4. QED  BY <1>3, <2>2, <2>3
<1>6. QED  BY <1>2, <1>4, <1>5

LEMMA DownManifest ==
  ASSUME IInv, ~up, CreateDB \/ LogAndApply \/ AppendEdit \/ SyncManifest \/ WriteTemp
  PROVE  Full' = Full
<1>1. pc \in {"create", "apply", "append", "sync", "temp"}
  BY DEF CreateDB, LogAndApply, AppendEdit, SyncManifest, WriteTemp
<1>2. PICK m, e, recs : m = manifestNo /\ e = edit /\ recs = <<Snapshot>>
  OBVIOUS
<1>3. /\ m \in Nat /\ (\A d \in Dirs : d.current # m) /\ e \in VersionEdit
      /\ pc \in {"append", "sync"} => Manifest(m) \in Dir.names
  BY <1>1, <1>2, OwnManifest
<1>4. CASE CreateDB
  <2>1. NewWritableFile(Manifest(m), <<>>) /\ <<>> \in Seq(VersionEdit)
    BY <1>2, <1>4 DEF CreateDB
  <2>2. Still({Manifest(m)}, {Manifest(m)})
    BY <1>3, <2>1, StillManifest
  <2>3. QED  BY <2>2, StillFacts
<1>5. CASE LogAndApply
  <2>1. UNCHANGED diskVars \/ NewWritableFile(Manifest(m), recs)
    BY <1>2, <1>5 DEF LogAndApply
  <2>2. recs \in Seq(VersionEdit)
    <3>1. Snapshot \in VersionEdit
      BY Typed DEF Snapshot, NoEdit, VersionEdit, ProcessTyped
    <3>2. PICK s \in VersionEdit : s = Snapshot
      BY <3>1
    <3>3. <<s>> \in Seq(VersionEdit)
      OBVIOUS
    <3>4. QED  BY <1>2, <3>2, <3>3
  <2>3. CASE UNCHANGED diskVars
    <3>1. Still({}, {})
      BY <2>3, StillSame
    <3>2. QED  BY <3>1, StillFacts
  <2>4. CASE NewWritableFile(Manifest(m), recs)
    <3>1. Still({Manifest(m)}, {Manifest(m)})
      BY <1>3, <2>2, <2>4, StillManifest
    <3>2. QED  BY <3>1, StillFacts
  <2>5. QED  BY <2>1, <2>3, <2>4
<1>6. CASE AppendEdit
  <2>1. AppendRecord(Manifest(m), e) /\ Manifest(m) \in Dir.names
    BY <1>2, <1>3, <1>6 DEF AppendEdit
  <2>2. Still({}, {Manifest(m)})
    BY <1>3, <2>1, StillAppend
  <2>3. QED  BY <2>2, StillFacts
<1>7. CASE SyncManifest
  <2>1. SyncFile(Manifest(m), Recs(Manifest(m))) /\ Manifest(m) \in Dir.names
    BY <1>2, <1>3, <1>7 DEF SyncManifest
  <2>2. Still({}, {})
    <3>1. PICK f : f = Manifest(m)
      OBVIOUS
    <3>2. QED  BY <2>1, <3>1, StillSync
  <2>3. QED  BY <2>2, StillFacts
<1>8. CASE WriteTemp
  <2>1. WriteFileSync(Temp(m), m)
    BY <1>2, <1>8 DEF WriteTemp
  <2>2. Still({Temp(m)}, {Temp(m)})
    BY <1>3, <2>1, StillTemp
  <2>3. QED  BY <2>2, StillFacts
<1>9. QED  BY <1>4, <1>5, <1>6, <1>7, <1>8

\* The tables that are made by an open or in the background.
LEMMA NewTables ==
  ASSUME IInv, ReplayTable \/ TableBuilt \/ BeginFlush \/ OpenOutput \/ FinishOutput
  PROVE  \E X, Y : Still(X, Y)
<1>1. ProcessTyped /\ FreshInv /\ PhaseInv
  BY Typed DEF IInv, ProcessInv
<1>2. CASE ReplayTable \/ BeginFlush \/ OpenOutput
  <2>1. Opening \/ Serving
    <3>1. CASE ReplayTable
      BY <3>1, ReplayFacts DEF ReplayTable
    <3>2. CASE BeginFlush
      BY <3>2 DEF BeginFlush, Serving
    <3>3. CASE OpenOutput
      BY <1>1, <3>3 DEF OpenOutput, Serving, PhaseInv, Creating, Opening, Saving
    <3>4. QED  BY <1>2, <3>1, <3>2, <3>3
  <2>2. NewWritableFile(Table(nextFile), <<>>)
    BY <1>2 DEF ReplayTable, BeginFlush, OpenOutput, NewTable
  <2>3. QED  BY <2>1, <2>2, StillTable
<1>3. CASE TableBuilt
  <2>1. PICK t, es : t = table.no /\ es = table.entries
    OBVIOUS
  <2>2. t \in Nat /\ es \in SUBSET Update
    BY <1>1, <2>1 DEF ProcessTyped
  <2>3. Fresh(t) /\ SyncFile(Table(t), <<es>>)
    BY <1>1, <1>3, <2>1 DEF TableBuilt, FreshInv
  <2>4. QED  BY <2>2, <2>3, StillBuilt
<1>4. CASE FinishOutput
  <2>1. PICK t, es : t = output /\ es = TableEntries(inputs)
    OBVIOUS
  <2>2. pc = "merge" /\ t # 0 /\ up
    BY <1>1, <1>4, <2>1 DEF FinishOutput, PhaseInv, Creating, Opening, Saving
  <2>3. t \in Nat /\ Fresh(t) /\ SyncFile(Table(t), <<es>>)
    BY <1>1, <1>4, <2>1, <2>2 DEF FinishOutput, FreshInv, ProcessTyped, Applying
  <2>4. es \in SUBSET Update
    <3>1. inputs \subseteq version
      BY NumbersTyped
    <3>2. TableEntries(inputs) \subseteq TableEntries(version)
      BY <3>1 DEF TableEntries
    <3>3. TableEntries(version) \subseteq Full
      BY <2>2, EntriesUp
    <3>4. QED  BY <2>1, <3>2, <3>3, FullTyped
  <2>5. QED  BY <2>3, <2>4, StillBuilt
<1>5. QED  BY <1>2, <1>3, <1>4

LEMMA DownStep ==
  ASSUME IInv, Next, ~Crash, ~up, ~up'
  PROVE  Full' = Full
<1>1. WriteInv /\ PhaseInv /\ ProcessTyped
  BY Typed DEF IInv, ProcessInv
<1>2. CASE \/ Open \/ RecoverVersions \/ RecoverFails \/ ReadLog \/ ReplayDone \/ OpenLogFails \/ Install
  <2>1. UNCHANGED diskVars
    BY <1>2 DEF Open, RecoverVersions, RecoverFails, ReadLog, ReplayDone, OpenLogFails, Install
  <2>2. Still({}, {})
    BY <2>1, StillSame
  <2>3. QED  BY <2>2, StillFacts
<1>3. CASE ReplayTable \/ TableBuilt
  <2>1. PICK X, Y : Still(X, Y)
    BY <1>3, NewTables
  <2>2. QED  BY <2>1, StillFacts
<1>4. CASE OpenLog \/ TableFails \/ ManifestFails \/ CurrentFails \/ RenameTemp \/ DeleteFile
  BY <1>4, StepOpenLog, StepTableFails, StepApplyFails, StepRenameTemp, StepDeleteFile
<1>5. CASE CreateDB \/ LogAndApply \/ AppendEdit \/ SyncManifest \/ WriteTemp
  BY <1>5, DownManifest
<1>6. ~BeginFlush /\ ~BeginCompaction /\ ~OpenOutput /\ ~FinishOutput /\ ~OutputFails /\ ~Collected
  BY <1>1 DEF BeginFlush, BeginCompaction, OpenOutput, FinishOutput, OutputFails, Collected, PhaseInv,
              Creating, Opening, Saving
<1>7. ~AppendFails /\ ~SwitchMemTable /\ \A sync : ~BeginWrite(sync)
  BY DEF AppendFails, SwitchMemTable, BeginWrite, Writable
<1>8. ~SyncWrite /\ ~SyncFails /\ ~FinishWrite
  BY <1>1 DEF SyncWrite, SyncFails, FinishWrite, WriteInv
<1>9. QED  BY <1>2, <1>3, <1>4, <1>5, <1>6, <1>7, <1>8 DEF Next
(***************************************************************************)
(* DurableStore: while the database is open only a Write that ends changes *)
(* what can be read.                                                       *)
(***************************************************************************)
LEMMA OpenedPlaces ==
  ASSUME IInv, Next, up
  PROVE  \/ TableBuilt \/ TableFails \/ BeginFlush \/ BeginCompaction \/ OpenOutput \/ FinishOutput
         \/ OutputFails \/ LogAndApply \/ AppendEdit \/ SyncManifest \/ ManifestFails \/ Install
         \/ DeleteFile \/ Collected \/ (\E sync \in BOOLEAN : BeginWrite(sync))
         \/ AppendFails \/ SyncWrite \/ SyncFails \/ FinishWrite \/ SwitchMemTable \/ Crash
<1>1. pc \in {"idle", "merge", "build", "delete", "apply", "append", "sync", "install"}
  BY UpFacts
<1>2. /\ ~Open /\ ~RecoverVersions /\ ~RecoverFails /\ ~ReadLog /\ ~ReplayTable /\ ~ReplayDone
      /\ ~OpenLog /\ ~OpenLogFails /\ ~CreateDB /\ ~WriteTemp /\ ~RenameTemp /\ ~CurrentFails
  BY <1>1 DEF Open, RecoverVersions, RecoverFails, ReadLog, ReplayTable, ReplayDone, OpenLog, OpenLogFails,
              CreateDB, WriteTemp, RenameTemp, CurrentFails
<1>3. QED  BY <1>2 DEF Next

LEMMA AppendsElsewhere ==
  ASSUME IInv, NEW f, NEW r, AppendRecord(f, r), \A t : f # Table(t)
  PROVE  \A T : T \subseteq version \cup edit.add => TableEntries(T)' = TableEntries(T)
<1>1. \A t \in version \cup edit.add : Table(t) \in DOMAIN files
  BY Present, Typed
<1>2. files' = [files EXCEPT ![f].recs = Append(@, r)]
  BY DEF AppendRecord
<1>3. \A t \in version \cup edit.add : files'[Table(t)] = files[Table(t)]
  BY <1>1, <1>2
<1>4. \A t \in version \cup edit.add : Recs(Table(t))' = Recs(Table(t))
  BY <1>3 DEF Recs, Table
<1>5. QED  BY <1>4 DEF TableEntries

LEMMA UpTables ==
  ASSUME IInv, Next, ~Crash, up, up'
  PROVE  \A T : T \subseteq version \cup edit.add => TableEntries(T)' = TableEntries(T)
<1>1. CASE \/ BeginCompaction \/ OutputFails \/ AppendFails \/ SyncFails \/ FinishWrite \/ TableFails
           \/ ManifestFails \/ DeleteFile \/ Collected \/ Install
  <2>1. UNCHANGED files
    BY <1>1 DEF BeginCompaction, OutputFails, AppendFails, SyncFails, FinishWrite, TableFails, ManifestFails,
                ApplyFails, DeleteFile, RemoveFile, Collected, Install, diskVars
  <2>2. QED  BY <2>1, SameFiles
<1>2. CASE LogAndApply
  <2>1. Applying
    BY <1>2 DEF LogAndApply, Applying
  <2>2. UNCHANGED files
    BY <1>2, <2>1, ApplyFacts DEF LogAndApply, diskVars
  <2>3. QED  BY <2>2, SameFiles
<1>3. CASE TableBuilt \/ BeginFlush \/ OpenOutput \/ FinishOutput
  <2>1. PICK X, Y : Still(X, Y)
    BY <1>3, NewTables
  <2>2. QED  BY <2>1, StillFacts
<1>4. CASE SyncManifest \/ SyncWrite
  <2>1. Manifest(manifestNo) \in Dir.names /\ Log(logFileNo) \in Dir.names
    BY LogFacts, Typed DEF DirInv
  <2>2. PICK f : f \in Dir.names /\ SyncFile(f, Recs(f))
    BY <1>4, <2>1 DEF SyncManifest, SyncWrite
  <2>3. Still({}, {})
    BY <2>2, StillSync
  <2>4. QED  BY <2>3, StillFacts
<1>5. CASE AppendEdit \/ \E sync \in BOOLEAN : BeginWrite(sync)
  <2>1. \E f, r : AppendRecord(f, r) /\ \A t : f # Table(t)
    <3>1. CASE AppendEdit
      <4>1. AppendRecord(Manifest(manifestNo), edit)
        BY <3>1 DEF AppendEdit
      <4>2. \A t : Manifest(manifestNo) # Table(t)
        BY Names
      <4>3. QED  BY <4>1, <4>2
    <3>2. CASE \E sync \in BOOLEAN : BeginWrite(sync)
      <4>1. \E r : AppendRecord(Log(logFileNo), r)
        BY <3>2 DEF BeginWrite
      <4>2. \A t : Log(logFileNo) # Table(t)
        BY Names
      <4>3. QED  BY <4>1, <4>2
    <3>3. QED  BY <1>5, <3>1, <3>2
  <2>2. PICK f, r : AppendRecord(f, r) /\ \A t : f # Table(t)
    BY <2>1
  <2>3. QED  BY <2>2, AppendsElsewhere
<1>6. CASE SwitchMemTable
  <2>1. PICK f : f = Log(nextFile)
    OBVIOUS
  <2>2. NewWritableFile(f, <<>>) /\ f \in FileNames /\ <<>> \in Seq(RecordsOf(f[1]))
    BY <1>6, <2>1, Typed DEF SwitchMemTable, ProcessTyped, FileNames, Log
  <2>3. DiskTyped' /\ Frame({f}, {f})
    BY <2>2, NewFile, Typed
  <2>4. \A t \in version \cup edit.add : Table(t) \notin {f} \cup {f}
    BY <2>1, Names
  <2>5. QED  BY <2>3, <2>4, KeptTables
<1>7. QED
  BY <1>1, <1>2, <1>3, <1>4, <1>5, <1>6, OpenedPlaces

\* What the memtables and the tables hold together, over every step.
LEMMA UpStep ==
  ASSUME IInv, IInv', Next, ~Crash, up, up'
  PROVE  \/ Entries' = Entries /\ UNCHANGED <<acked, synced, losses>>
         \/ /\ FinishWrite /\ Entries' = Entries \cup {Entry(writing)}
<1>1. /\ Entries = mem \cup imm \cup TableEntries(version)
      /\ Entries' = mem' \cup imm' \cup TableEntries(version)'
  BY DEF Entries
<1>2. \A T : T \subseteq version \cup edit.add => TableEntries(T)' = TableEntries(T)
  BY UpTables
<1>3. CASE Install
  <2>1. /\ version' = (version \ edit.del) \cup edit.add /\ mem' = mem
        /\ (IF job = "flush" THEN imm' = {} ELSE imm' = imm)
        /\ UNCHANGED <<acked, synced, losses>>
    BY <1>3 DEF Install, history
  <2>2. Applying /\ pc = "install"
    BY <1>3 DEF Install, Applying
  <2>3. /\ job \in {"flush", "merge"} /\ inputs \subseteq version
        /\ job = "flush" => TableEntries(edit.add) = imm /\ edit.del = {}
        /\ job = "merge" => edit.del = inputs /\ TableEntries(edit.add) = TableEntries(inputs)
    BY <2>2, ApplyFacts
  <2>4. PICK A, D, V, W : A = edit.add /\ D = edit.del /\ V = version /\ W = (version \ D) \cup A
    OBVIOUS
  <2>5. TableEntries(version)' = TableEntries(W)
    <3>1. TableEntries(W)' = TableEntries(W)
      BY <1>2, <2>4
    <3>2. version' = W
      BY <2>1, <2>4
    <3>3. TableEntries(version)' = TableEntries(W)'
      BY <3>2 DEF TableEntries
    <3>4. QED  BY <3>1, <3>3
  <2>6. TableEntries(W) = TableEntries(V \ D) \cup TableEntries(A)
    BY <2>4 DEF TableEntries
  <2>7. CASE job = "flush"
    <3>1. V \ D = V
      BY <2>3, <2>4, <2>7
    <3>2. QED  BY <1>1, <2>1, <2>3, <2>4, <2>5, <2>6, <2>7, <3>1
  <2>8. CASE job = "merge"
    <3>1. TableEntries(V) = TableEntries(V \ D) \cup TableEntries(D)
      <4>1. V = (V \ D) \cup D
        BY <2>3, <2>4, <2>8
      <4>2. QED  BY <4>1 DEF TableEntries
    <3>2. TableEntries(A) = TableEntries(D)
      BY <2>3, <2>4, <2>8
    <3>3. QED  BY <1>1, <2>1, <2>4, <2>5, <2>6, <2>8, <3>1, <3>2
  <2>9. QED  BY <2>3, <2>7, <2>8
<1>4. ASSUME version' = version
      PROVE  TableEntries(version)' = TableEntries(version)
  <2>1. PICK V : V = version
    OBVIOUS
  <2>2. TableEntries(V)' = TableEntries(V)
    BY <1>2, <2>1
  <2>3. TableEntries(version)' = TableEntries(V)'
    BY <1>4, <2>1 DEF TableEntries
  <2>4. QED  BY <2>1, <2>2, <2>3
<1>5. CASE FinishWrite
  BY <1>1, <1>4, <1>5 DEF FinishWrite
<1>6. CASE \/ TableBuilt \/ BeginFlush \/ BeginCompaction \/ OpenOutput \/ FinishOutput \/ LogAndApply
           \/ AppendEdit \/ SyncManifest \/ DeleteFile \/ Collected
  <2>1. UNCHANGED <<version, mem, imm, acked, synced, losses>>
    BY <1>6 DEF TableBuilt, BeginFlush, BeginCompaction, OpenOutput, FinishOutput, LogAndApply, AppendEdit,
                SyncManifest, DeleteFile, Collected, versionVars, memVars, history
  <2>2. QED  BY <1>1, <1>4, <2>1
<1>7. CASE OutputFails \/ TableFails \/ ManifestFails
  <2>1. UNCHANGED <<version, mem, imm, acked, synced, losses>>
    BY <1>7 DEF OutputFails, TableFails, ManifestFails, ApplyFails, RecordBackgroundError, versionVars, history
  <2>2. QED  BY <1>1, <1>4, <2>1
<1>8. CASE (\E sync \in BOOLEAN : BeginWrite(sync)) \/ AppendFails \/ SyncWrite \/ SyncFails
  <2>1. UNCHANGED <<version, mem, imm, acked, synced, losses>>
    BY <1>8 DEF BeginWrite, AppendFails, SyncWrite, SyncFails, versionVars, memVars, history
  <2>2. QED  BY <1>1, <1>4, <2>1
<1>9. CASE SwitchMemTable
  <2>1. UNCHANGED <<version, acked, synced, losses>> /\ imm = {} /\ imm' = mem /\ mem' = {}
    BY <1>9 DEF SwitchMemTable, history
  <2>2. QED  BY <1>1, <1>4, <2>1
<1>10. QED
  BY <1>3, <1>5, <1>6, <1>7, <1>8, <1>9, OpenedPlaces
\* Only FinishWrite acknowledges, only Collected opens, only Crash closes.
LEMMA OnlyFinish ==
  ASSUME IInv, Next, ~Crash, ~FinishWrite
  PROVE  UNCHANGED <<acked, synced, losses>>
<1>1. CASE \/ Open \/ RecoverVersions \/ RecoverFails \/ ReadLog \/ ReplayTable \/ ReplayDone \/ OpenLog
           \/ OpenLogFails
  BY <1>1 DEF Open, RecoverVersions, RecoverFails, ReadLog, ReplayTable, ReplayDone, OpenLog, OpenLogFails,
              OpenFails, history
<1>2. CASE TableBuilt \/ TableFails \/ ManifestFails \/ CurrentFails
  BY <1>2 DEF TableBuilt, TableFails, ManifestFails, CurrentFails, ApplyFails, RecordBackgroundError,
              OpenFails, history
<1>3. CASE BeginFlush \/ BeginCompaction \/ OpenOutput \/ FinishOutput \/ OutputFails
  BY <1>3 DEF BeginFlush, BeginCompaction, OpenOutput, FinishOutput, OutputFails, history
<1>4. CASE CreateDB \/ LogAndApply \/ AppendEdit \/ SyncManifest \/ WriteTemp \/ RenameTemp
  BY <1>4 DEF CreateDB, LogAndApply, AppendEdit, SyncManifest, WriteTemp, RenameTemp, history
<1>5. CASE Install \/ DeleteFile \/ Collected
  BY <1>5 DEF Install, DeleteFile, Collected, history
<1>6. CASE (\E sync \in BOOLEAN : BeginWrite(sync)) \/ AppendFails \/ SyncWrite \/ SyncFails \/ SwitchMemTable
  BY <1>6 DEF BeginWrite, AppendFails, SyncWrite, SyncFails, SwitchMemTable, history
<1>7. QED  BY <1>1, <1>2, <1>3, <1>4, <1>5, <1>6 DEF Next

LEMMA StaysUp ==
  ASSUME IInv, Next, ~Crash, up
  PROVE  up'
<1>1. CASE TableBuilt \/ TableFails \/ ManifestFails \/ BeginFlush \/ BeginCompaction \/ OpenOutput
           \/ FinishOutput \/ OutputFails
  BY <1>1 DEF TableBuilt, TableFails, ManifestFails, ApplyFails, RecordBackgroundError, BeginFlush,
              BeginCompaction, OpenOutput, FinishOutput, OutputFails
<1>2. CASE LogAndApply \/ AppendEdit \/ SyncManifest \/ Install \/ DeleteFile \/ Collected
  BY <1>2 DEF LogAndApply, AppendEdit, SyncManifest, Install, DeleteFile, Collected
<1>3. CASE \/ (\E sync \in BOOLEAN : BeginWrite(sync)) \/ AppendFails \/ SyncWrite \/ SyncFails \/ FinishWrite
           \/ SwitchMemTable
  BY <1>3 DEF BeginWrite, AppendFails, SyncWrite, SyncFails, FinishWrite, SwitchMemTable
<1>4. QED  BY <1>1, <1>2, <1>3, OpenedPlaces

LEMMA OnlyCollected ==
  ASSUME IInv, Next, ~up, up'
  PROVE  Collected
<1>1. ~Crash /\ ~RecoverFails /\ ~OpenLogFails
  BY DEF Crash, RecoverFails, OpenLogFails, OpenFails, Forget
<1>2. ~TableFails /\ ~ManifestFails /\ ~CurrentFails
  BY DEF TableFails, ManifestFails, CurrentFails, ApplyFails, OpenFails, Forget
<1>3. /\ ~Open /\ ~RecoverVersions /\ ~ReadLog /\ ~ReplayTable /\ ~ReplayDone /\ ~OpenLog
      /\ ~TableBuilt /\ ~BeginFlush /\ ~BeginCompaction /\ ~OpenOutput /\ ~FinishOutput /\ ~OutputFails
  BY DEF Open, RecoverVersions, ReadLog, ReplayTable, ReplayDone, OpenLog, TableBuilt, BeginFlush,
         BeginCompaction, OpenOutput, FinishOutput, OutputFails
<1>4. /\ ~CreateDB /\ ~LogAndApply /\ ~AppendEdit /\ ~SyncManifest /\ ~WriteTemp /\ ~RenameTemp
      /\ ~Install /\ ~DeleteFile
  BY DEF CreateDB, LogAndApply, AppendEdit, SyncManifest, WriteTemp, RenameTemp, Install, DeleteFile
<1>5. /\ (\A sync : ~BeginWrite(sync)) /\ ~AppendFails /\ ~SyncWrite /\ ~SyncFails /\ ~FinishWrite
      /\ ~SwitchMemTable
  BY DEF BeginWrite, AppendFails, SyncWrite, SyncFails, FinishWrite, SwitchMemTable
<1>6. QED  BY <1>1, <1>2, <1>3, <1>4, <1>5 DEF Next

(***************************************************************************)
(* Durability implements DurableStore.                                     *)
(***************************************************************************)
LEMMA SyncedThere ==
  ASSUME IInv
  PROVE  synced \subseteq OpsOf(Full)
<1>1. CASE Dir.current = 0
  BY <1>1, Typed DEF DirInv
<1>2. CASE Dir.current # 0
  <2>1. synced \subseteq OpsOf(IsSure(Dir, Final)) /\ Full = Says(Dir, Final)
    BY <1>2, FinalFacts DEF Sound
  <2>2. \A l \in LogsFor(Dir, Final.log) : SafeEntries(l) \subseteq LogEntries(l)
    BY Typed, SafeLogged DEF LogsFor
  <2>3. LoggedSafely(Dir, Final.log) \subseteq Logged(Dir, Final.log)
    BY <2>2 DEF LoggedSafely, Logged
  <2>4. IsSure(Dir, Final) \subseteq Full
    BY <2>1, <2>3 DEF IsSure, Says
  <2>5. QED  BY <2>1, <2>4 DEF OpsOf
<1>3. QED  BY <1>1, <1>2

\* What is not readable yet is not acknowledged.
LEMMA NotYetThere ==
  ASSUME IInv
  PROVE  \A e \in Full \ Entries : e.op \notin acked
<1>1. up \in BOOLEAN
  BY Typed DEF ProcessTyped
<1>2. QED  BY <1>1, EntriesDown, EntriesUp

\* What can be read, as one formula, which holds after a step as it does before.
ReadInv ==
  /\ ~up => Entries = Full
  /\ up => \A e \in Full \ Entries : bgError \/ writing.op # 0
  /\ Entries \subseteq Full /\ \A e \in Full \ Entries : e.op \notin acked
  /\ synced \subseteq OpsOf(Full)

LEMMA ReadNow == IInv => ReadInv
BY EntriesDown, EntriesUp, EntriesInFull, NotYetThere, SyncedThere DEF ReadInv

LEMMA ReadNext == IInv' => ReadInv'
BY ReadNow, PTL

LEMMA Grows ==
  ASSUME Entries \subseteq Entries', \A e \in Entries' \ Entries : e.op \notin acked,
         UNCHANGED <<acked, synced, losses>>, synced \subseteq acked
  PROVE  Store!Next
<1>1. Ops \subseteq Ops' /\ \A o \in Ops' \ Ops : o \notin acked
  BY DEF Ops
<1>2. QED  BY <1>1 DEF Store!Next

LEMMA StoreStep ==
  ASSUME IInv, IInv', [Next]_vars
  PROVE  [Store!Next]_(Store!storeVars)
<1>1. /\ synced \subseteq acked /\ synced' \subseteq acked' /\ up \in BOOLEAN /\ up' \in BOOLEAN
  BY Typed DEF IInv, ProcessInv, HistoryTyped, ProcessTyped
<1>2. CASE UNCHANGED vars
  <2>1. UNCHANGED <<dirs, files, up, version, mem, imm, acked, synced, losses>>
    BY <1>2, StutterSame
  <2>2. Entries' = Entries
    <3>1. CASE up
      <4>1. TableEntries(version)' = TableEntries(version)
        BY <2>1 DEF TableEntries, Recs
      <4>2. QED  BY <2>1, <3>1, <4>1 DEF Entries
    <3>2. CASE ~up
      <4>1. Entries = Full
        BY <3>2, EntriesDown
      <4>2. Entries' = Full'
        BY <2>1, <3>2, ReadNext DEF ReadInv
      <4>3. Full' = Full
        BY <1>2, StutterSame
      <4>4. QED  BY <4>1, <4>2, <4>3
    <3>3. QED  BY <1>1, <3>1, <3>2
  <2>3. QED  BY <1>1, <2>1, <2>2, Grows
<1>3. CASE Crash
  <2>1. UNCHANGED <<acked, synced>> /\ ~up' /\ (UNCHANGED <<diskVars, losses>> \/ (PowerFails /\ losses' = losses + 1))
        /\ UNCHANGED writes
    BY <1>3 DEF Crash, Forget
  <2>2. Entries' = Full'
    BY <2>1, ReadNext DEF ReadInv
  <2>3. CASE UNCHANGED <<diskVars, losses>>
    <3>1. Full' = Full
      BY <2>3, StillSame, StillFacts
    <3>2. QED  BY <1>1, <2>1, <2>2, <2>3, <3>1, Grows, NotYetThere, EntriesInFull
  <2>4. CASE PowerFails /\ losses' = losses + 1
    <3>1. Full' \subseteq Full
      BY <2>1, <2>4, PowerDisk DEF IInv
    <3>2. synced' \subseteq OpsOf(Full')
      <4>1. synced' \subseteq OpsOf(Full)'
        BY ReadNext DEF ReadInv
      <4>2. OpsOf(Full)' = OpsOf(Full')
        BY DEF OpsOf
      <4>3. QED  BY <4>1, <4>2
    <3>3. synced \subseteq Ops'
      BY <2>1, <2>2, <3>2 DEF Ops, OpsOf
    <3>4. \A o \in Ops' \ Ops : o \notin acked
      BY <2>2, <3>1, NotYetThere DEF Ops
    <3>5. losses' # losses
      <4>1. losses \in Nat
        BY Typed DEF HistoryTyped
      <4>2. QED  BY <2>4, <4>1
    <3>6. Store!Next
      BY <2>1, <3>3, <3>4, <3>5 DEF Store!Next
    <3>7. QED  BY <3>6
  <2>5. QED  BY <2>1, <2>3, <2>4
<1>4. CASE Next /\ ~Crash /\ ~up /\ ~up'
  <2>1. Full' = Full
    BY <1>4, DownStep
  <2>2. Entries = Full
    BY <1>4, EntriesDown
  <2>3. Entries' = Full'
    BY <1>4, ReadNext DEF ReadInv
  <2>4. UNCHANGED <<acked, synced, losses>>
    <3>1. WriteInv
      BY DEF IInv, ProcessInv
    <3>2. ~FinishWrite
      BY <1>4, <3>1 DEF FinishWrite, WriteInv
    <3>3. QED  BY <1>4, <3>2, OnlyFinish
  <2>5. QED  BY <1>1, <2>1, <2>2, <2>3, <2>4, Grows
<1>5. CASE Next /\ ~Crash /\ ~up /\ up'
  <2>1. Collected
    BY <1>5, OnlyCollected
  <2>2. /\ UNCHANGED diskVars /\ UNCHANGED <<mem, imm, bgError, writing, acked, synced, losses>>
    BY <2>1 DEF Collected, memVars, history
  <2>3. Full' = Full
    BY <2>2, StillSame, StillFacts
  <2>4. Entries = Full
    BY <1>5, EntriesDown
  <2>5. Entries' = Full'
    <3>1. ~bgError' /\ writing'.op = 0
      BY <1>5, <2>2 DEF IInv, ProcessInv, PhaseInv, NotWriting
    <3>2. /\ Entries' \subseteq Full'
          /\ \A e \in Full' \ Entries' : bgError' \/ writing'.op # 0
      BY <1>5, ReadNext DEF ReadInv
    <3>3. QED  BY <3>1, <3>2
  <2>6. QED  BY <1>1, <2>2, <2>3, <2>4, <2>5, Grows
<1>6. CASE Next /\ ~Crash /\ up /\ ~up'
  BY <1>6, StaysUp
<1>7. CASE Next /\ ~Crash /\ up /\ up'
  <2>1. CASE Entries' = Entries /\ UNCHANGED <<acked, synced, losses>>
    BY <1>1, <2>1, Grows
  <2>2. CASE FinishWrite /\ Entries' = Entries \cup {Entry(writing)}
    <3>1. /\ acked' = acked \cup {writing.op} /\ UNCHANGED losses
          /\ synced' = IF writing.sync THEN synced \cup {writing.op} ELSE synced
          /\ writing.at = "insert"
      BY <2>2 DEF FinishWrite
    <3>2. writing.op \notin acked
      BY <3>1 DEF IInv, ProcessInv, WriteInv
    <3>3. Ops' = Ops \cup {writing.op}
      <4>1. Entry(writing).op = writing.op
        BY DEF Entry
      <4>2. QED  BY <2>2, <4>1 DEF Ops
    <3>4. Store!Next
      BY <1>1, <3>1, <3>2, <3>3 DEF Store!Next
    <3>5. QED  BY <3>4
  <2>3. QED  BY <1>7, <2>1, <2>2, UpStep
<1>8. QED  BY <1>1, <1>2, <1>3, <1>4, <1>5, <1>6, <1>7

\* The files implement DurableStore, for any number of writes, crashes, power
\* failures and failing calls: an operation that Write has acknowledged is there
\* until a power failure, one with sync also after it, one that a power failure has
\* taken does not come back.  For options.reuse_logs = false.
THEOREM Durable ==
  ASSUME ReuseLogs = FALSE
  PROVE  Spec => ImplementsDurableStore
<1>1. Init => Store!Init
  <2>1. ASSUME Init PROVE Store!Init
    <3>1. Dir.current = 0 /\ ~up
      BY <2>1 DEF Init, DiskInit, Dir
    <3>2. Ops = {}
      BY <3>1 DEF Entries, Ops
    <3>3. QED  BY <2>1, <3>2 DEF Init, Store!Init
  <2>2. QED  BY <2>1
<1>2. IInv /\ IInv' /\ [Next]_vars => [Store!Next]_(Store!storeVars)
  BY StoreStep
<1>3. QED  BY <1>1, <1>2, DurabilityInvariant, PTL DEF Spec, ImplementsDurableStore, Store!Spec

(***************************************************************************)
(* What is in the directory, as long as no call fails.                     *)
(***************************************************************************)
\* Every file has a use, or is about to be removed.
Owned ==
  /\ \A t \in Nat : \A f \in {Table(t), Temp(t)} \cap Dir.names :
       t \in version \cup pending \cup edit.add \/ f \in garbage
  /\ \A l \in Nat : Log(l) \in Dir.names => imm # {} \/ l = logFileNo \/ Log(l) \in garbage
  /\ \A n \in Nat : Manifest(n) \in Dir.names => manifestNo <= n \/ Manifest(n) \in garbage

\* The MANIFEST of an open that was cut short has a number that the next open will
\* take, or one below that of a log which the next open will find.
Ahead(d) ==
  \A n \in Nat : Manifest(n) \in d.names =>
    IF d.current = 0 THEN n <= 1
    ELSE \A v \in Views(d.current) : n <= v.next \/ \E l \in LogsFor(d, v.log) : n < l

\* DB::Open from its new log on.
Ending == Saving \/ (~up /\ job = "open" /\ pc = "apply")

\* LogAndApply has given the edit its numbers.
Stamped == pc \in {"append", "sync", "temp", "rename", "install"}

UsedInv ==
  /\ Ending \/ Serving =>
       \A d \in Dirs : \A n \in Nat :
         Manifest(n) \in d.names => n < nextFile /\ (Stamped => n < edit.next)
  /\ Ending => manifestNo < logFileNo

Tidy == ~bgError /\ (up \/ pc = "delete" => Owned) /\ (\A d \in Dirs : Ahead(d)) /\ UsedInv
TidyInv == ~faulty => Tidy

\* Steps of the disk that bring no MANIFEST, lose no log that is needed and leave
\* the MANIFESTs in use as they are.
Modest(X, Y) ==
  /\ Frame(X, Y) /\ (\A n : Manifest(n) \in Y => \A d \in Dirs : d.current # n)
  /\ \A d \in Dirs' : d \in Dirs \/ d = Dir'
  /\ \A n \in Nat : Manifest(n) \in Dir'.names => Manifest(n) \in Dir.names
  /\ \A l \in Nat : Log(l) \in Dir.names =>
       \/ Log(l) \in Dir'.names
       \/ Dir.current # 0 /\ \A v \in Views(Dir.current) : l < v.log

LEMMA ModestSame ==
  ASSUME IInv, UNCHANGED diskVars
  PROVE  Modest({}, {}) /\ Dir' = Dir /\ Dirs' = Dirs
<1>1. Frame({}, {}) /\ Dirs' = Dirs /\ Dir' = Dir
  BY Typed, SameDisk
<1>2. QED  BY <1>1 DEF Modest

LEMMA ModestTable ==
  ASSUME IInv, NEW t \in Nat, NewWritableFile(Table(t), <<>>)
  PROVE  Modest({Table(t)}, {Table(t)}) /\ Dir'.names = Dir.names \cup {Table(t)}
<1>1. Table(t) \in FileNames /\ <<>> \in Seq(RecordsOf(Table(t)[1])) /\ DiskTyped
  BY Names, Typed
<1>2. /\ Frame({Table(t)}, {Table(t)}) /\ Dir'.names = Dir.names \cup {Table(t)}
      /\ \A d \in Dirs' : d \in Dirs \/ d = Dir'
  BY <1>1, NewFile
<1>3. \A n : Manifest(n) # Table(t)
  BY Names
<1>4. QED  BY <1>2, <1>3 DEF Modest

LEMMA ModestLog ==
  ASSUME IInv, NEW n \in Nat, NewWritableFile(Log(n), <<>>)
  PROVE  Modest({Log(n)}, {Log(n)}) /\ Dir'.names = Dir.names \cup {Log(n)}
<1>1. Log(n) \in FileNames /\ <<>> \in Seq(RecordsOf(Log(n)[1])) /\ DiskTyped
  BY Names, Typed
<1>2. /\ Frame({Log(n)}, {Log(n)}) /\ Dir'.names = Dir.names \cup {Log(n)}
      /\ \A d \in Dirs' : d \in Dirs \/ d = Dir'
  BY <1>1, NewFile
<1>3. \A m : Manifest(m) # Log(n)
  BY Names
<1>4. QED  BY <1>2, <1>3 DEF Modest

LEMMA ModestBuilt ==
  ASSUME IInv, NEW t \in Nat, Table(t) \in Dir.names, NEW es \in SUBSET Update,
         SyncFile(Table(t), <<es>>)
  PROVE  Modest({}, {Table(t)}) /\ Dir' = Dir /\ Dirs' = {Dir}
<1>1. <<es>> \in Seq(RecordsOf(Table(t)[1])) /\ DiskTyped /\ Dir \in Dirs
  BY RecordKinds, Typed
<1>2. Frame({}, {Table(t)}) /\ Dirs' = {Dir} /\ Dir' = Dir
  BY <1>1, Synced
<1>3. \A n : Manifest(n) # Table(t)
  BY Names
<1>4. QED  BY <1>1, <1>2, <1>3 DEF Modest

LEMMA ModestSync ==
  ASSUME IInv, NEW f \in Dir.names, SyncFile(f, Recs(f))
  PROVE  Modest({}, {}) /\ Dir' = Dir /\ Dirs' = {Dir}
<1>1. DiskTyped /\ Dir \in Dirs /\ FilesTyped /\ f \in DOMAIN files
  BY Typed
<1>2. Recs(f) \in Seq(RecordsOf(f[1]))
  BY <1>1, FileTyped
<1>3. Frame({}, {}) /\ Dirs' = {Dir} /\ Dir' = Dir
  BY <1>1, <1>2, Synced
<1>4. QED  BY <1>1, <1>3 DEF Modest

LEMMA ModestAppend ==
  ASSUME IInv, NEW f \in Dir.names, NEW r \in RecordsOf(f[1]), AppendRecord(f, r),
         \A d \in Dirs : f # Manifest(d.current)
  PROVE  Modest({}, {f}) /\ Dir' = Dir /\ Dirs' = Dirs
<1>1. DiskTyped /\ f \in DOMAIN files
  BY Typed
<1>2. Frame({}, {f}) /\ Dirs' = Dirs /\ Dir' = Dir
  BY <1>1, Appended
<1>3. QED  BY <1>2 DEF Modest

LEMMA ModestTemp ==
  ASSUME IInv, NEW n \in Nat, WriteFileSync(Temp(n), n)
  PROVE  Modest({Temp(n)}, {Temp(n)}) /\ Dir'.names = Dir.names \cup {Temp(n)} /\ Dirs' = {Dir'}
<1>1. Temp(n) \in FileNames /\ n \in RecordsOf(Temp(n)[1]) /\ DiskTyped
  BY Names, RecordKinds, Typed
<1>2. Frame({Temp(n)}, {Temp(n)}) /\ Dirs' = {Dir'} /\ Dir'.names = Dir.names \cup {Temp(n)}
  BY <1>1, WroteFile
<1>3. \A m : Manifest(m) # Temp(n)
  BY Names
<1>4. QED  BY <1>2, <1>3 DEF Modest

LEMMA ModestRemove ==
  ASSUME IInv, NEW f, RemoveFile(f),
         \A l \in Nat : f = Log(l) => Dir.current # 0 /\ \A v \in Views(Dir.current) : l < v.log
  PROVE  Modest({f}, {}) /\ Dir'.names = Dir.names \ {f}
<1>1. dirs' = Without(dirs, f) /\ UNCHANGED files /\ DiskTyped
  BY Typed DEF RemoveFile
<1>2. Frame({f}, {}) /\ Dir'.names = Dir.names \ {f} /\ \A d \in Dirs' : d \in Dirs \/ d = Dir'
  BY <1>1, WithoutTyped
<1>3. QED  BY <1>2 DEF Modest

LEMMA ViewsLeft ==
  ASSUME IInv, IInv', NEW X, NEW Y, Frame(X, Y), \A n : Manifest(n) \in Y => \A d \in Dirs : d.current # n,
         NEW d \in Dirs, d \in Dirs' \/ d = Dir, d.current # 0
  PROVE  Views(d.current)' \subseteq Views(d.current)
<1>1. DiskTyped /\ DiskTyped' /\ Dir'.current = Dir.current /\ Frame(X, Y)
  BY Typed DEF IInv, DiskInv, Frame
<1>2. Manifest(d.current) \in DOMAIN files'
  <2>1. \A e \in Dirs' : e.names \subseteq DOMAIN files' /\ DirInv(e)'
    BY <1>1, NextDirs DEF IInv, DiskInv
  <2>2. \A e \in Dirs' : e.current # 0 => Manifest(e.current) \in DOMAIN files'
    BY <2>1 DEF DirInv
  <2>3. Dir' \in Dirs'
    BY <1>1, NextDirs
  <2>4. QED  BY <1>1, <2>2, <2>3
<1>3. Manifest(d.current) \notin Y
  OBVIOUS
<1>4. QED  BY <1>1, <1>2, <1>3, FrameViews

LEMMA AheadGrows ==
  ASSUME IInv, IInv', NEW X, NEW Y, Frame(X, Y), \A n : Manifest(n) \in Y => \A d \in Dirs : d.current # n,
         \A d \in Dirs' : d \in Dirs \/ d = Dir',
         \A n \in Nat : Manifest(n) \in Dir'.names =>
           \/ Manifest(n) \in Dir.names
           \/ Dir.current # 0 /\ \A v \in Views(Dir.current) : \E l \in LogsFor(Dir, v.log) : n < l,
         \A l \in Nat : Log(l) \in Dir.names =>
           \/ Log(l) \in Dir'.names
           \/ Dir.current # 0 /\ \A v \in Views(Dir.current) : l < v.log,
         \A d \in Dirs : Ahead(d)
  PROVE  \A d \in Dirs' : Ahead(d)'
<1>1. Dir'.current = Dir.current /\ Dir \in Dirs
  BY Typed DEF Frame
<1>2. \A d \in Dirs : (d \in Dirs' \/ d = Dir) /\ d.current # 0 => Views(d.current)' \subseteq Views(d.current)
  BY ViewsLeft
<1>3. ASSUME NEW d \in Dirs', d \in Dirs PROVE Ahead(d)'
  <2>1. Ahead(d) /\ (d.current # 0 => Views(d.current)' \subseteq Views(d.current))
    BY <1>2, <1>3
  <2>2. \A v : LogsFor(d, v.log)' = LogsFor(d, v.log)
    BY DEF LogsFor
  <2>3. QED  BY <2>1, <2>2 DEF Ahead
<1>4. ASSUME NEW d \in Dirs', d = Dir' PROVE Ahead(d)'
  <2>1. PICK e \in Dirs : e = Dir
    BY <1>1
  <2>2. /\ Ahead(e) /\ d.current = e.current
        /\ (e.current # 0 => Views(e.current)' \subseteq Views(e.current))
    BY <1>1, <1>2, <1>4, <2>1
  <2>3. \A n \in Nat : Manifest(n) \in d.names =>
          \/ Manifest(n) \in e.names
          \/ e.current # 0 /\ \A v \in Views(e.current) : \E l \in LogsFor(e, v.log) : n < l
    BY <1>4, <2>1
  <2>4. \A l \in Nat : Log(l) \in e.names =>
          Log(l) \in d.names \/ \A v \in Views(e.current) : l < v.log
    BY <1>4, <2>1
  <2>5. ASSUME NEW n \in Nat, Manifest(n) \in d.names, d.current # 0, NEW v \in Views(d.current)'
        PROVE  n <= v.next \/ \E l \in LogsFor(d, v.log) : n < l
    <3>1. v \in Views(e.current) /\ v.log \in Nat
      <4>1. v \in Views(e.current) /\ DirInv(e) /\ DiskTyped
        BY <2>2, <2>5, Typed
      <4>2. v \in ViewType
        BY <2>2, <2>5, <4>1, DirOpen
      <4>3. QED  BY <4>1, <4>2 DEF ViewType
    <3>2. n <= v.next \/ \E l \in LogsFor(e, v.log) : n < l
      BY <2>2, <2>3, <2>5, <3>1 DEF Ahead
    <3>3. ASSUME NEW l \in LogsFor(e, v.log) PROVE l \in LogsFor(d, v.log)
      <4>1. l \in Nat /\ l >= v.log /\ Log(l) \in e.names
        BY <3>3 DEF LogsFor
      <4>2. Log(l) \in d.names
        BY <2>4, <3>1, <4>1
      <4>3. QED  BY <4>1, <4>2 DEF LogsFor
    <3>4. QED  BY <3>2, <3>3
  <2>6. \A v : LogsFor(d, v.log)' = LogsFor(d, v.log)
    BY DEF LogsFor
  <2>7. ASSUME d.current = 0, NEW n \in Nat, Manifest(n) \in d.names PROVE n <= 1
    BY <2>2, <2>3, <2>7 DEF Ahead
  <2>8. QED  BY <2>5, <2>6, <2>7 DEF Ahead
<1>5. QED  BY <1>3, <1>4

LEMMA KeepAhead ==
  ASSUME IInv, IInv', NEW X, NEW Y, Modest(X, Y), \A d \in Dirs : Ahead(d)
  PROVE  \A d \in Dirs' : Ahead(d)'
BY AheadGrows DEF Modest

LEMMA KeepUsed ==
  ASSUME IInv, NEW X, NEW Y, Modest(X, Y), UsedInv,
         (Ending \/ Serving)' => Ending \/ Serving,
         Ending' => Ending /\ UNCHANGED <<manifestNo, logFileNo>>,
         Stamped' => Stamped /\ edit'.next = edit.next, nextFile' \in Nat, nextFile' >= nextFile
  PROVE  UsedInv'
<1>1. Dir \in Dirs /\ nextFile \in Nat
  BY Typed DEF ProcessTyped
<1>2. ASSUME (Ending \/ Serving)', NEW d \in Dirs', NEW n \in Nat, Manifest(n) \in d.names
      PROVE  n < nextFile' /\ (Stamped' => n < edit'.next)
  <2>1. \E e \in Dirs : Manifest(n) \in e.names
    BY <1>1, <1>2 DEF Modest
  <2>2. n < nextFile /\ (Stamped => n < edit.next)
    BY <1>2, <2>1 DEF UsedInv
  <2>3. QED  BY <1>1, <2>2
<1>3. Ending' => manifestNo' < logFileNo'
  BY DEF UsedInv
<1>4. QED  BY <1>2, <1>3 DEF UsedInv

\* Before the new log, a step of the open, and the end of the process.
Early == ~up /\ pc # "delete" /\ ~Ending /\ ~Serving

LEMMA KeepEarly ==
  ASSUME IInv, IInv', NEW X, NEW Y, Modest(X, Y), Tidy, Early'
  PROVE  Tidy'
<1>0. ~bgError'
  BY DEF IInv, ProcessInv, PhaseInv, Early
<1>1. \A d \in Dirs' : Ahead(d)'
  BY KeepAhead DEF Tidy
<1>2. UsedInv'
  BY DEF UsedInv, Early
<1>3. QED  BY <1>0, <1>1, <1>2 DEF Tidy, Early

LEMMA TidyOpen ==
  ASSUME IInv, IInv', Tidy, ~faulty',
         Open \/ RecoverVersions \/ RecoverFails \/ ReadLog \/ ReplayDone \/ OpenLogFails
  PROVE  Tidy'
<1>1. UNCHANGED diskVars
  BY DEF Open, RecoverVersions, RecoverFails, ReadLog, ReplayDone, OpenLogFails
<1>2. Modest({}, {})
  BY <1>1, ModestSame
<1>3. ~up /\ ~up'
  <2>1. pc \in {"down", "recover", "replay", "replaying", "replayed"}
    BY DEF Open, RecoverVersions, RecoverFails, ReadLog, ReplayDone, OpenLogFails
  <2>2. ~up
    BY <2>1, UpFacts
  <2>3. CASE Open \/ RecoverVersions \/ ReadLog \/ ReplayDone
    <3>1. UNCHANGED up
      BY <2>3 DEF Open, RecoverVersions, ReadLog, ReplayDone
    <3>2. QED  BY <2>2, <3>1
  <2>4. CASE RecoverFails \/ OpenLogFails
    BY <2>2, <2>4 DEF RecoverFails, OpenLogFails, OpenFails, Forget
  <2>5. QED  BY <2>3, <2>4
<1>4. pc' \in {"down", "create", "recover", "replay", "replaying", "replayed"}
  BY DEF Open, RecoverVersions, RecoverFails, ReadLog, ReplayDone, OpenLogFails, OpenFails, Forget
<1>5. Early'
  BY <1>3, <1>4 DEF Early, Ending, Saving, Serving
<1>6. QED  BY <1>2, <1>5, KeepEarly

LEMMA TidyReplayTable ==
  ASSUME IInv, IInv', Tidy, ReplayTable
  PROVE  Tidy'
<1>1. pc = "replaying" /\ pc' = "build" /\ UNCHANGED up /\ NewWritableFile(Table(nextFile), <<>>)
  BY DEF ReplayTable, NewTable
<1>2. ~up /\ nextFile \in Nat
  BY <1>1, ReplayFacts
<1>3. Modest({Table(nextFile)}, {Table(nextFile)})
  BY <1>1, <1>2, ModestTable
<1>4. Early'
  BY <1>1, <1>2 DEF Early, Ending, Saving, Serving
<1>5. QED  BY <1>3, <1>4, KeepEarly

\* The tables of replayed logs, and those of flushes.
LEMMA TidyTableBuilt ==
  ASSUME IInv, IInv', Tidy, TableBuilt
  PROVE  Tidy'
<1>1. /\ pc = "build" /\ SyncFile(Table(table.no), <<table.entries>>)
      /\ UNCHANGED <<up, job, nextFile, version, manifestNo, imm, logFileNo, bgError, garbage>>
      /\ pending' = pending \ {table.no} /\ edit' = [edit EXCEPT !.add = @ \cup {table.no}]
      /\ pc' = IF up THEN "apply" ELSE "replaying"
  BY DEF TableBuilt, versionVars
<1>2. /\ ProcessTyped /\ Table(table.no) \in Dir.names
      /\ table.no \in Nat /\ table.entries \in SUBSET Update /\ edit \in VersionEdit /\ nextFile \in Nat
  <2>1. ProcessTyped /\ FreshInv
    BY DEF IInv, ProcessInv
  <2>2. QED  BY <1>1, <2>1 DEF FreshInv, Fresh, ProcessTyped
<1>3. Modest({}, {Table(table.no)}) /\ Dir' = Dir
  BY <1>1, <1>2, ModestBuilt
<1>4. CASE ~up
  <2>1. Early'
    BY <1>1, <1>4 DEF Early, Ending, Saving, Serving
  <2>2. QED  BY <1>3, <2>1, KeepEarly
<1>5. CASE up
  <2>1. edit'.add = edit.add \cup {table.no} /\ edit'.next = edit.next
    BY <1>1, <1>2 DEF VersionEdit
  <2>2. \A d \in Dirs' : Ahead(d)'
    BY <1>3, KeepAhead DEF Tidy
  <2>3. UsedInv'
    <3>1. ~Ending' /\ Serving
      BY <1>1, <1>5 DEF Ending, Saving, Serving
    <3>2. ~Stamped' /\ nextFile' \in Nat /\ nextFile' >= nextFile
      BY <1>1, <1>2, <1>5 DEF Stamped
    <3>3. QED  BY <1>3, <3>1, <3>2, KeepUsed DEF Tidy
  <2>4. Owned'
    BY <1>1, <1>3, <1>5, <2>1 DEF Owned, Tidy
  <2>5. QED  BY <1>1, <2>2, <2>3, <2>4 DEF Tidy
<1>6. QED  BY <1>4, <1>5

\* NewDB writes the first MANIFEST.
LEMMA TidyCreate ==
  ASSUME IInv, IInv', Tidy, Creating, CreateDB \/ AppendEdit \/ SyncManifest \/ WriteTemp
  PROVE  Tidy'
<1>1. /\ ~up /\ job = "new" /\ Dir.current = 0 /\ manifestNo = 1 /\ \A d \in Dirs : d.current = 0
      /\ pc # "create" => edit = FirstEdit /\ Manifest(1) \in Dir.names
      /\ FirstEdit \in VersionEdit
  BY CreateFacts
<1>2. ~up' /\ job' = "new"
  BY <1>1 DEF CreateDB, AppendEdit, SyncManifest, WriteTemp
<1>3. pc' \in {"append", "sync", "temp", "rename", "install"}
  BY DEF CreateDB, AppendEdit, SyncManifest, WriteTemp
<1>4. pc' # "install"
  BY <1>1, <1>2, <1>3 DEF CreateDB, AppendEdit, SyncManifest, WriteTemp, NewManifest
<1>5. Early'
  BY <1>2, <1>3, <1>4 DEF Early, Ending, Saving, Serving
<1>6. CASE CreateDB
  <2>1. NewWritableFile(Manifest(1), <<>>)
    BY <1>1, <1>6 DEF CreateDB
  <2>2. Manifest(1) \in FileNames /\ <<>> \in Seq(RecordsOf(Manifest(1)[1])) /\ DiskTyped
    BY Names, Typed
  <2>3. /\ Frame({Manifest(1)}, {Manifest(1)}) /\ Dir'.names = Dir.names \cup {Manifest(1)}
        /\ \A d \in Dirs' : d \in Dirs \/ d = Dir'
    BY <2>1, <2>2, NewFile
  <2>4. Dir'.current = 0 /\ Dir \in Dirs
    BY <1>1, <2>3, Typed DEF Frame
  <2>5. ASSUME NEW d \in Dirs' PROVE Ahead(d)'
    <3>1. d.current = 0
      BY <1>1, <2>3, <2>4
    <3>2. \A n \in Nat : Manifest(n) \in d.names => n <= 1
      <4>1. \A e \in Dirs : \A n \in Nat : Manifest(n) \in e.names => n <= 1
        BY <1>1 DEF Tidy, Ahead
      <4>2. \A n \in Nat : Manifest(n) = Manifest(1) => n = 1
        BY Names
      <4>3. QED  BY <2>3, <2>4, <4>1, <4>2
    <3>3. QED  BY <3>1, <3>2 DEF Ahead
  <2>6. ~bgError'
    BY <1>2 DEF IInv, ProcessInv, PhaseInv
  <2>7. QED  BY <1>5, <2>5, <2>6 DEF Tidy, UsedInv, Early
<1>7. CASE AppendEdit
  <2>1. AppendRecord(Manifest(1), FirstEdit) /\ Manifest(1) \in Dir.names
    BY <1>1, <1>7 DEF AppendEdit
  <2>2. FirstEdit \in RecordsOf(Manifest(1)[1])
    BY <1>1, RecordKinds
  <2>3. \A d \in Dirs : Manifest(1) # Manifest(d.current)
    BY <1>1, Names
  <2>4. Modest({}, {Manifest(1)})
    BY <2>1, <2>2, <2>3, ModestAppend
  <2>5. QED  BY <1>5, <2>4, KeepEarly
<1>8. CASE SyncManifest
  <2>1. SyncFile(Manifest(1), Recs(Manifest(1))) /\ Manifest(1) \in Dir.names
    BY <1>1, <1>8 DEF SyncManifest
  <2>2. Modest({}, {})
    BY <2>1, ModestSync
  <2>3. QED  BY <1>5, <2>2, KeepEarly
<1>9. CASE WriteTemp
  <2>1. WriteFileSync(Temp(1), 1)
    BY <1>1, <1>9 DEF WriteTemp
  <2>2. Modest({Temp(1)}, {Temp(1)})
    BY <2>1, ModestTemp
  <2>3. QED  BY <1>5, <2>2, KeepEarly
<1>10. QED  BY <1>6, <1>7, <1>8, <1>9

\* The views of every directory, in a form that can be said of the next state.
ViewsTypedInv ==
  \A d \in Dirs : d.current # 0 =>
    \A v \in Views(d.current) : v \in ViewType /\ d.current < v.next /\ v.log < v.next
LEMMA ViewsNow == IInv => ViewsTypedInv
<1>1. ASSUME IInv, NEW d \in Dirs, d.current # 0, NEW v \in Views(d.current)
      PROVE  v \in ViewType /\ d.current < v.next /\ v.log < v.next
  <2>1. DiskTyped /\ DirInv(d)
    BY <1>1, Typed
  <2>2. v \in ViewType /\ Sound(d, v)
    BY <1>1, <2>1, DirOpen
  <2>3. QED  BY <2>2 DEF Sound
<1>2. QED  BY <1>1 DEF ViewsTypedInv

LEMMA ViewsNext == IInv' => ViewsTypedInv'
BY ViewsNow, PTL

LEMMA Renamed ==
  ASSUME IInv, NEW m \in Nat, NEW n \in Nat, SetCurrent(Temp(n), m)
  PROVE  /\ UNCHANGED files /\ Dirs' = Dirs \cup {Dir'} /\ Dir'.current = m
         /\ Dir'.names = Dir.names \ {Temp(n)}
<1> DEFINE d == [names |-> Dir.names \ {Temp(n)}, current |-> m]
<1>1. DiskTyped /\ Dir \in Directory
  BY Typed
<1>2. d \in Directory /\ dirs' = Append(dirs, d) /\ UNCHANGED files
  BY <1>1 DEF Directory, SetCurrent
<1>3. Dir' = d /\ Dirs' = Dirs \cup {d}
  BY <1>1, <1>2, DirsAppend
<1>4. QED  BY <1>2, <1>3

LEMMA TidyRename ==
  ASSUME IInv, IInv', Tidy, RenameTemp
  PROVE  Tidy'
<1>1. /\ pc = "rename" /\ SetCurrent(Temp(manifestNo), manifestNo)
      /\ UNCHANGED <<up, job, nextFile, manifestNo, logFileNo, bgError>>
      /\ IF job = "new" THEN pc' = "recover" ELSE pc' = "install" /\ edit' = edit
  BY DEF RenameTemp, versionVars, memVars
<1>2. ~up /\ manifestNo \in Nat /\ (Creating \/ Saving) /\ ~Serving
  <2>1. ProcessTyped /\ PhaseInv
    BY DEF IInv, ProcessInv
  <2>2. ~up
    BY <1>1, UpFacts
  <2>3. Creating \/ Opening
    BY <1>1, <2>1, <2>2 DEF PhaseInv
  <2>4. QED  BY <1>1, <2>1, <2>2, <2>3 DEF Opening, ProcessTyped, Serving
<1>3. /\ UNCHANGED files /\ Dirs' = Dirs \cup {Dir'} /\ Dir'.current = manifestNo
      /\ Dir'.names = Dir.names \ {Temp(manifestNo)} /\ Dir \in Dirs
  BY <1>1, <1>2, Renamed, Typed
<1>9. PICK e, m : e = Dir' /\ m = manifestNo
  OBVIOUS
<1>10. e \in Dirs' /\ e.current = m /\ e.names \subseteq Dir.names /\ Dirs' = Dirs \cup {e}
  BY <1>3, <1>9
<1>4. ASSUME NEW d \in Dirs PROVE Ahead(d)'
  <2>1. Views(d.current)' = Views(d.current) /\ \A v : LogsFor(d, v.log)' = LogsFor(d, v.log)
    BY <1>3, SameFiles DEF LogsFor
  <2>2. Ahead(d)
    BY DEF Tidy
  <2>3. QED  BY <2>1, <2>2 DEF Ahead
<1>5. CASE Creating
  <2>1. manifestNo = 1 /\ job = "new" /\ \A d \in Dirs : d.current = 0
    BY <1>5, CreateFacts
  <2>2. \A n \in Nat : Manifest(n) \in e.names => n <= 1
    BY <1>3, <1>10, <2>1 DEF Tidy, Ahead
  <2>3. e.current = 1
    BY <1>9, <1>10, <2>1
  <2>4. ASSUME NEW v \in Views(e.current)' PROVE 1 <= v.next /\ v.next \in Nat
    <3>1. v \in ViewType /\ 1 < v.next
      BY <1>10, <2>3, <2>4, ViewsNext DEF ViewsTypedInv
    <3>2. QED  BY <3>1 DEF ViewType
  <2>5. Ahead(e)'
    BY <2>2, <2>3, <2>4 DEF Ahead
  <2>6. \A d \in Dirs' : Ahead(d)'
    BY <1>4, <1>10, <2>5
  <2>7. ~up' /\ ~Ending' /\ ~Serving' /\ pc' # "delete" /\ ~bgError'
    BY <1>1, <1>2, <2>1 DEF Ending, Saving, Serving, Tidy
  <2>8. QED  BY <2>6, <2>7 DEF Tidy, UsedInv
<1>6. CASE Saving
  <2>1. ~up /\ job = "open" /\ Ending /\ Stamped
    BY <1>1, <1>6 DEF Saving, Ending, Stamped
  <2>2. PICK v : v = View(Recs(Manifest(manifestNo)))
    OBVIOUS
  <2>3. v.next = edit.next /\ files[Manifest(manifestNo)].durable = Len(Recs(Manifest(manifestNo)))
        /\ manifestNo # 0
    BY <1>1, <2>1, <2>2, SavedView
  <2>4. Views(m)' = {v}
    <3>1. Manifest(m) \in Dir.names /\ Dir.names \subseteq DOMAIN files
      BY <1>1, <1>9, <2>1, SaveFacts, Typed
    <3>2. Recs(Manifest(m)) \in Seq(VersionEdit)
      BY <3>1, Typed, RecordsTyped
    <3>3. Recs(Manifest(m))' = Recs(Manifest(m))
      BY <1>3 DEF Recs
    <3>4. files'[Manifest(m)].durable = Len(Recs(Manifest(m)))
      BY <1>3, <1>9, <2>3
    <3>5. v = View(Recs(Manifest(m)))
      BY <1>9, <2>2
    <3>6. QED  BY <3>2, <3>3, <3>4, <3>5, SyncedViews
  <2>5. \A n \in Nat : Manifest(n) \in e.names => n < edit.next
    BY <1>3, <1>10, <2>1 DEF Tidy, UsedInv
  <2>6. edit.next \in Nat /\ edit' = edit /\ pc' = "install"
    <3>1. ProcessTyped
      BY Typed
    <3>2. QED  BY <1>1, <2>1, <3>1 DEF ProcessTyped, VersionEdit
  <2>7. Ahead(e)'
    <3>1. e.current = m /\ m # 0 /\ \A n \in Nat : Manifest(n) \in e.names => n <= v.next
      BY <1>9, <1>10, <2>3, <2>5, <2>6
    <3>2. QED  BY <2>4, <3>1 DEF Ahead
  <2>8. \A d \in Dirs' : Ahead(d)'
    BY <1>4, <1>10, <2>7
  <2>9. \A d \in Dirs' : \A n \in Nat : Manifest(n) \in d.names => n < nextFile /\ n < edit.next
    BY <1>3, <2>1 DEF Tidy, UsedInv
  <2>10. UsedInv'
    BY <1>1, <2>1, <2>6, <2>9 DEF UsedInv, Ending, Saving
  <2>11. ~up' /\ pc' # "delete" /\ ~bgError'
    BY <1>1, <1>2, <2>6 DEF Tidy
  <2>12. QED  BY <2>8, <2>10, <2>11 DEF Tidy
<1>7. QED  BY <1>2, <1>5, <1>6

\* The new log has a number above those of all files that there are.
LEMMA TidyOpenLog ==
  ASSUME IInv, IInv', Tidy, OpenLog
  PROVE  Tidy'
<1>1. /\ ~up /\ Opening /\ Dir.current # 0 /\ save /\ logFileNo = 0 /\ logs = {} /\ pc = "replayed"
      /\ nextFile \in Nat /\ nextFile >= 2
      /\ \A l \in LogsFor(Dir, logNo) \ logs : l < nextFile \/ l = logFileNo
  BY ReplayFacts DEF OpenLog
<1>2. /\ NewWritableFile(Log(nextFile), <<>>) /\ logFileNo' = nextFile /\ nextFile' = nextFile + 1
      /\ pc' = "apply" /\ job' = "open" /\ UNCHANGED <<up, manifestNo, bgError>>
  BY <1>1 DEF OpenLog
<1>3. /\ RecoveredInv /\ LogsGone /\ ProcessTyped
      /\ \A d \in Dirs : d.names \subseteq Reachable(dirs) /\ DirInv(d) /\ DiskTyped
  BY Typed DEF IInv, ProcessInv, DiskInv
<1>4. /\ Final \in ViewType /\ Sound(Dir, Final) /\ Final \in Views(Dir.current)
      /\ logNo = Final.log /\ Final.next <= manifestNo /\ manifestNo < nextFile
      /\ manifestNo \in Nat /\ Final.log \in Nat /\ Final.next \in Nat /\ Final.log < Final.next
  <2>1. Final \in ViewType /\ Sound(Dir, Final) /\ Final \in Views(Dir.current)
    BY <1>1, FinalFacts
  <2>2. Final.log \in Nat /\ Final.next \in Nat /\ Final.log < Final.next
    BY <2>1 DEF ViewType, Sound
  <2>3. logNo = Final.log /\ Final.next <= manifestNo /\ manifestNo < nextFile /\ manifestNo \in Nat
    BY <1>1, <1>3 DEF RecoveredInv, ProcessTyped
  <2>4. QED  BY <2>1, <2>2, <2>3
<1>5. ASSUME NEW l \in Nat, Log(l) \in Reachable(dirs) PROVE l < nextFile
  <2>1. CASE Log(l) \notin Dir.names
    <3>1. l < Final.log
      BY <1>1, <1>3, <1>4, <1>5, <2>1 DEF LogsGone
    <3>2. QED  BY <1>1, <1>4, <3>1
  <2>2. CASE Log(l) \in Dir.names /\ l >= Final.log
    <3>1. l \in LogsFor(Dir, logNo) \ logs
      BY <1>1, <1>4, <2>2 DEF LogsFor
    <3>2. QED  BY <1>1, <3>1
  <2>3. CASE ~(l >= Final.log)
    BY <1>1, <1>4, <2>3
  <2>4. QED  BY <2>1, <2>2, <2>3
<1>6. ASSUME NEW d \in Dirs, NEW n \in Nat, Manifest(n) \in d.names PROVE n < nextFile
  <2>1. Ahead(d) /\ DirInv(d) /\ d.names \subseteq Reachable(dirs) /\ DiskTyped
    BY <1>3 DEF Tidy
  <2>2. CASE d.current = 0
    BY <1>1, <1>6, <2>1, <2>2 DEF Ahead
  <2>3. CASE d.current # 0
    <3>1. PICK v \in Views(d.current) : v \in ViewType /\ Sound(d, v)
      BY <2>1, <2>3, DirOpen
    <3>2. v.next \in Nat /\ v.next <= Final.next
      BY <3>1 DEF ViewType, Sound
    <3>3. CASE n <= v.next
      BY <1>1, <1>4, <3>2, <3>3
    <3>4. CASE \E l \in LogsFor(d, v.log) : n < l
      <4>1. PICK l \in LogsFor(d, v.log) : n < l
        BY <3>4
      <4>2. l \in Nat /\ Log(l) \in Reachable(dirs)
        BY <2>1, <4>1 DEF LogsFor
      <4>3. QED  BY <1>1, <1>5, <4>1, <4>2
    <3>5. QED  BY <1>6, <2>1, <2>3, <3>1, <3>3, <3>4 DEF Ahead
  <2>4. QED  BY <2>2, <2>3
<1>7. Modest({Log(nextFile)}, {Log(nextFile)})
  BY <1>1, <1>2, ModestLog
<1>8. \A d \in Dirs' : Ahead(d)'
  BY <1>7, KeepAhead DEF Tidy
<1>9. UsedInv'
  <2>1. \A d \in Dirs' : \A n \in Nat : Manifest(n) \in d.names => n < nextFile'
    <3>1. Dir \in Dirs
      BY Typed
    <3>2. \A d \in Dirs' : \A n \in Nat : Manifest(n) \in d.names => \E e \in Dirs : Manifest(n) \in e.names
      BY <1>7, <3>1 DEF Modest
    <3>3. QED  BY <1>1, <1>2, <1>6, <3>2
  <2>2. ~Stamped' /\ manifestNo' < logFileNo'
    BY <1>2, <1>4 DEF Stamped
  <2>3. QED  BY <2>1, <2>2 DEF UsedInv
<1>10. ~up' /\ pc' # "delete" /\ ~bgError'
  BY <1>1, <1>2 DEF Tidy
<1>11. QED  BY <1>8, <1>9, <1>10 DEF Tidy

LEMMA TidyLogAndApply ==
  ASSUME IInv, IInv', Tidy, LogAndApply
  PROVE  Tidy'
<1>1. /\ pc = "apply" /\ pc' = "append"
      /\ edit' = [edit EXCEPT !.log = EditLogNumber, !.next = nextFile, !.seq = lastSeq]
      /\ IF descriptor THEN UNCHANGED diskVars
         ELSE NewWritableFile(Manifest(manifestNo), <<Snapshot>>)
      /\ UNCHANGED <<job, up, version, nextFile, manifestNo, imm, logFileNo, bgError, pending, garbage>>
  BY DEF LogAndApply, memVars
<1>2. edit'.add = edit.add /\ edit'.next = nextFile /\ nextFile \in Nat
  <2>1. edit \in VersionEdit /\ nextFile \in Nat
    BY Typed DEF ProcessTyped
  <2>2. QED  BY <1>1, <2>1 DEF VersionEdit
<1>3. Ending \/ Serving
  <2>1. CASE up
    BY <2>1 DEF Serving
  <2>2. CASE ~up
    BY <1>1, <2>2 DEF IInv, ProcessInv, PhaseInv, Creating, Opening, Saving, Ending
  <2>3. QED  BY <2>1, <2>2
<1>4. \A d \in Dirs : \A n \in Nat : Manifest(n) \in d.names => n < nextFile
  BY <1>3 DEF Tidy, UsedInv
<1>5. CASE up
  <2>1. UNCHANGED diskVars
    <3>1. descriptor
      BY <1>1, <1>5, ApplyFacts DEF Applying
    <3>2. QED  BY <1>1, <3>1
  <2>2. Modest({}, {}) /\ Dir' = Dir /\ Dirs' = Dirs
    BY <2>1, ModestSame
  <2>3. \A d \in Dirs' : Ahead(d)'
    BY <2>2, KeepAhead DEF Tidy
  <2>4. UsedInv'
    BY <1>1, <1>2, <1>4, <1>5, <2>2 DEF UsedInv, Ending, Saving
  <2>5. Owned'
    BY <1>1, <1>2, <1>5, <2>2 DEF Owned, Tidy
  <2>6. QED  BY <1>1, <2>3, <2>4, <2>5 DEF Tidy
<1>6. CASE ~up
  <2>1. job = "open" /\ Ending
    BY <1>1, <1>3, <1>6 DEF Ending, Saving, Serving
  <2>2. /\ Opening /\ Dir.current # 0 /\ Final.next <= manifestNo /\ manifestNo < nextFile /\ manifestNo \in Nat
        /\ \A d \in Dirs : d.current # manifestNo
        /\ ~descriptor /\ logFileNo \in Nat /\ Log(logFileNo) \in Dir.names
        /\ Snapshot \in VersionEdit /\ <<Snapshot>> \in Seq(VersionEdit)
    BY <1>1, <1>6, <2>1, SaveFacts
  <2>3. manifestNo < logFileNo
    BY <2>1 DEF Tidy, UsedInv
  <2>4. PICK m : m = manifestNo
    OBVIOUS
  <2>5. /\ Frame({Manifest(m)}, {Manifest(m)}) /\ Dir'.names = Dir.names \cup {Manifest(m)}
        /\ \A d \in Dirs' : d \in Dirs \/ d = Dir'
    <3>1. NewWritableFile(Manifest(m), <<Snapshot>>)
      BY <1>1, <2>2, <2>4
    <3>2. Manifest(m) \in FileNames /\ Manifest(m)[1] = "manifest"
      BY <2>2, <2>4, Names DEF Manifest
    <3>3. <<Snapshot>> \in Seq(RecordsOf(Manifest(m)[1])) /\ DiskTyped
      BY <2>2, <3>2, Typed DEF RecordsOf
    <3>4. QED  BY <3>1, <3>2, <3>3, NewFile
  <2>6. \A n : Manifest(n) \in {Manifest(m)} => \A d \in Dirs : d.current # n
    BY <2>2, <2>4, Names
  <2>7. \A n \in Nat : Manifest(n) \in Dir'.names => Manifest(n) \in Dir.names \/ n = m
    BY <2>5, Names
  <2>8. \A v \in Views(Dir.current) : \E l \in LogsFor(Dir, v.log) : m < l
    <3>1. TAKE v \in Views(Dir.current)
    <3>2. v.log < v.next /\ v.next <= Final.next /\ v.log \in Nat /\ v.next \in Nat /\ Final.next \in Nat
      BY <2>2, FinalFacts DEF ViewType, Sound
    <3>3. logFileNo \in LogsFor(Dir, v.log)
      BY <2>2, <2>3, <3>2 DEF LogsFor
    <3>4. QED  BY <2>3, <2>4, <3>3
  <2>9. \A l \in Nat : Log(l) \in Dir.names => Log(l) \in Dir'.names
    BY <2>5
  <2>10. \A n \in Nat : Manifest(n) \in Dir'.names =>
           \/ Manifest(n) \in Dir.names
           \/ Dir.current # 0 /\ \A v \in Views(Dir.current) : \E l \in LogsFor(Dir, v.log) : n < l
    BY <2>2, <2>7, <2>8
  <2>11. \A d \in Dirs' : Ahead(d)'
    <3>1. \A d \in Dirs : Ahead(d)
      BY DEF Tidy
    <3> HIDE DEF Tidy
    <3>2. QED  BY <2>5, <2>6, <2>9, <2>10, <3>1, AheadGrows
  <2>12. \A d \in Dirs' : \A n \in Nat : Manifest(n) \in d.names => n < nextFile
    <3>1. Dir \in Dirs
      BY Typed
    <3>2. QED  BY <1>4, <2>2, <2>4, <2>5, <2>7, <3>1
  <2>13. UsedInv'
    BY <1>1, <1>2, <2>3, <2>12 DEF UsedInv
  <2>14. ~up' /\ pc' # "delete" /\ ~bgError'
    BY <1>1, <1>6 DEF Tidy
  <2>15. QED  BY <2>11, <2>13, <2>14 DEF Tidy
<1>7. QED  BY <1>5, <1>6

\* The edit and the MANIFEST of an open, until CURRENT is set.
LEMMA TidySave ==
  ASSUME IInv, IInv', Tidy, ~up, job = "open", AppendEdit \/ SyncManifest \/ WriteTemp
  PROVE  Tidy'
<1>1. /\ pc \in {"append", "sync", "temp"}
      /\ UNCHANGED <<job, up, nextFile, manifestNo, logFileNo, bgError, edit>>
  BY DEF AppendEdit, SyncManifest, WriteTemp, versionVars, memVars, workVars
<1>2. /\ manifestNo \in Nat /\ nextFile \in Nat /\ edit \in VersionEdit /\ Saving
      /\ Manifest(manifestNo) \in Dir.names /\ Dir.current # manifestNo
      /\ \A d \in Dirs : d.current # manifestNo
  <2>1. Dir \in Dirs
    BY Typed
  <2>2. QED  BY <1>1, <2>1, SaveFacts
<1>3. pc' \in {"sync", "temp", "rename"}
  BY <1>2 DEF AppendEdit, SyncManifest, WriteTemp, NewManifest
<1>4. \E X, Y : Modest(X, Y)
  <2>1. CASE AppendEdit
    <3>1. edit \in RecordsOf(Manifest(manifestNo)[1])
      BY <1>2, RecordKinds
    <3>2. \A d \in Dirs : Manifest(manifestNo) # Manifest(d.current)
      BY <1>2, Names
    <3>3. Modest({}, {Manifest(manifestNo)})
      BY <1>2, <2>1, <3>1, <3>2, ModestAppend DEF AppendEdit
    <3>4. QED  BY <3>3
  <2>2. CASE SyncManifest
    <3>1. Modest({}, {})
      BY <1>2, <2>2, ModestSync DEF SyncManifest
    <3>2. QED  BY <3>1
  <2>3. CASE WriteTemp
    <3>1. Modest({Temp(manifestNo)}, {Temp(manifestNo)})
      BY <1>2, <2>3, ModestTemp DEF WriteTemp
    <3>2. QED  BY <3>1
  <2>4. QED  BY <2>1, <2>2, <2>3
<1>5. PICK X, Y : Modest(X, Y)
  BY <1>4
<1>6. \A d \in Dirs' : Ahead(d)'
  BY <1>5, KeepAhead DEF Tidy
<1>7. UsedInv'
  <2>1. Ending /\ Stamped
    BY <1>1, <1>2 DEF Ending, Stamped
  <2>2. nextFile' \in Nat /\ nextFile' >= nextFile
    BY <1>1, <1>2
  <2>3. edit'.next = edit.next /\ UNCHANGED <<manifestNo, logFileNo>>
    BY <1>1
  <2>4. QED  BY <1>5, <2>1, <2>2, <2>3, KeepUsed DEF Tidy
<1>8. ~up' /\ pc' # "delete" /\ ~bgError'
  BY <1>1, <1>3 DEF Tidy
<1>9. QED  BY <1>6, <1>7, <1>8 DEF Tidy

LEMMA TidyAppends ==
  ASSUME IInv, IInv', Tidy, AppendEdit, up
  PROVE  Tidy'
<1>1. /\ pc = "append" /\ pc' = "sync" /\ UNCHANGED dirs
      /\ UNCHANGED <<up, job, version, nextFile, manifestNo, imm, logFileNo, bgError, pending, edit, garbage>>
  BY DEF AppendEdit, AppendRecord, versionVars, memVars, workVars
<1>2. Dirs' = Dirs /\ Dir' = Dir
  BY <1>1, SameDirs
<1>3. \A d \in Dirs : \A v \in Views(d.current)' : v \in Views(d.current) \/ v.next = edit.next
  BY StepApplyAppends
<1>4. /\ Serving /\ Stamped /\ edit.next \in Nat
      /\ \A d \in Dirs : \A n \in Nat : Manifest(n) \in d.names => n < nextFile /\ n < edit.next
  <2>1. Serving /\ Stamped /\ edit \in VersionEdit
    BY <1>1, Typed DEF Serving, Stamped, ProcessTyped
  <2>2. QED  BY <2>1 DEF Tidy, UsedInv, VersionEdit
<1>5. ASSUME NEW d \in Dirs PROVE Ahead(d)'
  <2>1. Ahead(d) /\ \A v : LogsFor(d, v.log)' = LogsFor(d, v.log)
    BY DEF Tidy, LogsFor
  <2>2. \A n \in Nat : Manifest(n) \in d.names => n <= edit.next
    BY <1>4
  <2>3. QED  BY <1>3, <2>1, <2>2 DEF Ahead
<1>6. UsedInv'
  BY <1>1, <1>2, <1>4 DEF UsedInv, Ending, Saving
<1>7. Owned'
  BY <1>1, <1>2 DEF Owned, Tidy
<1>8. QED  BY <1>1, <1>2, <1>5, <1>6, <1>7 DEF Tidy

\* A step while the database is served.
LEMMA TidyServed ==
  ASSUME IInv, IInv', Tidy, Serving, up \/ pc = "delete", ~bgError', ~Ending', Owned',
         NEW X, NEW Y, Modest(X, Y), nextFile' \in Nat, nextFile' >= nextFile,
         Stamped' => Stamped /\ edit'.next = edit.next
  PROVE  Tidy'
<1>1. \A d \in Dirs' : Ahead(d)'
  BY KeepAhead DEF Tidy
<1>2. UsedInv'
  BY KeepUsed DEF Tidy
<1>3. QED  BY <1>1, <1>2 DEF Tidy

LEMMA TidySync ==
  ASSUME IInv, IInv', Tidy, SyncManifest, up
  PROVE  Tidy'
<1>1. /\ pc = "sync" /\ SyncFile(Manifest(manifestNo), Recs(Manifest(manifestNo)))
      /\ UNCHANGED <<up, job, version, nextFile, manifestNo, imm, logFileNo, bgError, pending, edit, garbage>>
  BY DEF SyncManifest, versionVars, memVars, workVars
<1>2. Serving /\ Manifest(manifestNo) \in Dir.names /\ nextFile \in Nat
  <2>1. Serving /\ nextFile \in Nat
    BY Typed DEF Serving, ProcessTyped
  <2>2. Dir.current = manifestNo /\ Dir.current # 0 /\ DirInv(Dir)
    BY <2>1, ServingFacts, Typed
  <2>3. QED  BY <2>1, <2>2 DEF DirInv
<1>3. Modest({}, {}) /\ Dir' = Dir
  BY <1>1, <1>2, ModestSync
<1>4. Owned'
  BY <1>1, <1>3 DEF Owned, Tidy
<1>5. Stamped /\ ~Ending' /\ nextFile' \in Nat /\ nextFile' >= nextFile /\ ~bgError'
  BY <1>1, <1>2 DEF Stamped, Ending, Saving, Tidy
<1>6. QED  BY <1>1, <1>2, <1>3, <1>4, <1>5, TidyServed

LEMMA TidyFlush ==
  ASSUME IInv, IInv', Tidy, BeginFlush \/ OpenOutput
  PROVE  Tidy'
<1>1. /\ NewWritableFile(Table(nextFile), <<>>) /\ nextFile' = nextFile + 1
      /\ pending' = pending \cup {nextFile}
      /\ UNCHANGED <<version, manifestNo, imm, logFileNo, bgError, edit, garbage>>
  BY DEF BeginFlush, NewTable, OpenOutput
<1>2. up /\ UNCHANGED up /\ pc' \in {"build", "merge"} /\ nextFile \in Nat
  <2>1. up
    BY DEF BeginFlush, OpenOutput, IInv, ProcessInv, PhaseInv, Creating, Opening, Saving
  <2>2. UNCHANGED up /\ pc' \in {"build", "merge"}
    BY DEF BeginFlush, NewTable, OpenOutput
  <2>3. QED  BY <2>1, <2>2, Typed DEF ProcessTyped
<1>3. Modest({Table(nextFile)}, {Table(nextFile)}) /\ Dir'.names = Dir.names \cup {Table(nextFile)}
  BY <1>1, <1>2, ModestTable
<1>4. PICK t \in Nat : t = nextFile
  BY <1>2
<1>5. Owned'
  <2>1. Owned
    BY <1>2 DEF Tidy
  <2>2. /\ \A x \in Nat : Table(x) \in Dir'.names => Table(x) \in Dir.names \/ x = t
        /\ \A x \in Nat : Temp(x) \in Dir'.names => Temp(x) \in Dir.names
        /\ \A x \in Nat : Log(x) \in Dir'.names => Log(x) \in Dir.names
        /\ \A x \in Nat : Manifest(x) \in Dir'.names => Manifest(x) \in Dir.names
    BY <1>3, <1>4, Names
  <2>3. ASSUME NEW x \in Nat, NEW f \in {Table(x), Temp(x)} \cap Dir'.names
        PROVE  x \in version' \cup pending' \cup edit'.add \/ f \in garbage'
    <3>1. f \in Dir.names \/ x = t
      BY <2>2, <2>3
    <3>2. CASE x = t
      BY <1>1, <1>4, <3>2
    <3>3. CASE f \in Dir.names
      BY <1>1, <2>1, <2>3, <3>3 DEF Owned
    <3>4. QED  BY <3>1, <3>2, <3>3
  <2>4. /\ \A l \in Nat : Log(l) \in Dir'.names => imm' # {} \/ l = logFileNo' \/ Log(l) \in garbage'
        /\ \A n \in Nat : Manifest(n) \in Dir'.names => manifestNo' <= n \/ Manifest(n) \in garbage'
    BY <1>1, <2>1, <2>2 DEF Owned
  <2>5. QED  BY <2>3, <2>4 DEF Owned, Table, Temp, Log, Manifest
<1>6. Serving /\ ~Stamped' /\ ~Ending' /\ nextFile' \in Nat /\ nextFile' >= nextFile /\ ~bgError'
  BY <1>1, <1>2 DEF Serving, Stamped, Ending, Saving, Tidy
<1>7. QED  BY <1>2, <1>3, <1>5, <1>6, TidyServed

LEMMA TidyCompact ==
  ASSUME IInv, IInv', Tidy, BeginCompaction \/ FinishOutput
  PROVE  Tidy'
<1>1. /\ up /\ UNCHANGED <<up, version, nextFile, manifestNo, imm, logFileNo, bgError, pending, garbage>>
      /\ pc' \in {"merge", "apply"} /\ pc \in {"idle", "merge"} /\ nextFile \in Nat /\ output \in Nat
  <2>1. up
    BY DEF BeginCompaction, FinishOutput, IInv, ProcessInv, PhaseInv, Creating, Opening, Saving
  <2>2. CASE BeginCompaction
    BY <2>1, <2>2, Typed DEF BeginCompaction, versionVars, memVars, ProcessTyped
  <2>3. CASE FinishOutput
    BY <2>1, <2>3, Typed DEF FinishOutput, versionVars, memVars, ProcessTyped
  <2>4. QED  BY <2>2, <2>3
<1>2. edit.add \subseteq edit'.add
  <2>1. edit = NoEdit
    BY <1>1, UpFacts
  <2>2. edit' = edit \/ edit.add = {}
    BY <2>1 DEF NoEdit
  <2>3. QED  BY <2>1, <2>2 DEF BeginCompaction, NoEdit
<1>3. \E X, Y : Modest(X, Y) /\ Dir' = Dir
  <2>1. CASE BeginCompaction
    <3>1. Modest({}, {}) /\ Dir' = Dir
      BY <2>1, ModestSame DEF BeginCompaction
    <3>2. QED  BY <3>1
  <2>2. CASE FinishOutput
    <3>1. SyncFile(Table(output), <<TableEntries(inputs)>>) /\ pc = "merge" /\ output # 0
      BY <2>2 DEF FinishOutput
    <3>2. ~Applying /\ FreshInv /\ inputs \subseteq version
      BY <1>1, <3>1 DEF Applying, IInv, ProcessInv, VersionInv, Serving
    <3>3. Table(output) \in Dir.names
      BY <3>1, <3>2 DEF FreshInv, Fresh
    <3>4. TableEntries(inputs) \in SUBSET Update
      BY <3>2, InputsTyped
    <3>5. Modest({}, {Table(output)}) /\ Dir' = Dir
      BY <1>1, <3>1, <3>3, <3>4, ModestBuilt
    <3>6. QED  BY <3>5
  <2>3. QED  BY <2>1, <2>2
<1>4. PICK X, Y : Modest(X, Y) /\ Dir' = Dir
  BY <1>3
<1>5. Owned'
  BY <1>1, <1>2, <1>4 DEF Owned, Tidy
<1>6. Serving /\ ~Stamped' /\ ~Ending' /\ nextFile' \in Nat /\ nextFile' >= nextFile /\ ~bgError'
  BY <1>1 DEF Serving, Stamped, Ending, Saving, Tidy
<1>7. QED  BY <1>1, <1>4, <1>5, <1>6, TidyServed

\* The directory's numbers, and what RemoveObsoleteFiles makes of them.
LEMMA NumbersIn ==
  ASSUME NEW n
  PROVE  /\ Table(n) \in Dir.names => n \in Numbers("table")
         /\ Temp(n) \in Dir.names => n \in Numbers("temp")
         /\ Log(n) \in Dir.names => n \in Numbers("log")
         /\ Manifest(n) \in Dir.names => n \in Numbers("manifest")
<1>1. \A k : <<k, n>> \in Dir.names => n \in Numbers(k)
  <2>1. TAKE k
  <2>2. <<k, n>>[1] = k /\ <<k, n>>[2] = n
    OBVIOUS
  <2>3. QED  BY <2>2 DEF Numbers
<1>2. QED  BY <1>1 DEF Table, Temp, Log, Manifest

LEMMA Listed ==
  ASSUME garbage' = Obsolete, UNCHANGED manifestNo
  PROVE  /\ \A t \in Nat : \A f \in {Table(t), Temp(t)} \cap Dir.names :
              t \in version' \cup pending' \/ f \in garbage'
         /\ \A l \in Nat : Log(l) \in Dir.names => ~(l < logNo') \/ Log(l) \in garbage'
         /\ \A n \in Nat : Manifest(n) \in Dir.names => ~(n < manifestNo') \/ Manifest(n) \in garbage'
<1>1. ASSUME NEW t \in Nat, NEW f \in {Table(t), Temp(t)} \cap Dir.names, t \notin version' \cup pending'
      PROVE  f \in garbage'
  <2>1. CASE f = Table(t)
    BY <1>1, <2>1, NumbersIn DEF Obsolete, Live
  <2>2. CASE f = Temp(t)
    BY <1>1, <2>2, NumbersIn DEF Obsolete, Live
  <2>3. QED  BY <1>1, <2>1, <2>2
<1>2. ASSUME NEW l \in Nat, Log(l) \in Dir.names, l < logNo' PROVE Log(l) \in garbage'
  BY <1>2, NumbersIn DEF Obsolete
<1>3. ASSUME NEW n \in Nat, Manifest(n) \in Dir.names, n < manifestNo' PROVE Manifest(n) \in garbage'
  BY <1>3, NumbersIn DEF Obsolete
<1>4. QED  BY <1>1, <1>2, <1>3

LEMMA TidyInstall ==
  ASSUME IInv, IInv', Tidy, Install
  PROVE  Tidy'
<1>1. /\ pc = "install" /\ pc' = "delete" /\ UNCHANGED diskVars /\ logNo' = edit.log
      /\ garbage' = (IF bgError THEN {} ELSE Obsolete)
      /\ imm' = (IF job = "flush" THEN {} ELSE imm)
      /\ UNCHANGED <<up, job, nextFile, manifestNo, logFileNo, bgError>>
  BY DEF Install, RemoveObsoleteFiles
<1>2. garbage' = Obsolete /\ ~bgError'
  BY <1>1 DEF Tidy
<1>3. Modest({}, {}) /\ Dir' = Dir
  BY <1>1, ModestSame
<1>4. /\ Serving /\ job \in {"open", "flush", "merge"} /\ (up <=> job # "open")
      /\ edit.log \in Nat /\ logNo \in Nat /\ (job = "open" => imm = {})
      /\ (job # "merge" => edit.log = logFileNo)
      /\ logFileNo \in Nat /\ nextFile \in Nat /\ manifestNo \in Nat
  <2>1. /\ Serving /\ job \in {"open", "flush", "merge"} /\ (up <=> job # "open")
        /\ edit.log \in Nat /\ logNo \in Nat /\ (job = "open" => imm = {})
    BY <1>1, InstallFacts
  <2>2. ApplyInv /\ ProcessTyped
    BY DEF IInv, ProcessInv
  <2>3. job # "merge" => edit.log = logFileNo
    BY <1>1, <2>1, <2>2 DEF ApplyInv, Applying
  <2>4. QED  BY <2>1, <2>2, <2>3 DEF ProcessTyped
<1>5. \A l \in Nat : Log(l) \in Dir.names => l <= logFileNo
  <2>1. Dir.names \subseteq Reachable(dirs)
    BY Typed
  <2>2. QED  BY <1>4, <2>1, ServingFacts
<1>6. Owned'
  <2>1. ASSUME NEW l \in Nat, Log(l) \in Dir.names, Log(l) \notin garbage'
        PROVE  imm' # {} \/ l = logFileNo
    <3>1. ~(l < edit.log) /\ l <= logFileNo
      BY <1>1, <1>2, <1>5, <2>1, Listed
    <3>2. CASE job = "merge"
      <4>1. up /\ garbage = {} /\ imm' = imm
        BY <1>1, <1>4, <3>2, UpFacts
      <4>2. QED  BY <2>1, <4>1 DEF Tidy, Owned
    <3>3. CASE job # "merge"
      BY <1>4, <3>1, <3>3
    <3>4. QED  BY <3>2, <3>3
  <2>2. \A n \in Nat : Manifest(n) \in Dir.names => manifestNo' <= n \/ Manifest(n) \in garbage'
    BY <1>1, <1>2, <1>4, Listed
  <2>3. \A t \in Nat : \A f \in {Table(t), Temp(t)} \cap Dir.names :
              t \in version' \cup pending' \/ f \in garbage'
    BY <1>1, <1>2, Listed
  <2>4. QED  BY <1>1, <1>3, <2>1, <2>2, <2>3 DEF Owned, Log, Table, Temp, Manifest
<1>7. \A d \in Dirs' : Ahead(d)'
  BY <1>3, KeepAhead DEF Tidy
<1>8. ~Stamped' /\ ~Ending' /\ nextFile' \in Nat /\ nextFile' >= nextFile
  BY <1>1, <1>4 DEF Stamped, Ending, Saving
<1>9. UsedInv'
  BY <1>3, <1>4, <1>8, KeepUsed DEF Tidy
<1>10. QED  BY <1>2, <1>6, <1>7, <1>9 DEF Tidy

LEMMA TidyDelete ==
  ASSUME IInv, IInv', Tidy, ~faulty', DeleteFile \/ Collected
  PROVE  Tidy'
<1>1. /\ pc = "delete" /\ Serving /\ Dir.current = manifestNo /\ Dir.current # 0 /\ nextFile \in Nat
      /\ edit = NoEdit
      /\ \A f \in garbage : \A l \in Nat : f = Log(l) => l < logNo
  <2>1. pc = "delete"
    BY DEF DeleteFile, Collected
  <2>2. QED  BY <2>1, DeleteFacts
<1>2. /\ UNCHANGED <<version, nextFile, manifestNo, imm, logFileNo, bgError, pending>>
      /\ edit'.add = edit.add
      /\ pc' \in {"delete", "merge", "idle"} /\ (pc' = "delete" \/ up')
  <2>1. CASE DeleteFile
    BY <2>1 DEF DeleteFile, versionVars, memVars
  <2>2. CASE Collected
    BY <1>1, <2>2 DEF Collected, Resume, versionVars, memVars
  <2>3. QED  BY <2>1, <2>2
<1>3. Owned
  BY <1>1 DEF Tidy
<1>4. \E X, Y : Modest(X, Y) /\ Owned'
  <2>1. CASE DeleteFile
    <3>1. PICK f \in garbage : garbage' = garbage \ {f} /\ RemoveFile(f)
      <4>1. ~Fails("remove") /\ garbage # {}
        BY <2>1 DEF Fails, DeleteFile
      <4>2. QED  BY <2>1, <4>1 DEF DeleteFile
    <3>2. \A l \in Nat : f = Log(l) => Dir.current # 0 /\ \A v \in Views(Dir.current) : l < v.log
      <4>1. SUFFICES ASSUME NEW l \in Nat, f = Log(l), NEW v \in Views(Dir.current) PROVE l < v.log
        BY <1>1
      <4>2. l < logNo /\ logNo <= v.log /\ v \in ViewType
        BY <1>1, <4>1, ServingFacts
      <4>3. logNo \in Nat /\ v.log \in Nat
        BY <4>2, Typed DEF ProcessTyped, ViewType
      <4>4. QED  BY <4>2, <4>3
    <3>3. Modest({f}, {}) /\ Dir'.names = Dir.names \ {f}
      BY <3>1, <3>2, ModestRemove
    <3>4. Owned'
      BY <1>2, <1>3, <3>1, <3>3 DEF Owned, Table, Temp, Log, Manifest
    <3>5. QED  BY <3>3, <3>4
  <2>2. CASE Collected
    <3>1. UNCHANGED diskVars /\ garbage' = garbage
      BY <2>2 DEF Collected
    <3>2. Modest({}, {}) /\ Dir' = Dir
      BY <3>1, ModestSame
    <3>3. Owned'
      BY <1>2, <1>3, <3>1, <3>2 DEF Owned
    <3>4. QED  BY <3>2, <3>3
  <2>3. QED  BY <2>1, <2>2
<1>5. PICK X, Y : Modest(X, Y) /\ Owned'
  BY <1>4
<1>6. ~Stamped' /\ ~Ending' /\ nextFile' \in Nat /\ nextFile' >= nextFile /\ ~bgError'
  BY <1>1, <1>2 DEF Stamped, Ending, Saving, Tidy
<1>7. QED  BY <1>1, <1>5, <1>6, TidyServed

LEMMA TidyCrash ==
  ASSUME IInv, IInv', Tidy, Crash
  PROVE  Tidy'
<1>1. Forget /\ (UNCHANGED diskVars \/ PowerFails)
  BY DEF Crash
<1>2. ~up' /\ pc' = "down" /\ ~bgError'
  BY <1>1 DEF Forget
<1>3. Early'
  BY <1>2 DEF Early, Ending, Saving, Serving
<1>4. CASE UNCHANGED diskVars
  BY <1>3, <1>4, ModestSame, KeepEarly
<1>5. CASE PowerFails
  <2>1. PICK d \in Dirs :
          /\ Dirs' = {d}
          /\ \A f \in d.names :
               \E n \in files[f].durable..Len(Recs(f)) :
                 Recs(f)' = SubSeq(Recs(f), 1, n) /\ files'[f].durable = n
    BY <1>5, Typed, PowerLeaves
  <2>2. d.current # 0 => Views(d.current)' \subseteq Views(d.current)
    BY <2>1, Typed, PowerViews
  <2>3. Ahead(d) /\ \A v : LogsFor(d, v.log)' = LogsFor(d, v.log)
    BY DEF Tidy, LogsFor
  <2>4. Ahead(d)'
    BY <2>2, <2>3 DEF Ahead
  <2>5. QED  BY <1>2, <1>3, <2>1, <2>4 DEF Tidy, UsedInv, Early
<1>6. QED  BY <1>1, <1>4, <1>5

\* The writer.
LEMMA TidyWriter ==
  ASSUME IInv, IInv', Tidy, ~faulty',
         (\E sync \in BOOLEAN : BeginWrite(sync)) \/ SyncWrite \/ FinishWrite \/ SwitchMemTable
  PROVE  Tidy'
<1>1. /\ up /\ ~bgError /\ UNCHANGED <<up, pc, job, version, manifestNo, bgError, pending, edit, garbage>>
  <2>1. up
    BY DEF BeginWrite, SyncWrite, FinishWrite, SwitchMemTable, Writable, IInv, ProcessInv, WriteInv
  <2>2. UNCHANGED <<up, pc, job, version, manifestNo, bgError, pending, edit, garbage>>
    <3>1. CASE \E sync \in BOOLEAN : BeginWrite(sync)
      BY <3>1 DEF BeginWrite, versionVars, memVars, workVars
    <3>2. CASE SyncWrite
      BY <3>2 DEF SyncWrite, versionVars, memVars, workVars
    <3>3. CASE FinishWrite
      BY <3>3 DEF FinishWrite, workVars
    <3>4. CASE SwitchMemTable
      BY <3>4 DEF SwitchMemTable, workVars
    <3>5. QED  BY <3>1, <3>2, <3>3, <3>4
  <2>3. QED  BY <2>1, <2>2 DEF Tidy
<1>2. Serving /\ Owned /\ ~Ending'
  BY <1>1 DEF Serving, Tidy, Ending, Saving
<1>3. /\ logFileNo \in Nat /\ Log(logFileNo) \in Dir.names /\ nextFile \in Nat /\ lastSeq \in Nat /\ writes \in Nat
  BY <1>1, LogFacts
<1>4. CASE UNCHANGED <<nextFile, imm, logFileNo>> /\ \E X, Y : Modest(X, Y) /\ Dir' = Dir
  <2>1. PICK X, Y : Modest(X, Y) /\ Dir' = Dir
    BY <1>4
  <2>2. Owned'
    BY <1>1, <1>2, <1>4, <2>1 DEF Owned
  <2>3. nextFile' \in Nat /\ nextFile' >= nextFile /\ (Stamped' => Stamped /\ edit'.next = edit.next)
    BY <1>1, <1>3, <1>4 DEF Stamped
  <2>4. QED  BY <1>1, <1>2, <2>1, <2>2, <2>3, TidyServed
<1>5. CASE \E sync \in BOOLEAN : BeginWrite(sync)
  <2>1. PICK sync \in BOOLEAN : BeginWrite(sync)
    BY <1>5
  <2>2. PICK w : w.op = writes + 1 /\ w.seq = lastSeq + 1 /\ AppendRecord(Log(logFileNo), Entry(w))
    BY <2>1 DEF BeginWrite
  <2>3. Entry(w) \in RecordsOf(Log(logFileNo)[1])
    <3>1. Entry(w) \in Update
      BY <1>3, <2>2 DEF Entry, Update
    <3>2. QED  BY <3>1, RecordKinds
  <2>4. \A d \in Dirs : Log(logFileNo) # Manifest(d.current)
    BY Names
  <2>5. Modest({}, {Log(logFileNo)}) /\ Dir' = Dir
    BY <1>3, <2>2, <2>3, <2>4, ModestAppend
  <2>6. UNCHANGED <<nextFile, imm, logFileNo>>
    BY <2>1 DEF BeginWrite, versionVars, memVars
  <2>7. QED  BY <1>4, <2>5, <2>6
<1>6. CASE SyncWrite
  <2>1. Modest({}, {}) /\ Dir' = Dir
    BY <1>3, <1>6, ModestSync DEF SyncWrite
  <2>2. UNCHANGED <<nextFile, imm, logFileNo>>
    BY <1>6 DEF SyncWrite, versionVars, memVars
  <2>3. QED  BY <1>4, <2>1, <2>2
<1>7. CASE FinishWrite
  <2>1. UNCHANGED diskVars /\ UNCHANGED <<nextFile, imm, logFileNo>>
    BY <1>7 DEF FinishWrite
  <2>2. Modest({}, {}) /\ Dir' = Dir
    BY <2>1, ModestSame
  <2>3. QED  BY <1>4, <2>1, <2>2
<1>8. CASE SwitchMemTable
  <2>1. /\ NewWritableFile(Log(nextFile), <<>>) /\ nextFile' = nextFile + 1 /\ imm' # {}
    BY <1>8 DEF SwitchMemTable
  <2>2. Modest({Log(nextFile)}, {Log(nextFile)}) /\ Dir'.names = Dir.names \cup {Log(nextFile)}
    BY <1>3, <2>1, ModestLog
  <2>3. \A x \in Nat : /\ Table(x) \in Dir'.names => Table(x) \in Dir.names
                       /\ Temp(x) \in Dir'.names => Temp(x) \in Dir.names
                       /\ Manifest(x) \in Dir'.names => Manifest(x) \in Dir.names
    BY <2>2, Names
  <2>4. Owned'
    BY <1>1, <1>2, <2>1, <2>3 DEF Owned, Table, Temp, Manifest
  <2>5. nextFile' \in Nat /\ nextFile' >= nextFile /\ (Stamped' => Stamped /\ edit'.next = edit.next)
    BY <1>1, <1>3, <2>1 DEF Stamped
  <2>6. QED  BY <1>1, <1>2, <2>2, <2>4, <2>5, TidyServed
<1>9. QED  BY <1>5, <1>6, <1>7, <1>8

LEMMA TidyStutter ==
  ASSUME IInv, IInv', Tidy, UNCHANGED vars
  PROVE  Tidy'
<1>1. /\ UNCHANGED <<pc, job, up, version, nextFile, manifestNo, imm, logFileNo, bgError, pending>>
      /\ UNCHANGED <<edit, garbage>> /\ Dir' = Dir /\ Dirs' = Dirs /\ \A m : Views(m)' = Views(m)
  BY StutterSame
<1>2. \A d \in Dirs' : Ahead(d)'
  <2>1. SUFFICES ASSUME NEW d \in Dirs PROVE Ahead(d)'
    BY <1>1
  <2>2. Ahead(d) /\ Views(d.current)' = Views(d.current) /\ \A v : LogsFor(d, v.log)' = LogsFor(d, v.log)
    BY <1>1 DEF Tidy, LogsFor
  <2>3. QED  BY <2>2 DEF Ahead
<1>3. UsedInv'
  BY <1>1 DEF Tidy, UsedInv, Ending, Saving, Serving, Stamped
<1>4. Owned' \/ ~(up' \/ pc' = "delete")
  BY <1>1 DEF Tidy, Owned
<1>5. QED  BY <1>1, <1>2, <1>3, <1>4 DEF Tidy

LEMMA StaysFaulty ==
  ASSUME IInv, [Next]_vars, faulty
  PROVE  faulty'
<1>1. CASE Open \/ RecoverVersions \/ RecoverFails \/ OpenLogFails
  BY <1>1 DEF Open, RecoverVersions, RecoverFails, OpenLogFails, Fails, bounds
<1>2. CASE ReadLog \/ ReplayTable \/ ReplayDone \/ OpenLog
  BY <1>2 DEF ReadLog, ReplayTable, ReplayDone, OpenLog, bounds
<1>3. CASE TableBuilt \/ TableFails \/ OutputFails
  BY <1>3 DEF TableBuilt, TableFails, OutputFails, Fails, bounds
<1>4. CASE BeginFlush \/ BeginCompaction \/ OpenOutput \/ FinishOutput
  BY <1>4 DEF BeginFlush, BeginCompaction, OpenOutput, FinishOutput, bounds
<1>5. CASE CreateDB \/ LogAndApply \/ AppendEdit \/ SyncManifest \/ WriteTemp \/ RenameTemp
  BY <1>5 DEF CreateDB, LogAndApply, AppendEdit, SyncManifest, WriteTemp, RenameTemp, bounds
<1>6. CASE ManifestFails \/ CurrentFails \/ Install \/ DeleteFile \/ Collected
  BY <1>6 DEF ManifestFails, CurrentFails, Install, DeleteFile, Collected, Fails, bounds
<1>7. CASE \E sync \in BOOLEAN : BeginWrite(sync)
  BY <1>7 DEF BeginWrite, bounds
<1>8. CASE AppendFails \/ SyncWrite \/ SyncFails \/ FinishWrite \/ SwitchMemTable
  BY <1>8 DEF AppendFails, SyncWrite, SyncFails, FinishWrite, SwitchMemTable, Fails, bounds
<1>9. CASE Crash
  BY <1>9 DEF Crash
<1>10. CASE UNCHANGED vars
  BY <1>10, StutterSame
<1>11. QED  BY <1>1, <1>2, <1>3, <1>4, <1>5, <1>6, <1>7, <1>8, <1>9, <1>10 DEF Next

LEMMA TidyManifest ==
  ASSUME IInv, IInv', Tidy, AppendEdit \/ SyncManifest \/ WriteTemp
  PROVE  Tidy'
<1>1. pc \in {"append", "sync", "temp"}
  BY DEF AppendEdit, SyncManifest, WriteTemp
<1>2. up \/ Creating \/ (~up /\ job = "open")
  BY <1>1 DEF IInv, ProcessInv, PhaseInv, Opening, Saving
<1>3. CASE up
  <2>1. ~WriteTemp
    BY <1>3, UpFacts DEF WriteTemp
  <2>2. QED  BY <1>3, <2>1, TidyAppends, TidySync
<1>4. CASE Creating
  BY <1>4, TidyCreate
<1>5. CASE ~up /\ job = "open"
  BY <1>5, TidySave
<1>6. QED  BY <1>2, <1>3, <1>4, <1>5

LEMMA TidyNext ==
  ASSUME IInv, IInv', Tidy, ~faulty', [Next]_vars
  PROVE  Tidy'
<1>1. CASE Open \/ RecoverVersions \/ RecoverFails \/ ReadLog \/ ReplayDone \/ OpenLogFails
  BY <1>1, TidyOpen
<1>2. CASE ReplayTable \/ OpenLog \/ TableBuilt
  BY <1>2, TidyReplayTable, TidyOpenLog, TidyTableBuilt
<1>3. CASE BeginFlush \/ BeginCompaction \/ OpenOutput \/ FinishOutput
  BY <1>3, TidyFlush, TidyCompact
<1>4. CASE CreateDB
  <2>1. Creating
    BY <1>4 DEF CreateDB, Creating, IInv, ProcessInv, PhaseInv, Applying, Opening, Saving
  <2>2. QED  BY <1>4, <2>1, TidyCreate
<1>5. CASE LogAndApply \/ AppendEdit \/ SyncManifest \/ WriteTemp \/ RenameTemp
  BY <1>5, TidyLogAndApply, TidyManifest, TidyRename
<1>6. CASE Install \/ DeleteFile \/ Collected
  BY <1>6, TidyInstall, TidyDelete
<1>7. CASE TableFails \/ OutputFails \/ ManifestFails \/ CurrentFails \/ AppendFails \/ SyncFails
  BY <1>7 DEF TableFails, OutputFails, ManifestFails, CurrentFails, AppendFails, SyncFails, Fails
<1>8. CASE (\E sync \in BOOLEAN : BeginWrite(sync)) \/ SyncWrite \/ FinishWrite \/ SwitchMemTable
  BY <1>8, TidyWriter
<1>9. CASE Crash
  BY <1>9, TidyCrash
<1>10. CASE UNCHANGED vars
  BY <1>10, TidyStutter
<1>11. QED  BY <1>1, <1>2, <1>3, <1>4, <1>5, <1>6, <1>7, <1>8, <1>9, <1>10 DEF Next

LEMMA TidyInit == Init => TidyInv
<1>1. SUFFICES ASSUME Init PROVE Tidy
  BY DEF TidyInv
<1>2. PICK d : d = [names |-> {}, current |-> 0]
  OBVIOUS
<1>3. dirs = <<d>>
  BY <1>1, <1>2 DEF Init, DiskInit
<1>4. Dirs = {d}
  BY <1>3, EntriesSimple DEF Dirs, EntriesOf
<1>5. \A e \in Dirs : Ahead(e)
  BY <1>2, <1>4 DEF Ahead
<1>6. ~bgError /\ ~up /\ pc = "down"
  BY <1>1 DEF Init
<1>7. QED  BY <1>5, <1>6 DEF Tidy, UsedInv, Ending, Saving, Serving

LEMMA FilesOf ==
  ASSUME IInv
  PROVE  /\ \A n \in Numbers("table") : n \in Nat /\ Table(n) \in Dir.names
         /\ \A n \in Numbers("log") : n \in Nat /\ Log(n) \in Dir.names
         /\ \A n \in Numbers("manifest") : n \in Nat /\ Manifest(n) \in Dir.names
         /\ \A n \in Numbers("temp") : n \in Nat /\ Temp(n) \in Dir.names
<1>1. Dir.names \subseteq FileNames
  BY Typed DEF Directory
<1>2. ASSUME NEW k, NEW n \in Numbers(k) PROVE n \in Nat /\ <<k, n>> \in Dir.names
  <2>1. PICK f \in Dir.names : f[1] = k /\ f[2] = n
    BY <1>2 DEF Numbers
  <2>2. n \in Nat /\ f = <<k, n>>
    BY <1>1, <2>1 DEF FileNames
  <2>3. QED  BY <2>1, <2>2
<1>3. QED  BY <1>2 DEF Table, Log, Manifest, Temp

LEMMA Rests == IInv /\ TidyInv => NothingLeftBehind
<1>1. SUFFICES ASSUME IInv, TidyInv, up, pc = "idle", ~faulty
               PROVE  /\ Numbers("table") = version
                      /\ \A n \in Numbers("log") \ {logFileNo} : imm = {} => Recs(Log(n)) = <<>>
                      /\ manifestNo \in Numbers("manifest")
                      /\ \A n \in Numbers("manifest") : n \in manifestNo..(nextFile - 1)
                      /\ Numbers("temp") \subseteq version
  BY DEF NothingLeftBehind
<1>2. edit.add = {} /\ pending = {} /\ garbage = {} /\ Serving
  BY <1>1, UpFacts DEF NoEdit
<1>3. Owned /\ UsedInv
  BY <1>1 DEF TidyInv, Tidy
<1>4. Numbers("table") = version
  <2>1. Numbers("table") \subseteq version
    BY <1>1, <1>2, <1>3, FilesOf DEF Owned
  <2>2. version \subseteq Numbers("table")
    BY <1>1, Present, NumbersIn
  <2>3. QED  BY <2>1, <2>2
<1>5. \A n \in Numbers("log") \ {logFileNo} : imm # {}
  BY <1>1, <1>2, <1>3, FilesOf DEF Owned
<1>6. manifestNo \in Numbers("manifest") /\ manifestNo \in Nat /\ nextFile \in Nat
  <2>1. Dir.current # 0 /\ Dir.current = manifestNo /\ DirInv(Dir) /\ ProcessTyped
    BY <1>1, <1>2, ServingFacts, Typed
  <2>2. Manifest(manifestNo) \in Dir.names
    BY <2>1 DEF DirInv
  <2>3. QED  BY <2>1, <2>2, NumbersIn DEF ProcessTyped
<1>7. ASSUME NEW n \in Numbers("manifest") PROVE n \in manifestNo..(nextFile - 1)
  <2>1. n \in Nat /\ Manifest(n) \in Dir.names /\ Dir \in Dirs
    BY <1>1, FilesOf, Typed
  <2>2. manifestNo <= n /\ n < nextFile
    BY <1>2, <1>3, <2>1 DEF Owned, UsedInv
  <2>3. QED  BY <1>6, <2>1, <2>2
<1>8. Numbers("temp") \subseteq version
  BY <1>1, <1>2, <1>3, FilesOf DEF Owned
<1>9. QED  BY <1>4, <1>5, <1>6, <1>7, <1>8

\* As long as no call fails RemoveObsoleteFiles leaves nothing but what is in use:
\* when the background thread rests the directory has the version's tables, the
\* logs of the memtables, and no MANIFEST older than the one CURRENT names.
THEOREM DirectoryClean ==
  ASSUME ReuseLogs = FALSE
  PROVE  Spec => []NothingLeftBehind
<1>1. Init => TidyInv
  BY TidyInit
<1>2. IInv /\ IInv' /\ TidyInv /\ [Next]_vars => TidyInv'
  <2>1. SUFFICES ASSUME IInv, IInv', TidyInv, [Next]_vars, ~faulty' PROVE Tidy'
    BY DEF TidyInv
  <2>2. Tidy
    BY <2>1, StaysFaulty DEF TidyInv
  <2>3. QED  BY <2>1, <2>2, TidyNext
<1>3. IInv /\ TidyInv => NothingLeftBehind
  BY Rests
<1>4. QED  BY <1>1, <1>2, <1>3, DurabilityInvariant, PTL DEF Spec

===============================================================================
