------------------------------- MODULE LsmTree -------------------------------
(***************************************************************************)
(* What the memtables, the levels of table files and the snapshots of a DB *)
(* hold, and how flushes and compactions rearrange it while readers and    *)
(* writers go on (db/version_set.cc; the data side of db/db_impl.cc).      *)
(*                                                                         *)
(* A compaction is two actions: it fixes its inputs, the version and the   *)
(* oldest snapshot under the mutex, merges with the mutex released (writes,*)
(* snapshots and the flush of a full memtable come in between) and then    *)
(* installs its outputs.  When a compaction starts is left open: sizes,    *)
(* compact_pointer_ and seek counts decide in the code which file's turn   *)
(* it is, and any file's turn may come.                                    *)
(***************************************************************************)
EXTENDS LsmFiles, SequencesExt, FiniteSetsExt

CONSTANTS
  NumLevels,       \* config::kNumLevels
  MaxMemLevel,     \* config::kMaxMemCompactLevel
  ExpandLimit,     \* ExpandedCompactionByteSizeLimit, in entries (25 files' worth)
  Settings,        \* how the database may be opened and used, see "options"
  NoCompaction     \* no compaction is running

ASSUME LevelsAssumption ==
  /\ NumLevels \in Nat /\ MaxMemLevel \in Nat
  /\ NumLevels > MaxMemLevel + 1
ASSUME SizesAssumption ==
  /\ Settings \subseteq [max_file_size : Nat \ {0}, grandparent_limit : Nat,
                         manual_ranges : SUBSET (Bounds \X Bounds),
                         updates : Seq(SUBSET (Keys \X BOOLEAN)), max_snapshots : Nat]
  /\ ExpandLimit \in Nat

Levels == 0..(NumLevels - 1)

VARIABLES
  options,    \* max_file_size in entries, the limit on overlap with grandparents
              \* (MaxGrandParentOverlapBytes, 10 files' worth), the ranges
              \* CompactRange is called with; BOUND: the updates there are, and for
              \* each the keys and whether it deletes; BOUND: snapshots held at once
  mem, imm,   \* the memtables ({}: imm_ is nullptr)
  levels,     \* the current version: the files of each level, by smallest key
  seq,        \* LastSequence()
  snapshots,  \* snapshots_, the list of sequence numbers in order
  comp,       \* the running compaction, or NoCompaction
  deleted     \* HISTORY: the keys whose newest update is a deletion

treeVars == <<mem, imm, levels, comp>>
vars == <<options, treeVars, seq, snapshots, deleted>>

Init ==
  /\ options \in Settings
  /\ mem = {} /\ imm = {}
  /\ levels = [l \in Levels |-> <<>>]
  /\ seq = 0
  /\ snapshots = <<>>
  /\ comp = NoCompaction
  /\ deleted = {}

(***************************************************************************)
(* Version::files_, and Builder::SaveTo: the files that an edit adds are   *)
(* merged into those of the level, and MaybeAddFile leaves out the deleted *)
(* ones when their turn comes.                                             *)
(***************************************************************************)
FilesOf(l) == ToSet(levels[l])

SaveTo(l, removed, added) ==
  LET base == levels[l]
      new == InOrder(added)
      newFirst(at) == \* it is not past the upper_bound of the next new file
        /\ at.new <= Len(new)
        /\ at.base <= Len(base) => Before(new[at.new].smallest, base[at.base].smallest)
      maybeAdd(files, f) == IF f \in removed THEN files ELSE Append(files, f)
      merge[n \in 0..(Len(base) + Len(new))] ==
        IF n = 0 THEN [base |-> 1, new |-> 1, files |-> <<>>]
        ELSE LET at == merge[n - 1]
             IN  IF newFirst(at)
                 THEN [base |-> at.base, new |-> at.new + 1,
                       files |-> Append(at.files, new[at.new])]
                 ELSE [base |-> at.base + 1, new |-> at.new,
                       files |-> maybeAdd(at.files, base[at.base])]
  IN  merge[Len(base) + Len(new)].files

\* What MaybeAddFile asserts of the files of a level below 0: "Must not overlap".
Disjoint(files) == \A i \in 2..Len(files) : Before(files[i - 1].largest, files[i].smallest)

(***************************************************************************)
(* Reading: the memtables, level 0 from the newest file on, then the one   *)
(* file of each deeper level that may hold the key (Get, ForEachOverlapping*)
(* and SaveValue).  The first source with an entry decides.                *)
(***************************************************************************)
NotFound == 0
Seen(S, k, s) == {e \in S : e.k = k /\ e.s <= s}
Newest(S) == CHOOSE e \in S : \A f \in S : f.s <= e.s

\* What the entries S say of k: the newest one that s sees.
Holds(S, k, s) == Seen(S, k, s) # {}
Value(S, k, s) == IF Newest(Seen(S, k, s)).d THEN NotFound ELSE Newest(Seen(S, k, s)).s

NewestFile(files) == CHOOSE f \in files : \A g \in files : g.num <= f.num

\* The file of a level that FindFile finds, if k is not before it.
FileAt(files, i, k) ==
  IF i <= Len(files) /\ files[i].smallest.k <= k THEN files[i].ents ELSE {}
FileOfLevel(l, k, s) == FileAt(levels[l], FindFile(levels[l], [k |-> k, s |-> s]), k)

VersionGet(k, s) ==
  LET young == {f \in FilesOf(0) : Overlaps(f, k, k) /\ Holds(f.ents, k, s)}
      deeper[l \in 1..NumLevels] ==
        IF l = NumLevels THEN NotFound
        ELSE IF Holds(FileOfLevel(l, k, s), k, s) THEN Value(FileOfLevel(l, k, s), k, s)
        ELSE deeper[l + 1]
  IN  IF young # {} THEN Value(NewestFile(young).ents, k, s) ELSE deeper[1]

Get(k, s) ==
  IF Holds(mem, k, s) THEN Value(mem, k, s)
  ELSE IF Holds(imm, k, s) THEN Value(imm, k, s)
  ELSE VersionGet(k, s)

(***************************************************************************)
(* Writes and snapshots.                                                   *)
(***************************************************************************)
Write(k, d) ==
  /\ seq < Len(options.updates) /\ <<k, d>> \in options.updates[seq + 1]
  /\ seq' = seq + 1
  /\ mem' = mem \cup {[k |-> k, s |-> seq + 1, d |-> d]}
  /\ deleted' = IF d THEN deleted \cup {k} ELSE deleted \ {k}
  /\ UNCHANGED <<imm, levels, snapshots, comp>>

GetSnapshot ==
  /\ Len(snapshots) < options.max_snapshots
  /\ snapshots' = Append(snapshots, seq)
  /\ UNCHANGED <<treeVars, seq, deleted>>

ReleaseSnapshot(i) ==
  /\ snapshots' = RemoveAt(snapshots, i)
  /\ UNCHANGED <<treeVars, seq, deleted>>

\* MakeRoomForWrite: the memtable is full, or CompactRange wants it flushed.
SwitchMemTable ==
  /\ mem # {} /\ imm = {}
  /\ imm' = mem /\ mem' = {}
  /\ UNCHANGED <<levels, seq, snapshots, comp, deleted>>

(***************************************************************************)
(* CompactMemTable: the memtable becomes one file, in level 0 or as deep   *)
(* as nothing overlaps it (PickLevelForMemTableOutput).  A file's number   *)
(* matters only in level 0, where newer files have greater ones.           *)
(***************************************************************************)
PickDeepestLevel(f) == MaxMemLevel \* mutant: the levels are not looked at
PickLevelForMemTableOutput(f) ==
  LET lo == f.smallest.k
      hi == f.largest.k
      overlaps(l) == SomeFileOverlapsRange(FilesOf(l), lo, hi)
      crowded(l) == l < NumLevels /\
        TotalFileSize(GetOverlappingInputs(FilesOf(l), l, lo, hi)) > options.grandparent_limit
      push[l \in 0..MaxMemLevel] ==
        IF l < MaxMemLevel /\ ~overlaps(l + 1) /\ ~crowded(l + 2) THEN push[l + 1] ELSE l
  IN  IF overlaps(0) THEN 0 ELSE push[0]

NewFileNumber == Max({0} \cup {f.num : f \in FilesOf(0)}) + 1

CompactMemTable ==
  /\ imm # {}
  /\ LET f == File(NewFileNumber, imm)
         l == PickLevelForMemTableOutput(f)
     IN  levels' = [levels EXCEPT ![l] = SaveTo(l, {}, {f})]
  /\ imm' = {}
  /\ UNCHANGED <<mem, seq, snapshots, comp, deleted>>

(***************************************************************************)
(* SetupOtherInputs: the inputs of the level, of the next one, and more of *)
(* the level if that leaves the next level's the same.                     *)
(***************************************************************************)
SetupOtherInputs(level, chosen) ==
  LET overlapping(l, lo, hi) == GetOverlappingInputs(FilesOf(l), l, lo, hi)
      below(in) == overlapping(level + 1, LowKey(in), HighKey(in))
      in0 == AddBoundaryInputs(FilesOf(level), chosen)
      in1 == below(in0)
      all == in0 \cup in1
      more0 == AddBoundaryInputs(FilesOf(level), overlapping(level, LowKey(all), HighKey(all)))
      more1 == below(more0)
      grows == /\ in1 # {}
               /\ Cardinality(more0) > Cardinality(in0)
               /\ TotalFileSize(in1) + TotalFileSize(more0) < ExpandLimit
               /\ Cardinality(more1) = Cardinality(in1)
      all2 == IF grows THEN more0 \cup more1 ELSE all
  IN  [level |-> level,
       in0 |-> IF grows THEN more0 ELSE in0,
       in1 |-> IF grows THEN more1 ELSE in1,
       gps |-> IF level + 2 < NumLevels
               THEN overlapping(level + 2, LowKey(all2), HighKey(all2)) ELSE {}]

IsTrivialMove(c) ==
  Cardinality(c.in0) = 1 /\ c.in1 = {} /\ TotalFileSize(c.gps) <= options.grandparent_limit

(***************************************************************************)
(* A compaction starts when no memtable waits and none is running.         *)
(***************************************************************************)
NoSnapshots == seq \* mutant: snapshots are not looked at
OldestSnapshot == IF snapshots = <<>> THEN seq ELSE Head(snapshots)

Running(c, manual) ==
  [c |-> c, manual |-> manual, base |-> levels, snapshot |-> OldestSnapshot]

Idle == comp = NoCompaction /\ imm = {}

\* Unless the file can simply move to the next level.
PickCompaction(level, f) ==
  /\ Idle
  /\ LET inputs == GetOverlappingInputs(FilesOf(0), 0, f.smallest.k, f.largest.k)
         c == SetupOtherInputs(level, IF level = 0 THEN inputs ELSE {f})
     IN  IF IsTrivialMove(c)
         THEN /\ levels' = [levels EXCEPT ![level] = SaveTo(level, c.in0, {}),
                                      ![level + 1] = SaveTo(level + 1, {}, c.in0)]
              /\ UNCHANGED comp
         ELSE comp' = Running(c, FALSE) /\ UNCHANGED levels
  /\ UNCHANGED <<mem, imm, seq, snapshots, deleted>>

\* CompactRange of one level: below level 0 it takes files only until their
\* sizes add up to options.max_file_size.
FirstFiles(files) ==
  LET order == InOrder(files)
      upTo(i) == {order[j] : j \in 1..i}
      full == {i \in DOMAIN order : TotalFileSize(upTo(i)) >= options.max_file_size}
  IN  IF full = {} THEN files ELSE upTo(Min(full))

ManualCompaction(level, lo, hi) ==
  /\ Idle
  /\ LET found == GetOverlappingInputs(FilesOf(level), level, lo, hi)
         inputs == IF level > 0 THEN FirstFiles(found) ELSE found
     IN  found # {} /\ comp' = Running(SetupOtherInputs(level, inputs), TRUE)
  /\ UNCHANGED <<mem, imm, levels, seq, snapshots, deleted>>

(***************************************************************************)
(* DoCompactionWork.  An entry is dropped when a newer one of its key hides*)
(* it from the oldest snapshot, and a deletion also when nothing older of  *)
(* its key is below the output level.                                      *)
(***************************************************************************)
IsBaseLevelForKey(r, k) ==
  \A l \in (r.c.level + 2)..(NumLevels - 1) : ~SomeFileOverlapsRange(ToSet(r.base[l]), k, k)

Input(r) == Entries(r.c.in0 \cup r.c.in1)

Dropped(r, e) ==
  \/ \E f \in Input(r) : f.k = e.k /\ f.s > e.s /\ f.s <= r.snapshot
  \/ e.d /\ e.s <= r.snapshot /\ IsBaseLevelForKey(r, e.k)

\* The merged input in order, cut into files: before a key that has passed too
\* many grandparent entries (ShouldStopBefore), and when a file is full.
Outputs(r) ==
  LET input == OrderBy(Input(r), Before)
      passed(i) == {f \in r.c.gps : Before(f.largest, input[i])}
      step(acc, i) ==
        LET over == acc.over + (IF i = 1 THEN 0 ELSE TotalFileSize(passed(i) \ passed(i - 1)))
            stop == over > options.grandparent_limit
            done == IF stop /\ acc.open # {} THEN acc.done \cup {acc.open} ELSE acc.done
            kept == IF Dropped(r, input[i]) THEN {} ELSE {input[i]}
            open == (IF stop THEN {} ELSE acc.open) \cup kept
            full == kept # {} /\ Cardinality(open) >= options.max_file_size
        IN  [done |-> IF full THEN done \cup {open} ELSE done,
             open |-> IF full THEN {} ELSE open,
             over |-> IF stop THEN 0 ELSE over]
      all == FoldLeftDomain(step, [done |-> {}, open |-> {}, over |-> 0], input)
  IN  {File(0, S) : S \in (all.done \cup {all.open}) \ {{}}}

\* InstallCompactionResults: the inputs leave, the outputs come.  The package is
\* built without NDEBUG: if the outputs overlap another file, the assertion ends
\* the process before the edit reaches the MANIFEST, and nothing is installed.
Compacted(r) ==
  LET l == r.c.level
  IN  [levels EXCEPT ![l] = SaveTo(l, r.c.in0, {}),
                     ![l + 1] = SaveTo(l + 1, r.c.in1, Outputs(r))]

InstallCompaction ==
  /\ comp # NoCompaction
  /\ Disjoint(Compacted(comp)[comp.c.level + 1])
  /\ levels' = Compacted(comp)
  /\ comp' = NoCompaction
  /\ UNCHANGED <<mem, imm, seq, snapshots, deleted>>

\* A write or sync of an output fails, or the DB is closing: no edit is made.
AbandonCompaction ==
  /\ comp # NoCompaction
  /\ comp' = NoCompaction
  /\ UNCHANGED <<mem, imm, levels, seq, snapshots, deleted>>

Step ==
  \/ \E k \in Keys, d \in BOOLEAN : Write(k, d)
  \/ GetSnapshot
  \/ \E i \in DOMAIN snapshots : ReleaseSnapshot(i)
  \/ SwitchMemTable
  \/ CompactMemTable
  \/ \E l \in 0..(NumLevels - 2) : \E f \in FilesOf(l) : PickCompaction(l, f)
  \/ \E l \in 0..(NumLevels - 2), r \in options.manual_ranges : ManualCompaction(l, r[1], r[2])
  \/ InstallCompaction
  \/ AbandonCompaction

Next == Step /\ UNCHANGED options

Spec == Init /\ [][Next]_vars

(***************************************************************************)
(* Properties.                                                             *)
(***************************************************************************)
\* "Make sure there is no overlap in levels > 0" (Builder::SaveTo): what the binary
\* search of Get and the concatenating iterators rely on.  Flushes and moves keep
\* the levels disjoint, and so does a compaction whenever it may end, whatever was
\* flushed while it merged: except a manual one, whose inputs may have a gap, when
\* the memtable was flushed into that gap of the level it writes to.
LevelsDisjoint ==
  /\ \A l \in Levels \ {0} : Disjoint(levels[l])
  /\ comp # NoCompaction =>
       LET l == comp.c.level + 1
           inGap(f) == ~SomeFileOverlapsRange(comp.c.in0 \cup comp.c.in1, f.smallest.k, f.largest.k)
       IN  \/ Disjoint(Compacted(comp)[l])
           \/ comp.manual /\ \E f \in FilesOf(l) \ ToSet(comp.base[l]) : inGap(f)

\* "data in lower levels will have larger sequence numbers": of two entries of
\* a key, the one a reader meets first is the newer one, across memtables,
\* level-0 files in the order of their numbers, and levels.
NewerAbove ==
  LET young == OrderBy(FilesOf(0), LAMBDA f, g : f.num > g.num)
      layers == <<mem, imm>> \o [i \in DOMAIN young |-> young[i].ents]
                             \o [l \in 1..(NumLevels - 1) |-> Entries(FilesOf(l))]
  IN  \A i, j \in DOMAIN layers : i < j =>
        \A e \in layers[i], f \in layers[j] : e.k = f.k => e.s > f.s

\* "Therefore this deletion marker is obsolete and can be dropped": no key
\* whose newest update is a deletion can be read.
DeletedStaysDeleted == \A k \in deleted : Get(k, seq) = NotFound

\* Reads at the newest sequence number and at every snapshot are those of a
\* map that is updated by writes alone: flushes, moves and compactions, and
\* the order of all of it with snapshots taken and released, do not show.
Map == INSTANCE SnapshotMap WITH
  map <- [k \in Keys |-> Get(k, seq)],
  last <- seq,
  snaps <- [i \in DOMAIN snapshots |-> [k \in Keys |-> Get(k, snapshots[i])]]

ImplementsSnapshotMap == Map!Spec
==============================================================================
