------------------------------- MODULE Readers -------------------------------
(***************************************************************************)
(* Who keeps what alive while the database is read without its mutex:      *)
(* versions and memory tables by their references, tables by the handles   *)
(* of the table cache (db/table_cache.cc), table files by the versions     *)
(* that list them, and mappings and descriptors by the limiters of the Env *)
(* (util/env_posix.cc).  Readers are calls of Get and iterators; the       *)
(* background thread flushes, compacts and removes obsolete files, and     *)
(* reads through the same table cache.                                     *)
(*                                                                         *)
(* A step is one critical section of mutex_, of the cache's mutex, one     *)
(* atomic operation of a limiter or one call of the file system.           *)
(***************************************************************************)
EXTENDS LRUCache, FiniteSets

CONSTANTS
  Clients,       \* threads that read
  Scanners,      \* those of them that use iterators; the others call Get
  bg,            \* the background thread
  MmapLimit, FdLimit,
  MaxFiles,      \* BOUND: tables created
  MaxMemTables   \* BOUND: memory tables made

Actors == Clients \cup {bg}
Files == 1..MaxFiles

ASSUME ReadersAssumption ==
  /\ IsFiniteSet(Clients) /\ bg \notin Clients /\ "free" \notin Actors
  /\ MaxFiles \in Nat \ {0} /\ CacheKeys = Files
  /\ MaxEntries \in Nat /\ capacity_ \in Nat /\ MmapLimit \in Nat /\ FdLimit \in Nat

VARIABLES
  mutex_,      \* who holds DBImpl::mutex_ for longer than one step, or "free"
  cache_,      \* TableCache::cache_
  disk,        \* the table files in the directory
  versions,    \* the versions made so far: [refs, level0, level1]; refs 0: deleted
  memtables,   \* the references of the memory tables made so far
  mem_, imm_,  \* imm_ = 0: nullptr
  pending_outputs_,
  bg_error_,
  mmap_allowed, fd_allowed,  \* Limiter::acquires_allowed_
  actor,       \* what each actor does, see NoCall
  opened,      \* [handle -> how its file is open: "mmap", "fd" or "reopen"]
  next_file_number_,
  flush,       \* CompactMemTable: [output, base]
  compact,     \* CompactionState: [version, outputs, builder]
  files_to_delete

workVars == <<next_file_number_, pending_outputs_, bg_error_, flush, compact, files_to_delete>>
dbVars == <<versions, memtables, mem_, imm_, workVars>>
fileVars == <<cache_, mmap_allowed, fd_allowed, opened>>
vars == <<mutex_, disk, actor, dbVars, fileVars>>

\* pc "idle": no call; "collect": the tables of level 0 in "todo" are opened,
\* holding mutex_; "read" and "end" of a reader; the steps of FindTable, which
\* returns to "back"; and those of the background thread.
NoCall == [pc |-> "idle", iterator |-> FALSE, version |-> 0, mem |-> 0, imm |-> 0, todo |-> {},
           file |-> 0, how |-> "none", back |-> "idle", handles |-> {}]
NoFlush == [output |-> 0, base |-> 0]
NoCompaction == [version |-> 0, outputs |-> {}, builder |-> 0]

current_ == Len(versions)
FilesOf(v) == versions[v].level0 \cup versions[v].level1
HandleOf(a, f) == {h \in actor[a].handles : Key(h) = f}

\* BOUND: either all clients call and a memory table waits for its flush, or one
\* client calls and writers may still fill a memory table.
AllRun == actor = [a \in Actors |-> NoCall]
OneRuns ==
  \E c \in Clients : actor = [a \in Actors |-> IF a \in {c, bg} THEN NoCall ELSE [NoCall EXCEPT !.pc = "gone"]]

Init ==
  /\ mutex_ = "free"
  /\ cache_ = EmptyCache
  /\ disk = {1}
  /\ versions = <<[refs |-> 1, level0 |-> {1}, level1 |-> {}]>>
  /\ \/ AllRun /\ memtables = <<1, 1>> /\ mem_ = 2 /\ imm_ = 1
     \/ OneRuns /\ memtables = <<1>> /\ mem_ = 1 /\ imm_ = 0
  /\ pending_outputs_ = {}
  /\ bg_error_ = FALSE
  /\ mmap_allowed = MmapLimit /\ fd_allowed = FdLimit
  /\ opened = [h \in Handles |-> "none"]
  /\ next_file_number_ = 2
  /\ flush = NoFlush /\ compact = NoCompaction /\ files_to_delete = {}

Locked == mutex_ = "free"

------------------------------------------------------------------------------
\* References

DeletedVersion == [refs |-> 0, level0 |-> {}, level1 |-> {}]
RefVersion(vs, v) == [vs EXCEPT ![v].refs = @ + 1]
UnrefVersion(vs, v) ==
  IF vs[v].refs = 1 THEN [vs EXCEPT ![v] = DeletedVersion] ELSE [vs EXCEPT ![v].refs = @ - 1]

\* VersionSet::AppendVersion
AppendVersion(vs, files0, files1) ==
  Append(UnrefVersion(vs, Len(vs)), [refs |-> 1, level0 |-> files0, level1 |-> files1])

RefMem(ms, m) == IF m = 0 THEN ms ELSE [ms EXCEPT ![m] = @ + 1]
UnrefMem(ms, m) == IF m = 0 THEN ms ELSE [ms EXCEPT ![m] = @ - 1]

CacheIs(c) == cache_' = [c EXCEPT !.dead = {}]

\* DeleteEntry for each handle that died: munmap or close, Limiter::Release.
CloseAll(c) ==
  LET gone(how) == Cardinality({h \in c.dead : opened[h] = how}) IN
    /\ mmap_allowed' = mmap_allowed + gone("mmap")
    /\ fd_allowed' = fd_allowed + gone("fd")

\* What an operation of the cache that ends in c does.
CacheStep(c) ==
  /\ CacheIs(c)
  /\ CloseAll(c)
  /\ opened' = [h \in Handles |-> IF h \in c.dead THEN "none" ELSE opened[h]]

------------------------------------------------------------------------------
\* FindTable(f) for actor a: Lookup, and after a miss NewRandomAccessFile with
\* its two limiters, Table::Open, Insert.

At(a, pc) == actor[a].pc = pc
Goto(a, pc) == actor' = [actor EXCEPT ![a].pc = pc]

Lookup(a, f, back) ==
  /\ HandleOf(a, f) = {}
  /\ LET h == cache_.table[f] IN
       \/ /\ h # None
          /\ actor' = [actor EXCEPT ![a].pc = back, ![a].todo = @ \ {f}, ![a].handles = @ \cup {h}]
          /\ CacheStep(Ref(cache_, h))
       \/ /\ h = None
          /\ actor' = [actor EXCEPT ![a].pc = "open", ![a].todo = @ \ {f}, ![a].file = f, ![a].back = back]
          /\ UNCHANGED fileVars
  /\ UNCHANGED <<mutex_, disk, dbVars>>

\* FindTable returns: with the handle, or with an error.
Return(a, handles) ==
  actor' = [actor EXCEPT ![a].pc = actor[a].back, ![a].back = "idle", ![a].file = 0,
                         ![a].how = "none", ![a].handles = @ \cup handles]

\* NewRandomAccessFile.  Limiter::Acquire takes what is left, or gives back
\* what it took.  Without a permanent descriptor every read opens the file again.
OpenFile(a) ==
  /\ At(a, "open") /\ actor[a].file \in disk
  /\ LET how == IF mmap_allowed > 0 THEN "mmap" ELSE IF fd_allowed > 0 THEN "fd" ELSE "reopen" IN
       /\ actor' = [actor EXCEPT ![a].pc = "table", ![a].how = how]
       /\ mmap_allowed' = mmap_allowed - (IF how = "mmap" THEN 1 ELSE 0)
       /\ fd_allowed' = fd_allowed - (IF how = "fd" THEN 1 ELSE 0)
  /\ UNCHANGED <<mutex_, disk, dbVars, cache_, opened>>

\* Table::Open, cache_->Insert: it may replace a table another actor inserted.
InsertTable(a) ==
  /\ At(a, "table")
  /\ CanInsert(cache_, actor[a].file)
  /\ LET h == NewHandle(cache_, actor[a].file)
         c == Insert(cache_, actor[a].file, 1)
     IN  /\ Return(a, {h})
         /\ CacheIs(c) /\ CloseAll(c)
         /\ opened' = [e \in Handles |-> IF e = h THEN actor[a].how
                                         ELSE IF e \in c.dead THEN "none" ELSE opened[e]]
  /\ UNCHANGED <<mutex_, disk, dbVars>>

OpenFailsForGood(a) == \* mutant: the limiter gets nothing back
  /\ At(a, "open") \/ At(a, "table")
  /\ Return(a, {})
  /\ UNCHANGED <<mutex_, disk, dbVars, cache_, opened, mmap_allowed, fd_allowed>>

\* open() or mmap() fails, or Table::Open: the file is closed, nothing is cached.
OpenFails(a) ==
  /\ At(a, "open") \/ At(a, "table")
  /\ Return(a, {})
  /\ mmap_allowed' = mmap_allowed + (IF actor[a].how = "mmap" THEN 1 ELSE 0)
  /\ fd_allowed' = fd_allowed + (IF actor[a].how = "fd" THEN 1 ELSE 0)
  /\ UNCHANGED <<mutex_, disk, dbVars, cache_, opened>>

\* UnrefEntry, or the Release at the end of TableCache::Get
ReleaseTable(a, h) ==
  /\ h \in actor[a].handles
  /\ actor' = [actor EXCEPT ![a].handles = @ \ {h}]
  /\ CacheStep(Unref(cache_, h))
  /\ UNCHANGED <<mutex_, disk, dbVars>>

\* Tables of one level, which overlap here, are in the order of their numbers.
First(files) == {f \in files : \A g \in files : f <= g}

\* ~MergingIterator: the children of level 0, then that of level 1
ReleaseNext(a, v) ==
  LET keys == {Key(h) : h \in actor[a].handles}
      next == First(IF keys \cap v.level0 # {} THEN keys \cap v.level0 ELSE keys)
  IN  \E h \in actor[a].handles : Key(h) \in next /\ ReleaseTable(a, h)

FindTableStep(a) == OpenFile(a) \/ InsertTable(a) \/ OpenFails(a)

------------------------------------------------------------------------------
\* Clients

\* DBImpl::Get up to where it unlocks.
BeginGet(a) ==
  /\ Locked /\ At(a, "idle") /\ a \notin Scanners
  /\ actor' = [actor EXCEPT ![a].pc = "read", ![a].version = current_, ![a].mem = mem_, ![a].imm = imm_]
  /\ memtables' = RefMem(RefMem(memtables, mem_), imm_)
  /\ versions' = RefVersion(versions, current_)
  /\ UNCHANGED <<mutex_, disk, fileVars, mem_, imm_, workVars>>

\* NewInternalIterator: the tables of level 0 are opened, the reference on the
\* version is taken last, and mutex_ is held all the time.
BeginIterator(a) ==
  /\ Locked /\ At(a, "idle") /\ a \in Scanners
  /\ mutex_' = a
  /\ actor' = [actor EXCEPT ![a].pc = "collect", ![a].iterator = TRUE, ![a].mem = mem_, ![a].imm = imm_,
                            ![a].todo = versions[current_].level0]
  /\ memtables' = RefMem(RefMem(memtables, mem_), imm_)
  /\ UNCHANGED <<disk, fileVars, versions, mem_, imm_, workVars>>

\* A table that cannot be opened gives an error iterator, and the others are
\* opened all the same.
CollectTable(a) == At(a, "collect") /\ \E f \in First(actor[a].todo) : Lookup(a, f, "collect")

IteratorMade(a) ==
  /\ At(a, "collect") /\ actor[a].todo = {}
  /\ mutex_' = "free"
  /\ actor' = [actor EXCEPT ![a].pc = "read", ![a].version = current_]
  /\ versions' = RefVersion(versions, current_)
  /\ UNCHANGED <<disk, fileVars, memtables, mem_, imm_, workVars>>

\* A Get opens one table after the other; an iterator those of level 1 as it
\* comes to them, the next one before the last is released.
ReadTable(a) ==
  /\ At(a, "read")
  /\ LET v == versions[actor[a].version] IN
       IF actor[a].iterator
       THEN /\ Cardinality({h \in actor[a].handles : Key(h) \in v.level1}) <= 1
            /\ \E f \in v.level1 : Lookup(a, f, "read")
       ELSE actor[a].handles = {} /\ \E f \in FilesOf(actor[a].version) : Lookup(a, f, "read")

DoneWithTable(a) ==
  /\ At(a, "read")
  /\ \E h \in actor[a].handles :
       /\ actor[a].iterator => Key(h) \in versions[actor[a].version].level1
       /\ ReleaseTable(a, h)

\* ~Iterator deletes the children before its cleanup runs.
DeleteIterator(a) ==
  /\ At(a, "read") /\ actor[a].iterator
  /\ Goto(a, "end")
  /\ UNCHANGED <<mutex_, disk, dbVars, fileVars>>

ReleaseChild(a) == At(a, "end") /\ ReleaseNext(a, versions[actor[a].version])

EndReadOfNow(a) == \* mutant: imm_ is released, not the table that was referenced
  /\ Locked /\ actor[a].handles = {}
  /\ IF actor[a].iterator THEN At(a, "end") ELSE At(a, "read")
  /\ actor' = [actor EXCEPT ![a] = NoCall]
  /\ memtables' = UnrefMem(UnrefMem(memtables, actor[a].mem), imm_)
  /\ versions' = UnrefVersion(versions, actor[a].version)
  /\ UNCHANGED <<mutex_, disk, fileVars, mem_, imm_, workVars>>

\* The end of Get; CleanupIteratorState
EndRead(a) ==
  /\ Locked /\ actor[a].handles = {}
  /\ IF actor[a].iterator THEN At(a, "end") ELSE At(a, "read")
  /\ actor' = [actor EXCEPT ![a] = NoCall]
  /\ memtables' = UnrefMem(UnrefMem(memtables, actor[a].mem), actor[a].imm)
  /\ versions' = UnrefVersion(versions, actor[a].version)
  /\ UNCHANGED <<mutex_, disk, fileVars, mem_, imm_, workVars>>

ClientStep(a) ==
  \/ BeginGet(a) \/ BeginIterator(a) \/ CollectTable(a) \/ IteratorMade(a) \/ ReadTable(a)
  \/ DoneWithTable(a) \/ DeleteIterator(a) \/ ReleaseChild(a) \/ EndRead(a)

------------------------------------------------------------------------------
\* MakeRoomForWrite, of a writer: mem_ becomes imm_ with the reference on it.

SwitchMemTable ==
  /\ Locked /\ imm_ = 0 /\ ~bg_error_
  /\ Len(memtables) < MaxMemTables
  /\ memtables' = Append(memtables, 1)
  /\ imm_' = mem_ /\ mem_' = Len(memtables')
  /\ UNCHANGED <<mutex_, disk, actor, fileVars, versions, workVars>>

------------------------------------------------------------------------------
\* The background thread: a flush, alone or within a compaction

AddCurrentFiles(vs) == vs[Len(vs)].level0 \cup vs[Len(vs)].level1 \* mutant: only the current version

\* VersionSet::AddLiveFiles
AddLiveFiles(vs) == UNION {vs[v].level0 \cup vs[v].level1 : v \in {w \in 1..Len(vs) : vs[w].refs > 0}}

NotEvicted(c, files) == c \* mutant: the table cache keeps the removed tables

\* RemoveObsoleteFiles up to where it unlocks mutex_: the tables on disk that
\* nobody needs leave the table cache.
Evicted(c, files) == FoldFunction(LAMBDA f, d : Erase(d, f), c, [f \in files |-> f])
RemoveObsoleteFiles(vs, pending) ==
  LET garbage == IF bg_error_ THEN {} ELSE disk \ (pending \cup AddLiveFiles(vs)) IN
    /\ files_to_delete' = garbage
    /\ CacheStep(Evicted(cache_, garbage))

DeleteFile ==
  /\ \E f \in files_to_delete : disk' = disk \ {f} /\ files_to_delete' = files_to_delete \ {f}
  /\ UNCHANGED <<mutex_, actor, fileVars, versions, memtables, mem_, imm_, next_file_number_,
                 pending_outputs_, bg_error_, flush, compact>>

BgAt(pc) == At(bg, pc) /\ files_to_delete = {}
Merging == compact.version # 0
NewFileNumber ==
  /\ next_file_number_ <= MaxFiles
  /\ next_file_number_' = next_file_number_ + 1
  /\ pending_outputs_' = pending_outputs_ \cup {next_file_number_}

\* CompactMemTable; a compaction that sees has_imm_ calls it whatever bg_error_ says.
BeginFlush ==
  /\ Locked /\ imm_ # 0
  /\ BgAt("merge") \/ (BgAt("idle") /\ ~bg_error_)
  /\ NewFileNumber
  /\ flush' = [output |-> next_file_number_, base |-> current_]
  /\ versions' = RefVersion(versions, current_)
  /\ Goto(bg, "build")
  /\ UNCHANGED <<mutex_, disk, fileVars, memtables, mem_, imm_, bg_error_, compact, files_to_delete>>

\* BuildTable: the file is written, synced and closed, or removed again.
BuildTable ==
  /\ BgAt("build")
  /\ \/ disk' = disk \cup {flush.output} /\ Goto(bg, "verify")
     \/ disk' = disk /\ Goto(bg, "not_built")
  /\ UNCHANGED <<mutex_, dbVars, fileVars>>

VerifyTable == BgAt("verify") /\ Lookup(bg, flush.output, "verified")

TableVerified ==
  /\ BgAt("verified")
  /\ \E h \in HandleOf(bg, flush.output) :
       /\ actor' = [actor EXCEPT ![bg].pc = "built", ![bg].handles = @ \ {h}]
       /\ CacheStep(Unref(cache_, h))
  /\ UNCHANGED <<mutex_, disk, dbVars>>

TableUnusable ==
  /\ BgAt("verified") /\ HandleOf(bg, flush.output) = {}
  /\ disk' = disk \ {flush.output}
  /\ Goto(bg, "not_built")
  /\ UNCHANGED <<mutex_, dbVars, fileVars>>

\* WriteLevel0Table returns: its file is no longer pending, base is released,
\* and LogAndApply unlocks mutex_ to write the MANIFEST.
FlushBuilt ==
  /\ Locked /\ BgAt("built")
  /\ pending_outputs_' = pending_outputs_ \ {flush.output}
  /\ versions' = UnrefVersion(versions, flush.base)
  /\ flush' = [flush EXCEPT !.base = 0]
  /\ Goto(bg, "flush_manifest")
  /\ UNCHANGED <<mutex_, disk, fileVars, memtables, mem_, imm_, next_file_number_, bg_error_,
                 compact, files_to_delete>>

Resume == Goto(bg, IF Merging THEN "merge" ELSE "idle")

\* Every table holds all the keys, so PickLevelForMemTableOutput says level 0.
FlushCommitted ==
  /\ Locked /\ BgAt("flush_manifest")
  /\ versions' = AppendVersion(versions, versions[current_].level0 \cup {flush.output},
                               versions[current_].level1)
  /\ memtables' = UnrefMem(memtables, imm_)
  /\ imm_' = 0
  /\ flush' = NoFlush
  /\ RemoveObsoleteFiles(versions', pending_outputs_)
  /\ Resume
  /\ UNCHANGED <<mutex_, disk, mem_, next_file_number_, pending_outputs_, bg_error_, compact>>

\* The table was not built, or the MANIFEST not written.
FlushFails ==
  /\ Locked /\ (BgAt("not_built") \/ BgAt("flush_manifest"))
  /\ bg_error_' = TRUE
  /\ pending_outputs_' = pending_outputs_ \ {flush.output}
  /\ versions' = IF flush.base = 0 THEN versions ELSE UnrefVersion(versions, flush.base)
  /\ flush' = NoFlush
  /\ Resume
  /\ UNCHANGED <<mutex_, disk, fileVars, memtables, mem_, imm_, next_file_number_, compact, files_to_delete>>

------------------------------------------------------------------------------
\* The background thread: a compaction

\* Of all the files of the current version, as CompactRange with no bounds asks.
BeginCompaction ==
  /\ Locked /\ BgAt("idle") /\ imm_ = 0 /\ ~bg_error_
  /\ versions[current_].level0 # {}
  /\ mutex_' = bg
  /\ compact' = [NoCompaction EXCEPT !.version = current_]
  /\ versions' = RefVersion(versions, current_)
  /\ actor' = [actor EXCEPT ![bg].pc = "collect", ![bg].todo = versions[current_].level0]
  /\ UNCHANGED <<disk, fileVars, memtables, mem_, imm_, next_file_number_, pending_outputs_,
                 bg_error_, flush, files_to_delete>>

\* MakeInputIterator
OpenInput == BgAt("collect") /\ \E f \in First(actor[bg].todo) : Lookup(bg, f, "collect")

StartMerge ==
  /\ BgAt("collect") /\ actor[bg].todo = {}
  /\ mutex_' = "free"
  /\ Goto(bg, "merge")
  /\ UNCHANGED <<disk, dbVars, fileVars>>

OpenNextInput ==
  /\ BgAt("merge")
  /\ \E f \in versions[compact.version].level1 : Lookup(bg, f, "merge")

DoneWithInput ==
  /\ BgAt("merge")
  /\ \E h \in actor[bg].handles :
       Key(h) \in versions[compact.version].level1 /\ ReleaseTable(bg, h)

OpenCompactionOutputFile ==
  /\ Locked /\ BgAt("merge") /\ compact.builder = 0
  /\ NewFileNumber
  /\ compact' = [compact EXCEPT !.builder = next_file_number_, !.outputs = @ \cup {next_file_number_}]
  /\ Goto(bg, "create")
  /\ UNCHANGED <<mutex_, disk, fileVars, versions, memtables, mem_, imm_, bg_error_, flush, files_to_delete>>

CreateOutput ==
  /\ BgAt("create")
  /\ disk' = disk \cup {compact.builder}
  /\ Goto(bg, "merge")
  /\ UNCHANGED <<mutex_, dbVars, fileVars>>

\* FinishCompactionOutputFile
FinishOutput == BgAt("merge") /\ compact.builder # 0 /\ Lookup(bg, compact.builder, "finished")

OutputVerified ==
  /\ BgAt("finished")
  /\ \E h \in HandleOf(bg, compact.builder) :
       /\ actor' = [actor EXCEPT ![bg].pc = "merge", ![bg].handles = @ \ {h}]
       /\ CacheStep(Unref(cache_, h))
  /\ compact' = [compact EXCEPT !.builder = 0]
  /\ UNCHANGED <<mutex_, disk, versions, memtables, mem_, imm_, next_file_number_, pending_outputs_,
                 bg_error_, flush, files_to_delete>>

EndMerge ==
  /\ BgAt("merge") /\ compact.builder = 0
  /\ Goto(bg, "merged")
  /\ UNCHANGED <<mutex_, disk, dbVars, fileVars>>

\* A file cannot be created, written or verified, or an input not be read.
MergeFails ==
  /\ \/ BgAt("create") \/ BgAt("merge")
     \/ BgAt("finished") /\ HandleOf(bg, compact.builder) = {}
  /\ Goto(bg, "merge_failed")
  /\ UNCHANGED <<mutex_, disk, dbVars, fileVars>>

\* delete input
ReleaseInput ==
  /\ BgAt("merged") \/ BgAt("merge_failed")
  /\ ReleaseNext(bg, versions[compact.version])

\* CleanupCompaction, ReleaseInputs
CleanupCompaction(vs) ==
  /\ pending_outputs_' = pending_outputs_ \ compact.outputs
  /\ versions' = UnrefVersion(vs, compact.version)
  /\ compact' = NoCompaction
  /\ Goto(bg, "idle")
  /\ UNCHANGED <<mutex_, disk, memtables, mem_, imm_, next_file_number_, flush>>

\* InstallCompactionResults: LogAndApply unlocks mutex_ to write the MANIFEST,
\* but before that nothing else changes.
CompactionInstalled ==
  /\ Locked /\ BgAt("merged") /\ actor[bg].handles = {}
  /\ LET v == versions[current_]
         inputs == FilesOf(compact.version)
     IN  CleanupCompaction(AppendVersion(versions, v.level0 \ inputs, (v.level1 \ inputs) \cup compact.outputs))
  /\ RemoveObsoleteFiles(versions', pending_outputs_')
  /\ UNCHANGED bg_error_

CompactionFails ==
  /\ Locked
  /\ (BgAt("merged") \/ BgAt("merge_failed")) /\ actor[bg].handles = {}
  /\ bg_error_' = TRUE
  /\ CleanupCompaction(versions)
  /\ UNCHANGED <<files_to_delete, fileVars>>

BgStep ==
  \/ BeginFlush \/ BuildTable \/ VerifyTable \/ TableVerified \/ TableUnusable \/ FlushBuilt
  \/ FlushCommitted \/ FlushFails \/ DeleteFile
  \/ BeginCompaction \/ OpenInput \/ StartMerge \/ OpenNextInput \/ DoneWithInput
  \/ OpenCompactionOutputFile \/ CreateOutput \/ FinishOutput \/ OutputVerified \/ EndMerge
  \/ MergeFails \/ ReleaseInput \/ CompactionInstalled \/ CompactionFails

Next == SwitchMemTable \/ BgStep \/ \E a \in Actors : FindTableStep(a) \/ (a # bg /\ ClientStep(a))

Spec == Init /\ [][Next]_vars

------------------------------------------------------------------------------
\* Properties

Holders(v) == Cardinality({a \in Clients : actor[a].version = v})
              + (IF v = current_ THEN 1 ELSE 0)
              + (IF flush.base = v THEN 1 ELSE 0) + (IF compact.version = v THEN 1 ELSE 0)

\* Version::Ref, MemTable::Ref and Cache::Lookup are each undone exactly once,
\* on every path: a version, a memory table and a table live as long as
\* somebody uses them and no longer.
RefsExact ==
  /\ \A v \in 1..Len(versions) : versions[v].refs = Holders(v)
  /\ \A m \in 1..Len(memtables) :
       memtables[m] = Cardinality({a \in Clients : m \in {actor[a].mem, actor[a].imm}})
                      + (IF m \in {mem_, imm_} THEN 1 ELSE 0)
  /\ \A h \in Handles :
       cache_.refs[h] = Cardinality({a \in Actors : h \in actor[a].handles})
                        + (IF cache_.in_cache[h] THEN 1 ELSE 0)

\* The cache's lists, its hash table and its charge agree with its entries when
\* tables are replaced, evicted and released in any order.
TableCacheExact == CacheIsExact(cache_)

\* RemoveObsoleteFiles and the cache: the file of a table somebody has open or
\* is about to open is on disk (a table without a descriptor opens it for each
\* read), and so are all files of a version somebody reads.
FilesStay ==
  \A a \in Actors :
    /\ {Key(h) : h \in actor[a].handles} \subseteq disk
    /\ actor[a].file \in disk \cup {0}
    /\ actor[a].version # 0 => FilesOf(actor[a].version) \subseteq disk

\* Evict: no table stays open, with its mapping or its descriptor, after its
\* file was removed or chosen for removal.
NoStaleTable ==
  \A h \in Handles : cache_.refs[h] > 0 => Key(h) \in disk \ files_to_delete

\* Limiter: there are never more mappings and descriptors than allowed, and
\* each is given back once, so that nothing is lost when all is quiet.
LimitersExact ==
  LET Mapped(how) == Cardinality({h \in Handles : opened[h] = how})
                     + Cardinality({a \in Actors : actor[a].how = how})
  IN  /\ mmap_allowed + Mapped("mmap") = MmapLimit /\ mmap_allowed >= 0
      /\ fd_allowed + Mapped("fd") = FdLimit /\ fd_allowed >= 0
==============================================================================
