# A TLA+ model of LevelDB as packaged for Apple platforms

The repository is LevelDB (`src/CSources/leveldb`, C++), an Objective-C wrapper
(`src/CSources/DVEC*`) and a Swift API on top of it (`src/Sources`). LevelDB holds almost
all of the state and all of the concurrency, so it is where the modelling starts.

Contents: 1 the system · 2 the modules · 3 the runs · 4 the disagreements found ·
5 the proofs · 6 what is only model-checked or not modelled · 7 the plan.

## 1. The system

### 1.1 Components, their state and their operations

| component | state | operations |
|---|---|---|
| **DBImpl, foreground** (`db/db_impl.cc`) | `mutex_`, `writers_`, `tmp_batch_`, `mem_`, `imm_`, `has_imm_`, `log_`, `bg_error_`, `manual_compaction_`, `snapshots_`, `shutting_down_` | `Write` (queue, group commit, `MakeRoomForWrite`), `Get`, `NewIterator`, `GetSnapshot`/`ReleaseSnapshot`, `CompactRange`, destructor |
| **DBImpl, background** | `background_compaction_scheduled_`, the compaction in progress, `pending_outputs_` | `MaybeScheduleCompaction`, `BackgroundCall`, `CompactMemTable`, `DoCompactionWork`, `RemoveObsoleteFiles` |
| **DBImpl, open** | - | `NewDB`, `Recover`, `RecoverLogFile`, `DB::Open` |
| **VersionSet** (`db/version_set.cc`) | list of `Version`s, `current_`, file and sequence counters, `compact_pointer_`, `descriptor_log_` | `LogAndApply`, `Recover`, `PickCompaction`, `CompactRange`, `Finalize`, `Version::Get` |
| **Compaction** | its inputs, grandparents, `level_ptrs_` | choice of inputs, `IsTrivialMove`, drop rules, `ShouldStopBefore` |
| **Log** (`db/log_writer.cc`, `log_reader.cc`) | `block_offset_`; the reader's buffer and resync state | `AddRecord`, `ReadRecord` |
| **MemTable / SkipList / Arena** | nodes and their atomic links, `max_height_` | `Add` (one writer), `Get` and iterators (many readers, no lock) |
| **LRUCache, TableCache** | hash table, LRU and in-use lists, reference counts, `usage_` | `Insert`, `Lookup`, `Release`, `Erase`, `Prune`; `FindTable` |
| **Iterators** (`db/db_iter.cc`, `table/merger.cc`, `table/two_level_iterator.cc`) | direction, current child, saved key | `Seek`, `Next`, `Prev` |
| **Tables** (`table/*.cc`) | block contents, restart points, filters | build, `Seek`, filter lookup |
| **PosixEnv** (`util/env_posix.cc`) | work queue of the background thread, file locks, limiters | `Schedule`, `LockFile`, file calls |
| **Objective-C wrapper** | `leveldb::DB*` and the objects its options point to; handles for iterators, snapshots, batches | `open`, `close` by `dealloc`, forwarding |
| **Swift API** | a reference to the wrapper | forwarding, key and value coding |

### 1.2 How they interact

* Callers run on their own threads; all of them and one background thread share `DBImpl`
  under `mutex_`. The mutex is released in four places: while the leader of the write queue
  writes the log and the memtable, while a writer waits or sleeps for room, while `Get` reads,
  and while a compaction reads and writes tables.
* Each `Writer` in `writers_` has its own condition variable; everything that waits for the
  background thread (a full memtable, too many level-0 files, a manual compaction, the
  destructor) shares `background_work_finished_signal_`.
* `env_->Schedule` is a call to the background thread; at most one is outstanding
  (`background_compaction_scheduled_`).
* A flush or compaction changes the set of live files only through
  `VersionSet::LogAndApply`; readers keep the `Version` and the memtables they started with.
* The background thread, in the middle of a compaction, also flushes `imm_`
  (`db_impl.cc:926`): the version changes under a running compaction.
* Snapshots reach a compaction through one number, `smallest_snapshot`, read when it starts.

### 1.3 What is hard, and what "correct" means

| component | hard behaviour | properties that make it correct |
|---|---|---|
| writer queue | a leader works for others with the mutex released; failure in the middle; spurious wakeups | one leader; exact queue; no lost signal; every `OK` is true; a sync acknowledgement is an fsync; atomic batches; the queue implements an atomic store |
| waiting and scheduling | six places must reschedule, every path must signal | due work is scheduled; every call returns, also after an I/O error |
| manual compaction | a frame on a caller's stack, used by the background thread | the pointer is valid when used, unless the database has failed |
| flush, compaction | inputs fixed before, version and snapshots change during the merge | levels disjoint; newer above older; reads at every snapshot unchanged; deleted keys stay deleted |
| log | torn tails, failed writes, block boundaries | what was acknowledged with sync is read back |
| recovery | crash between any two file operations, also of a recovery | nothing acknowledged is lost to a process crash, nothing synced to a power failure, nothing lost comes back; numbers are not given out twice; `CURRENT` names a complete MANIFEST; nothing is left behind |
| version lifetime | readers without the lock | each reference is dropped once; a file that can be read is never removed |
| skip list | lock-free readers | a reader sees every node published before it started |
| cache | handles outlive eviction, two threads open one table | one deletion per entry, lists, table and charge agree; a removed file is in no cache; limiters lose nothing |
| iterators | change of direction, a memtable that grows | the sequence of visible keys, forwards and backwards, with the newest values |
| tables | shortened index keys, filters by file offset | a point read finds what is stored |
| locks, processes | a table of locks and the kernel's locks, one after the other | a directory has one owner |
| background thread | one queue for all databases of a process | every task runs, every destructor ends |
| wrapper | ARC decides the order of destruction | no snapshot, batch or task outlives its database |

`PROJECT.json` lists each hazard with its source line and the properties that cover it.

## 2. The modules

### 2.1 `DBImpl`: threads, the write queue and background work

`DBState` declares the constants, the variables and what all sections share;
`DBWriters` has the actions of callers; `DBCompactions` those of the background thread;
`DBImpl` puts them together, adds fairness and states the properties; `AtomicStore` is the
abstract specification of `Write`; `DBImplProofs` holds the
proofs; `MC_DBImpl` the instances.

*One action is one critical section*, from taking `mutex_` to the next release or wait.
Sections that loop while they hold the mutex (the body of `Write` around `MakeRoomForWrite`)
are several actions between which the variable `mutex` keeps everybody else out.

| code | model |
|---|---|
| `Write`: push, wait until done or first | `Enqueue`, `WakeQueued`, `IsFront` |
| `MakeRoomForWrite`, one disjunct per branch of its loop | `RoomError`, `RoomSlowdown`, `RoomFound`, `RoomWait`, `RoomSwitch`, `RoomSwitchFails`, `WakeRoom` |
| `BuildBatchGroup` | `GroupJoin` (one writer joins), `CanJoin` (its break conditions), `GroupBuilt` |
| unlocked part of `Write` | `LogRecord`, `SyncLog`, `InsertEntry` (one update at a time), each of which may fail where the code can |
| relock, `SetLastSequence`, popping the group, signalling | `Commit`, `Finish`, `Notified`, `MemberStatus` |
| `Get` | `GetBegin`, `GetEnd` (seek statistics may make a compaction due) |
| `CompactRange`, `TEST_CompactMemTable`, `TEST_CompactRange` | `FlushWait`, `ManualCompact` |
| `MaybeScheduleCompaction` | `MaybeScheduleCompaction(...)`, a function of the state after the section |
| `BackgroundCall`, `BackgroundCompaction`, `DoCompactionWork`, `CompactMemTable` | `BgSkip`, `BgFlush`, `BgManual`, `BgManualOver`, `BgPick`, `BgNestedFlush`, `BgMerged`, `BgCompactionFails`, `BgInstallTables`, `BgCollected`, `BgBuilt`, `BgFlushFails`, `BgInstallMemTable`, `BgMemTableCollected` |
| destructor | `Close` |

Data are abstracted to entries `[seq, op, i]`: update `i` of a thread's operation `op` under
sequence number `seq`. The memtables, the log file, what has been fsynced and the tables are
sets of entries. Level 0 is a number of files; that a level below 0 is over its limit, or that
seeks ask for a compaction, is the variable `due`, set by the environment up to `MaxExtra` times.

### 2.2 `LsmTree`: what the levels hold

`LsmFiles` has the pure functions of `version_set.cc` (overlap, `GetOverlappingInputs` with its
level-0 growth, `FindFile` as the binary search it is, `AddBoundaryInputs`), over files that are
sets of entries `[k, s, d]` with a smallest and a largest key. `LsmTree` is the state machine:
`Write`, `GetSnapshot`, `ReleaseSnapshot`, `SwitchMemTable`, `CompactMemTable` (with
`PickLevelForMemTableOutput`), `PickCompaction` and `ManualCompaction` (which fix the inputs,
or move a single file), and then, any number of other steps later, `InstallCompaction` or
`AbandonCompaction`. `Get` reads the memtables, level 0 from the newest file on and one file per
deeper level, as the code does. `SnapshotMap` is what a user is promised: a map and frozen
copies of it. `MC_LsmTree` has the instances, `LsmTreeProofs` the proofs.

A version's level is a *sequence* of files, and `SaveTo` is `Builder::SaveTo`: the loop that merges the
new files into the base files, with what `MaybeAddFile` does to each. That loop does not sort the level
and does not look for overlaps; `MaybeAddFile` asserts that there are none. `Package.swift` does not define
`NDEBUG`, so the assertion is part of the program: where it fails the process ends in `LogAndApply`, before
the edit is written to the MANIFEST. It can fail (section 4, observations), so `InstallCompaction` has it as a guard.

Left open on purpose: *when* a compaction starts and *which* file's turn it is. The code decides
by sizes, `compact_pointer_` and seek counts, and over time any file's turn comes, so the model
lets any file be picked. File numbers matter only for the order of level-0 files; `NewFileNumber`
is one more than the greatest in level 0. Sizes are counted in entries.

### 2.3 `LogFormat`: one log file

The write-ahead log and the MANIFEST are files of this format. `LogFormat` has the writer
(`log_writer.cc`), what can happen to its file, and the reader (`log_reader.cc`); `RecordLog` is
the abstract specification and `LogFormatProofs` has the proofs. The module needs no MC module:
its constants are numbers.

The file is a sequence of *pieces*, one for each `EmitPhysicalRecord`: the padding of the block
before, a header and a fragment, with the byte at which it begins and how many of its bytes the
file has. `AddRecord` begins a record, `EmitPhysicalRecord` writes one fragment of it, `EmitFails`
only some bytes of one (and the code advances `block_offset_` all the same), `Sync` makes
durable what is there, `Crash` takes any bytes that were not synced, `Reopen` is the new `Writer`
that `RecoverLogFile` makes with `reuse_logs`. The reader is a function of the file: `Physical` is
what `ReadPhysicalRecord` meets, byte offset by byte offset as the code looks for headers, with
`Bad` for every stretch it drops; `Returned` and `Reported` are the records and the corruptions
that `ReadRecord` makes of that. Where the reader looks for a header and none was written, the
model takes it that what it finds fails the length or the checksum test. `initial_offset` is not
modelled; nothing in `src/` passes anything but 0.

### 2.4 `Durability`: the files, and what a crash leaves of them

`Disk` is the directory as `env_posix.cc` uses it. A file is a sequence of records of which the
first `durable` ones are on the disk; the directory is the sequence `dirs` of its states since the
last fsync. The file system is assumed to be a journaling one: directory changes become durable in
their order, and an fsync of any file makes the earlier ones durable (the code itself fsyncs the
directory only for a MANIFEST, `SyncDirIfManifest`). `PowerFails` picks one of the `dirs` and cuts
each file anywhere behind what is durable. A record of which only a part is left reads like one
that is not there: that is what `LogFormat` shows of the reader, so it is not repeated here.

`Durability` is the program on it (its proofs are `DiskProofs` and `DurabilityProofs`): one thread whose place is `pc` opens the database and then
works in the background, one writer stands for the write queue. `DurableStore` is the promise: an
operation is there from its acknowledgement on, a process crash takes nothing, a power failure
nothing that was acknowledged with sync, and what was lost does not come back.

| code | model |
|---|---|
| `DBImpl::Recover` up to the MANIFEST, `VersionSet::Recover`, `ReuseManifest` | `Open`, `RecoverVersions`, `RecoverFails` |
| `NewDB` | `CreateDB`, then the MANIFEST actions below with `job = "new"` |
| `RecoverLogFile` | `ReadLog`, `ReplayTable` (a full memtable or the end of the log), `ReplayDone` (`reuse_logs`) |
| the rest of `DB::Open` | `OpenLog`, `OpenLogFails`, then the MANIFEST actions with `job = "open"` |
| `WriteLevel0Table`, `BuildTable` | `NewTable` in `ReplayTable` and `BeginFlush`, `TableBuilt`, `TableFails` |
| `DoCompactionWork` and what it calls | `BeginCompaction`, `OpenOutput`, `BeginFlush` (nested), `FinishOutput`, `OutputFails` |
| `LogAndApply`, `SetCurrentFile` | `LogAndApply`, `AppendEdit`, `SyncManifest`, `WriteTemp`, `RenameTemp`, `ManifestFails`, `CurrentFails`, `Install` |
| `RemoveObsoleteFiles` | `RemoveObsoleteFiles` (the list, part of what holds the mutex), `DeleteFile`, `Collected` |
| `Write`, `MakeRoomForWrite` | `BeginWrite`, `AppendFails`, `SyncWrite`, `SyncFails`, `FinishWrite`, `SwitchMemTable` |

The contents of the store (`Ops`) are, while the database is open, what a read can find, and
otherwise what an open would recover from the files as they are. Left out: levels and keys (a
version is a set of tables, a compaction keeps all entries), trivial moves (they change levels
only), `DB::Open`'s options that refuse to open, and the order in which the directory lists
garbage (one order is taken). A failing append writes nothing here; partial ones are `LogFormat`'s.

### 2.5 `SkipList` and `MemTable`: a list read without a lock

`SkipList` has one action per load or store of a link (`FindPrev`, `SetHeight`, `LinkNode`,
`Publish` for the writer; `Begin`, `Load` for the reader's `Seek`, `Next`, `Prev`, `SeekToFirst`,
`SeekToLast`). Interleaving loads and stores is a faithful picture of this code's memory order:
`SetNext` is a release store and `Next` an acquire load, so a reader that loads a link sees all that
the writer stored before it, and there is one writer. The relaxed `max_height_` is different: a load
may return any value it has held, which is the set `max_height_` in the model. The relaxed stores of
`NoBarrier_SetNext` go to a node that no reader can reach before the release store that follows.
Readers write nothing they share, so one stands for all of them. `Uninit` is the memory of a link
nobody has stored to; `LinkIsStored` says that no reader loads it.

`MemTable` puts internal keys into the list as `Add` does (growing sequences, one at a time) and
lets `Get` and the iterator use every sequence that is visible. `SortedSet` is the promise: a set
that only grows and a cursor each of whose moves happens at one moment. `DBIter` uses it again.

### 2.6 `DBIter`: from the blocks of a table to a client's iterator

| module | code |
|---|---|
| `InternalKeys` | `db/dbformat.cc`, `util/comparator.cc`: keys of bytes, their order, shortened separators |
| `Block` | `table/block_builder.cc`, `table/block.cc`: restart points, shared prefixes, the search from the current position |
| `Table` | `table/table_builder.cc`, `filter_block.cc`, `table.cc` |
| `TwoLevelIterator` | `table/two_level_iterator.cc`, over the blocks of a table and over the files of a level (`version_set.cc`) |
| `MergingIterator` | `table/merger.cc` with `iterator_wrapper.h`, over the memtable, level 0 and one deeper level |
| `DBIter` | `db/db_iter.cc`: `Call` (the client), `Start`, `InnerCall` and `InnerHalf` (one call on the internal iterator and the code up to the next), `Insert` (a writer) |

The first four are operators: tables do not change, so a move over them is one step. The memtable
does change, so the steps of `MergingIterator` and `DBIter` end before each further call on it.
`MemTableIterator` moves atomically here; that it seems to is `ImplementsSortedSet` of `MemTable`.
An entry takes one unit of a block and a block's trailer one more; a byte is a number up to
`MaxByte`, and the tag of an internal key is its last byte. The filter of the model is exact (it
answers TRUE for no other key), which is the hardest case for `InternalGet`; reads without it are
checked beside.

### 2.7 `Readers`: what is kept alive without the mutex

`LRUCache` is one shard of the cache as functions on its state, one per operation under the shard's
mutex. `Readers` has on it `TableCache::FindTable` in the steps between which others run (`Lookup`,
`OpenFile`, `InsertTable`, `OpenFails`), the files and limiters its entries hold, the references of
versions and memtables, and the calls that take them: `Get` (`BeginGet`, `ReadTable`,
`DoneWithTable`, `EndRead`), iterators (`BeginIterator`, which opens the level-0 tables while it
holds `mutex_`, `CollectTable`, `IteratorMade`, ..., `DeleteIterator`, `ReleaseChild`, `EndRead`),
and the background thread, which verifies what it built and reads what it merges through the same
cache, and then runs `RemoveObsoleteFiles` (the list and the evictions under the mutex) and
`DeleteFile`. `SwitchMemTable` is what a writer does
to the references. `mutex_` is a variable only where it is held for longer than a step.

Simplified: `Limiter::Acquire`, which subtracts and may add again, is one step (in the code
it may also refuse while another call is being refused; the caller then has a file that is opened again
for every read, as with an exhausted limit); all tables hold all keys, so a flush goes to level 0 and a compaction
takes every file; children of an iterator are deleted one level after the other. The versions of the
model are numbered in the order of their creation, and a version without references is empty.
`ReadersProofs` holds the proofs.

### 2.8 `Process`: databases, processes and one background thread

`PosixEnv` has the queue and the thread behind `Schedule`, and `LockFile` with `UnlockFile` as the
separate calls they are: the table of locks of a process, and the kernel's lock of `fcntl`, which
belongs to a process and goes when the process closes *any* descriptor of the file. `Process` has
the `DVECLevelDB` objects of several processes, from `initWithDirectoryURL` to the end of `dealloc`:
`InsertLock`, `AcquireLock` and their failures, `Opened`, `OpenFails`, handles of snapshots and
batches that keep the object (`MakeHandle`, `DropHandle`, `DropReference`), `WorkArises` and
`BackgroundCall`, `ReleaseLock` (after the wait for background work), `ForgetLock`, `CloseLock`,
`DeleteVersions`, `DeleteNative`, and `ProcessDies` at any moment.

### 2.9 How the groups meet

`DBImpl` and `LsmTree` meet at flush and compaction: `DBImpl` models who runs them, when, and what
happens on errors; `LsmTree` models what they do to the data; `Durability` what they do to the
files; `Readers` what they do to those who read meanwhile. The nested flush (`db_impl.cc:926`) is in
all four. What one group takes over from another:

* `Durability` from `LogFormat`: a log or MANIFEST reads as the whole records before its damaged
  end; from `DBImpl`: one writer at a time (`LeaderIsHead`) and one background call at a time; from
  `Process`: nobody else has the directory (`OneOwner`).
* `LsmTree` from `MemTable` and `DBIter`: a memtable and a table answer as sets of entries
  (`GetFindsNewest`, `TableGetFindsNewest`). `MemTable` from `DBImpl`: one writer.
* `DBIter` from `LsmTree`: newer entries of a key are above older ones, and levels are disjoint;
  from `Readers`: its memtables and tables stay.
* `DBImpl` from `PosixEnv`: what is scheduled runs (`EveryTaskRuns`), which is its fairness.

## 3. The runs

The runs of `DBImpl`, `LsmTree`, `LogFormat` and `Durability` have `CHECK_DEADLOCK FALSE`: in `DBImpl`
every thread makes at most `MaxOps` requests and the database is closed in the end, in `LsmTree` at
most as many updates are written as `options.updates` has, in `LogFormat` a log that is not reused ends with a crash, and in
`Durability` writes and events are counted; after that the system rightly stops. (That nobody is stuck
*before* that is `EveryCallReturns`.) In the other runs somebody can always go on, and TLC checks that.

| run | what it checks | what it shows |
|---|---|---|
| `group` | `TypeOK`, `LeaderIsHead`, `QueueMembers`, `NoLostSignal`, `SequencesUnique`, `AckedSynced`, `WriteAhead`, `WorkIsScheduled`, `NoLogAfterSyncError`, `SnapshotStable`, `ImplementsAtomicStore` | three threads write batches of one or two updates, sync or not, read or compact, with memtable switches and one failure of any log, sync, log-creation, table or MANIFEST call: groups of every composition implement one atomic write after the other |
| `liveness` | `ManualPointerValid`, `EveryCallReturns` | every call and the destructor return, also when one call fails; the background thread finds `manual_compaction_` as it left it unless there is a background error |
| `tree` | `LevelsDisjoint`, `NewerAbove`, `ImplementsSnapshotMap` | the shape of the tree that `Get` relies on, with user keys spread over several files of a level; reads now and at every snapshot are those of a plain map, with merges, nested flushes, trivial moves, automatic and manual compactions over three levels. What a running compaction would install never overlaps another file of its level, with one exception that the run reaches: a memtable flushed into a gap of the inputs of a *manual* compaction |
| `log` | `TypeOK`, `WriterAligned`, `ReadIntact`, `NoFalseAlarm`, `ImplementsRecordLog` | whole records, in order, up to the damage; a torn end is not a corruption; behind damage only whole records that were added |
| `durable` | `TypeOK`, `CanOpen`, `SequenceOrder`, `NothingLeftBehind`, `ImplementsDurableStore` | without `reuse_logs`, any process crashes, power failures and failing calls leave a database that opens and keeps its promise, and nothing piles up in its directory |
| `skiplist` | `LinkIsStored`, `ImplementsSortedSet`, `GetFindsNewest` | a reader of the memtable, between any two stores of the writer, sees a set with atomic moves, whatever height it starts from; `Get` answers for its snapshot |
| `iterators` | `ImplementsCursor`, `ValueIsNewest`, `TableGetFindsNewest` | a client's moves in any order and direction are those of a cursor over the visible keys, over real blocks, index keys and filters, while a writer adds entries; a table finds what it has through shared and empty filters and through index keys that are shortened or must not be |
| `readers` | `RefsExact`, `TableCacheExact`, `FilesStay`, `NoStaleTable`, `LimitersExact` | iterators, `Get`, a flush, compactions and the removal of files over one small table cache: nothing goes that is used, nothing stays that is not |
| `process` | `OneOwner`, `UsesExist`, `EveryTaskRuns` | databases of two processes that open, work, are released and die in any order: one owner of a directory, no use after deletion, no lost task |
| `deleted`, `failed_append`, `lock` | one property each | violated, see section 4 |

### Bounds and why they are enough

`group`: three threads, because a group needs a leader, a follower and somebody left behind it;
one request each, since the queue forgets a finished writer. `MaxBatch` 3 and `SmallBatch` 1 let
a group fit, just fit and not fit. `liveness`: two threads, over two levels, so that a
`CompactRange` waits for a flush, for another one and for a compaction that fails. `WriteBufferSize`
0 or 1: a memtable fills after one write or two. `SlowdownTrigger` 1 and `StopTrigger` 2 (1 for
liveness) make a writer sleep, wait for a flush and wait for level 0 within a few steps.
`MaxFaults` 1: the code has one `bg_error_` and never clears it, so a second failure meets the
same state. `MaxPieces` and `MaxLevels` bound how often one `CompactRange` goes round its loop.
Symmetry is over threads only and not used for liveness.

`tree`: two keys give inputs that do and do not overlap and a boundary between them, a third one a key
in a gap. Three levels are the memtable's target, the one below it and level 0 (four are not needed
for grandparents: level 2 is the grandparent of level 0). Three updates and a snapshot make each rule
for dropping entries matter (an entry hidden below a snapshot, an entry kept for one, a deletion above
older data). `Settings` says how the database is opened and used, and which updates there are. With
`max_file_size` 1 outputs are cut at every entry, so one user key lies in several files of a level, which is
what `AddBoundaryInputs` is for, and compactions are automatic. With 9 they are never cut, and there are manual
compactions, in two settings: any three updates of two keys, with a snapshot; and four insertions of the keys 1
and 3, then one of key 2, which is the least that puts a key in a gap between the inputs of a manual
compaction while it runs. Without its exception `LevelsDisjoint` fails in the third setting. **The settings stop
short of one behaviour deliberately**, because `NewerAbove` and `ImplementsSnapshotMap` do not hold there: with
cut files, a snapshot and a fourth update a deletion is lost (run `deleted`).

`LogFormat`: blocks of 6 bytes with headers of 2, and records of 0, 1, 2 and 6 bytes, are the
smallest numbers with which a fragment fits, leaves room for exactly one header (an empty first
fragment), leaves a trailer too short for one, and spans blocks. Three records, of which an append
fails, and one crash after which the file is reused let a torn record lie before, between or after
whole ones; `Broken` says from where on `RecordLog` promises nothing any more.

`Durability`: two writes, so that one can be in a table or an old log while the other is in the new
one. `MaxEvents` 4 counts writes, crashes, power failures, failing calls and compactions together:
two writes with any two events, one write with any three (a crash, a crash while recovering, a
failing call in the next recovery). Runs with three writes and two events pass too and take five
minutes. `Failing` has every call of the code that may fail. `reuse_logs` is off: with it the promise
does not hold (section 4, observations).

`skiplist`: three entries of two user keys in up to three levels: a node is linked before, behind and
between others, on levels that others do and do not reach, and an older entry of a user key is behind
a newer one. Every height is tried for every node.

`iterators`: three databases of five or six older entries, and for each every choice of two further
writes (of any of four user keys, a value or a deletion), one in a table of level 0 with a third entry and
one in the memtable. There is a restart point every two entries and a filter for every three units, and the
three layouts differ in their blocks:

| entries in a block | blocks at offsets | filters | index keys |
|---|---|---|---|
| 3 | 0, 4 | one each | `<<1>>` before `<<1, 2, 1>>` stays (a prefix); at the end of the file `<<1, 2, 1>>` becomes `<<2>>` |
| 5 | 0, 6 | the second of three is empty | `<<1, 4>>` before `<<2>>` stays: the shortened key would be the limit itself |
| 1 | 0, 2, 4, 6 | the first is shared by two blocks | `<<1, 2, 1>>` becomes `<<1, 3>>` before `<<1, 4>>`; entries of one user key in two blocks keep their key |

Entries of one user key lie in different blocks and files. The two mutants of `TableGetFindsNewest` are a filter
that is begun too early and the missing `+ 1` of the limit test in `FindShortestSeparator`
(`comparator.cc:46`). That slip would still answer every `Get`, because a shortened key gets the greatest tag, but
the assertion behind it (`comparator.cc:49`) would end the process; the property therefore says of the index keys
themselves that they do not run into the next block. One entry is added during iteration, at any moment; a
second one meets the same steps.

`readers`: three tables, one that exists, one for a flush and one for the output of a compaction; a
compaction may also run without an output. One thread with iterators, one with Gets, and
the background thread are the three that can meet at one table. `capacity_` 1 evicts with every second
table, `MaxEntries` 2 are the entry in use and the one that replaced it in the cache, `MmapLimit` 1 and
`FdLimit` 0 give mapped tables and tables that are opened for each read. There are two kinds of initial state: both threads run and
a memtable waits for its flush, or one of them runs and a writer may switch memtables at any moment
(`SwitchMemTable`), which adds flushes in the middle of a compaction and a second compaction with
inputs at both levels.

`process`: two objects in one process and one in another, on one directory or two; the directories are
chosen so that two objects of *one* process or of *two* processes compete, but not both: with all three
on one directory `OneOwner` fails (run `lock`). One handle per object.

### Fairness

`FairSpec` of `DBImpl` assumes of the scheduler that a thread which can go on eventually does.
For steps that need the mutex this is strong fairness: others may hold it again and again, and
`std::mutex` promises no order, but a fair scheduler lets no thread lose the race for ever; the
properties would be false of a lock that may starve a thread. Waiting is not helped: a wait ends
fairly only when it was signalled (`awake`), never by the spurious wakeups that the model allows
but does not force, so a forgotten `Signal` shows up as a call that never returns. I/O faults are
never forced. The background thread takes its steps fairly once scheduled (`PosixEnv` runs its
queue, which `EveryTaskRuns` shows), and threads are not obliged to make requests.

`FairSpec` of `Process` assumes weak fairness of the background thread of each process, which nothing
but its own wait holds up, and of each thread in `dealloc`; nobody has to open, use or release a
database, and spurious wakeups are never forced. A task itself ends: that is `DBImpl`'s liveness. The
runs `skiplist`, `iterators` and `readers` check safety only.

## 4. Where the code disagrees with what it says

Each is a `violation` run with a short counterexample and an entry under `findings`.

* **`deleted`** - a deletion is dropped while an older entry of the key stays in a sibling file of
  the next level, whose boundary files `SetupOtherInputs` does not add (`version_set.cc:1393`); the
  key comes back.
* **`failed_append`** - an append that fails after some of its bytes advances `block_offset_` by
  the whole fragment (`log_writer.cc:106`), and `Write` sets `bg_error_` only for a failed *sync*
  (`db_impl.cc:1230`): the next record is acknowledged, and the reader drops it.
* **`lock`** - `LockFile` opens the LOCK file before it asks its table; when the process already has the
  database, closing that descriptor (`env_posix.cc:636`) drops the `fcntl` lock of the process, and
  another process can open the database too.

Observations that no run is kept for:

* After a failed fsync `CompactRange` gives up and clears `manual_compaction_` while its compaction is
  running; `BackgroundCompaction` then uses the pointer without a test (`db_impl.cc:769`). The model has
  it (`bg.pc = "crashed"`), and `ManualPointerValid` says that it takes a background error.
* The null batch by which `TEST_CompactMemTable` forces a memtable switch does nothing if another
  writer's group absorbs it (`db_impl.cc:1302`); `CompactRange` then compacts without the memtable.
* A memtable flushed in the middle of a manual compaction is put into the level whose files the
  compaction is about to add, in a gap of its inputs, and the files to be installed overlap it
  (`version_set.cc:470`, `:700`), against the comments "Must not overlap" and "Make sure there is no overlap in
  levels > 0". As the package is built, without `NDEBUG`, the assertion ends the process, and what was
  acknowledged is recovered by the next open; with `NDEBUG` the version would be installed, and the binary search of
  `FindFile` would miss a key that was written and acknowledged. Automatic compactions have no gap: below
  level 0 they begin with one file, and in level 0 with all files that hang together. `LevelsDisjoint` states the
  exception, and the third setting of the run `tree` reaches it.
* With `reuse_logs` the process may die between writing a MANIFEST record and syncing it; the next open
  takes the record for granted, goes on with that MANIFEST without syncing it (`version_set.cc:1010`)
  and removes the log that the record replaces; a power failure then takes the record, and with it a
  write that was acknowledged with sync. `ReuseLogs = TRUE` makes `ImplementsDurableStore` fail so.
* A `DVECLevelDBIterator` does not keep its `DVECLevelDB`, unlike a snapshot or a write batch: it is the
  caller who must release it first, as `db.h:95` asks.
* `UnlockFile` removes the name from the table before it closes the descriptor (`env_posix.cc:656-657`),
  so the close can drop the lock of a database of the same process that was opened in between.
  `Process` has the step; `process` does not meet it with another process on the same directory.
* With `reuse_logs` the new `Writer` appends behind whatever torn record the crash left
  (`db_impl.cc:478`); what `failed_append` shows of a failed write then holds of a crash.
* When the flush nested in a compaction fails to write the MANIFEST, `bg_error_` is set but the
  compaction goes on and appends its own edit to the same MANIFEST (`db_impl.cc:926-931`), behind
  what the failed write may have left. `Durability` has the failure without the torn bytes.
* A memtable switch closes the old log without syncing it: a synced write in the new log may
  survive a power failure that takes an earlier, unsynced one (`db_impl.cc:1371`). `DurableStore`
  allows it.
* A MANIFEST's temporary file has the MANIFEST's number, and `RemoveObsoleteFiles` keeps temporary
  files whose number is that of a live *table*: one that an aborted open left stays as long as such
  a table does. `NothingLeftBehind` allows exactly that.

## 5. What is proved

Every theorem holds for every value of the constants that the assumptions of its module allow; the
assumptions are named where the constants are declared, and TLC evaluates them for each instance.
Behind each theorem is an inductive invariant, which is described here, because it is what one has to
know to change the code.

### 5.1 `DBImpl`

`DBImplProofs`: `TypeCorrect` (`Spec => []TypeOK`), `SingleLeader` (`LeaderIsHead`: whoever works on
the log and the memtable without the mutex is the first writer of the queue), `QueueExact`
(`QueueMembers`: the queue is exactly the writers that wait or lead). They rest on
`NullAssumption`, `RequestsAssumption` and `NumbersAssumption` of `DBState`, and on one
inductive invariant, `IInv == Typed /\ QueueInv`. Neither `TypeOK` nor `LeaderIsHead` is inductive
alone. `Typed` adds to the types that a compaction's inputs are among level 0's files until it is
installed (`InputsFit`, or the file count could become negative) and that a `CompactRange` call
has a level left (`LevelsLeft`). `QueueInv` adds to `LeaderIsHead` and `QueueMembers` who holds the
mutex (`MutexOwner`) and that a group is a nonempty prefix of the queue (`GroupFits`). The two
halves need each other: popping a group preserves the queue because the group fits, and that is
typed because the queue is a sequence of threads. The proof has one lemma per part of the
invariant and per side (callers, background thread), each with one step per action.

Signals and background work build on `IInv`:

| theorem | property | what makes it inductive |
|---|---|---|
| `NoSignalLost` | `NoLostSignal` | it is inductive with the queue: a group that leaves the queue signals its members and the new head |
| `NoneLogs` | `NoLogAfterSyncError` | `NoneBuilding`: with a sync error nobody is past `MakeRoomForWrite`. The failing leader took the mutex back before anybody else could lead |
| `WorkScheduled` | `WorkIsScheduled` | `Scheduled`: the same without the condition on the mutex, and a running call counts as scheduled |
| `ManualFrameLives` | `ManualPointerValid` | `ManualWaits`, `ManualRuns`, `AllGone`: the frame belongs to a caller that waits and has not been told; only the compaction that tells it clears the pointer, unless there is an error, and the destructor runs alone |

The second half of `DBImplProofs` follows a batch. Its invariant `DataInv` says that whatever is stored or logged above
`LastSequence()` belongs to the group of the one leader at work (`StoredOwned`, `LogOwned`), that the
group numbers its updates once (`Numbered`), and how far it has come, by the place of its leader
(`Progress`). From it: `NumbersUnique` (`SequencesUnique`), `LogFirst` (`WriteAhead`),
`SnapshotsStable` (`SnapshotStable`, an action property). For `SyncHolds` (`AckedSynced`), `AckInv` adds that a group
contains all updates of its members and syncs if one of them asks for it (`GroupsCarry`), and
that a follower which was told OK has its updates synced before it returns (`ToldSynced`).

The last part of it proves the refinement `WritesAtomic`: `Spec => ImplementsAtomicStore`. Of
`AtomicStore`, `contents` is what is visible at `LastSequence()` and `call` the Write each thread is in. A
group takes effect at its leader's `Commit` (`Apply` of all its batches, or `Skip` if it failed:
its numbers are used up), a Write is called when it is pushed on the queue, and
returns when its thread does; every other step stutters. Two invariants carry this. `ShareInv`: the numbers of
a group are shared out among its batches, a run for each (`GroupShares`), and nothing stored is of an
operation to come (`OldOps`). `ReplyInv`: a follower that is done has been told what became of its group
(`Told`), the leader is about to say the same (`Ending`), and nothing of an undecided Write is visible
(`Pending`). What the refinement taught about `AtomicStore`: a batch without updates takes effect without
being visible, so it may be told OK, and the runs of a group are disjoint without being nonempty.

### 5.2 `LogFormat`

`LogFormatProofs`, for every block size, header size, set of record sizes and number of
faults and crashes (`BlockAssumption`):

* `TypeCorrect`: `Spec => []TypeOK`, which contains the comment in `AddRecord` that a block is never
  left with less than a header's room, and that the file has no more of a piece than was written;
* `Alignment`: `Spec => []WriterAligned` - until an append fails, `block_offset_` is where the file
  ends in its block, so that the writer and the reader see the same blocks, also when a file is
  reopened. Its invariant is `TypeOK /\ WriterAligned`: alignment is preserved because the padding
  added to the file is what switching blocks adds to the offset, and that takes the bounds of `TypeOK`;
* `RecordsIntact`: `Spec => []ReadIntact` - behind whatever garbage failed appends and crashes left,
  `ReadRecord` returns only records whose fragments were all written, one after the other, and in the
  order they were added;
* `NoAlarm`: `Spec => []NoFalseAlarm` - wherever in a trailer, a header or a fragment a crash ends the
  file, the reader reports no corruption unless an append had failed or a reused file goes on behind an
  unfinished record;
* `RecordsKept`: `Spec => ImplementsRecordLog` - every step is `Add` or `Lose` of `RecordLog`.

The last three need what the Writer's files look like and what the reader makes of such a file.

*The files.* `ShapeInv` adds to the types and the alignment `FileOk` (the pieces follow each other
without a gap; of two pieces of a record the earlier has the smaller fragment number and is not the
record's end; a fragment with a number above 1 stands directly behind the one before, which is whole),
`AddingOk` (the record in progress has the greatest number, is not acknowledged, and its last
fragment ends the file) and `PlacedInv` (until an append fails, each piece lies in one block, padding
only before a block). It is inductive; a cut of the file (`FileCut`) preserves it because a crash only
takes a suffix.

*The reader.* `Physical` is a recursive function of the offset. `PhysicalIs` names it as
`Reader(file)[0]`; `ReaderIs` shows that such a function exists, because the reader always goes on at
a greater offset that is still in the file (`GoesOn`), by the least number that would be a
counterexample (`LeastNumber`, from the well-foundedness of `<` on the naturals). The same descent
(`Downwards`) then shows what is read from every offset, and three facts carry the theorems:
`AllIntact` (of any `FileOk` file, whether aligned or not, the pieces met are whole, in order, and two
that are met one after the other without a report in between are neighbours), `ReadsAll` (of a file
that is not `Broken` all whole pieces are met and nothing else), and `ReadLonger` (if `f` is `g` and
what was written since, the reader of `f` meets what that of `g` meets and then only what is whole in
`f` alone). `ReadLonger` serves the refinement twice: for an append, with `f` the new file, and for a
crash, with `g` the file that is left. In it the delicate case is the torn end of `g`: what the reader
of `g` takes for the writer's death must be what the reader of `f` sees completed
(`FoundLater`, `DyingBefore`).

### 5.3 `MemTable`

`MemTableProofs`, for every finite set of user keys, every height of nodes and number of entries
(`MemTableAssumption`; a finite set of numbers is given by its greatest member, because the sentinel that
stands for `nullptr` is above it):

* `NoRawLink`: `Spec => LinkIsStored`;
* `ListIsSortedSet`: `Spec => ImplementsSortedSet`, the refinement. An insertion takes effect at the release
  store of its link on level 0, a move of the reader at its last load; the cursor of `SortedSet` is where
  the reader stands;
* `GetIsExact`: `Spec => GetFindsNewest`.

The invariant `ListsInv` has four parts. `ListInv`, the list: links go upwards; the node behind a link has
its own link of that level, and every node its lower ones; level 0 leaves nothing out; `head_` has nothing
behind it above the height. `WriterInv`: at each place of `Insert`, which of the links `prev` are still right
(`Precedes`: nobody else writes) and which links of the new node are stored. `ReaderInv`: the
node a reader stands on is in the list and has a link on the reader's level, although the height it
began with may be an old one. `EntriesInv` ties the keys to sequence numbers: the
entry being inserted is newer than any that a `Get` may ask for, so `Get` cannot see it, or miss an older
one because of it. `GetFindsNewest` also needs the arithmetic of internal keys (`UserOfKey`, `KeyOrder`).

### 5.4 `Process`

`ProcessProofs`, for all processes, directories and databases (`ProcessAssumption`):

* `DirectoryOwned`: `ASSUME Separated PROVE Spec => []OneOwner`. `Separated`: a directory is opened by one process
  only, or at most once by each. Without it the property is false, which is what the run `lock` shows; with
  it the invariant is that a name in the table of locks belongs to one object (`TableHolds`, `TableOne`) and that
  the kernel's lock is that of the process of an owner which is alone of its process on the
  directory (`KernelHolds`). The run `process` is an instance of the hypothesis;
* `UsesHold`: `Spec => []UsesExist`. A task of a database is queued or runs at most once, and only while the
  database is scheduled and has not released its lock (`TasksInv`), so the wait of the destructor is enough for
  the background thread, and handles (a snapshot, a write batch) exist only while the object is open
  (`HandlesInv`). It says nothing of iterators, which do not keep their database (section 4).

### 5.5 `Readers`

`ReadersProofs`, for any number of readers, tables, memory tables, entries and any limits
(`ReadersAssumption`: the readers are finitely many, none of them is the background thread or named
"free", and the keys of the cache are the file numbers): all five properties of the run `readers`, as
`RefsAreExact` (`RefsExact`), `CacheAgrees` (`TableCacheExact`), `FilesAreKept` (`FilesStay`),
`NoTableOutlivesItsFile` (`NoStaleTable`) and `LimitersAreExact` (`LimitersExact`). One
invariant, `Inv`, carries them, because no part of it is inductive without the others:

| part | says | needs |
|---|---|---|
| `CallsInv` | which phase each reader and the background thread is in (`Phase`: a search for a table belongs to the phase it returns to), what it refers to in that phase, and that whoever is in `collect` has the mutex | - |
| `ScopeInv` | handles, the file being opened and the tables still to be opened are of the version the actor reads, or the one table it has just built (`Scope`) | a version keeps its files while it has references: `VersionRefs` |
| `FilesInv` | files of a referenced version and the finished outputs of a compaction are on disk and not chosen for removal; so is the file of every entry that is alive; new numbers are above all of them; the table of a flush is in no cache until it is verified | `ScopeInv`: an insert is of a file in the scope |
| `VersionRefs`, `MemRefs` | the counts are the numbers of those who refer | `CallsInv` |
| `CacheInv` | `Exact`: each count of an entry is the number of actors that hold it (`Held`) and one for the cache; entries nobody holds are on `lru`, once, the others on `in_use`; table and charge agree | nobody holds two entries of one file: `CallOf` |
| `LimitsInv` | what is allowed, what entries have and what is being opened make up the limit; only an entry that is alive has a file | `CacheInv` |

That the table of a flush is in no cache before it is verified is needed because `BuildTable` unlinks a
table that cannot be used without an eviction (`TableUnusable`). The garbage that
`RemoveObsoleteFiles` evicts is held by nobody (`ObsoleteRemoved`): it runs with the mutex, so nobody is in `collect`,
and whoever reads has a version with references, whose files `AddLiveFiles` finds.

The cache's operations that loop (the eviction at the end of `Insert`, the evictions of
`RemoveObsoleteFiles`, and the sum of the charges) are folds of the community modules. Facts about them
are proved without the induction theorems, from the least counterexample (`LeastNumber`,
`AllNumbers`, `AllSubsets`): `EvictionLoop` and `EvictionFold` give the fold as a chain of steps, and
`EvictInOrderExact` and `EvictedExact` follow the chain.

### 5.6 `Durability`

`DiskProofs` has the vocabulary and the facts about files and records, `DurabilityProofs` the steps and the
theorems, for any number of writes, crashes, power failures and failing calls. Each theorem has the
hypothesis `ReuseLogs = FALSE`, the default of `Options::reuse_logs`: with it `ImplementsDurableStore`
is false (section 4), and the invariant below is, too.

* `DurabilityInvariant`: `Spec => []IInv`, the invariant itself;
* `OpensAfterCrash`: `Spec => []CanOpen`;
* `SequencesOrdered`: `Spec => []SequenceOrder`;
* `TypeCorrect`: `Spec => []TypeOK`;
* `Durable`: `Spec => ImplementsDurableStore`, the refinement;
* `DirectoryClean`: `Spec => []NothingLeftBehind`.

`IInv` is `DiskInv /\ ProcessInv`. `DiskInv` is about the files alone, and about everything that a power failure
could make of them: `Dirs` are the directories it may leave, `Views(m)` what the prefixes of the MANIFEST
`m` say that it may leave. Each view in each directory must be `Sound`: the tables it lists are there and on the
disk as a whole; its counters are above all that it lists; what it brings back is part of `Full`, what the files say
if only the process dies; and it brings back everything that was acknowledged with sync. A
crash then needs no argument, and a power failure one lemma (`PowerDisk`): the directories and views it leaves are among
those there were. What makes the invariant inductive is `ProcessInv`, which says for each phase where those entries
are that the files do not bear out yet:

| part | phase | says |
|---|---|---|
| `CreateInv` | `NewDB` | `CURRENT` does not exist and the MANIFEST 1 holds its one edit |
| `RecoveredInv`, `ReplayInv`, `SaveInv` | the rest of `DB::Open` | the version is that of the MANIFEST; of a log that has been read each entry is in a finished table of the edit, in the table being built, or still to be read; the edit's counters cover them before it is written; the new MANIFEST's number is above that of every one that `CURRENT` may name |
| `ManifestInv`, `LogInv`, `VersionInv`, `ApplyInv` | the database is open | the MANIFEST says the version, or the next one if the edit has been appended; entries of a log that is not the current one are in tables or in `imm`; no file chosen for removal is in any view that may survive; an edit's tables are whole before it is appended, and a merge's have the entries of its inputs |
| `WriteInv` | a `Write` | its entry is in the log before it is in the memtable, and durable if it is to be synced |
| `FreshInv`, `GarbageInv`, `NumbersInv` | - | nobody reads a table that is being written, nobody removes it; without failures no file has a number still to be given out |

Most steps touch few files, so the frame is proved once: `Frame(X, Y)` says that a step of the disk adds or removes only
the names `X` and changes only the contents of `Y`, `Harmless` that no view needs those, `Calm` that no table of the
version or the edit is among them, `Still` and `Steady` that no log is, or none that is needed, and `Firm` is what
all of these and an append to a log keep; each part of the
invariant is preserved by every step of the right kind. What is left are the steps that the proof is about: appending an
edit (the tables it names must be durable in every directory that may survive), the rename to `CURRENT` (from then on two MANIFESTs
are possible), the append to the log and its sync, the removal of a file, and the power failure.

For `Durable`, the contents (`Entries`) are `Full` while the database is down, and a subset of it while it is
open; the rest of `Full` is the entry of a Write that has not returned, or of one that failed. Only the end of a
Write, a process crash, which may bring such entries back, and a power failure change the contents; `Install`, a flush
and a compaction move entries and the proof shows that they change nothing.

`NothingLeftBehind` needs another invariant, `TidyInv`, which holds as long as no call has failed.
`Owned`: every file is in use, is being written, or is in the list of those to be removed. That is not enough, because an open
that is cut short leaves a MANIFEST which only a later `RemoveObsoleteFiles` finds, and it keeps MANIFESTs
with a number from its own on. `Ahead` therefore says, for every directory that a power failure may leave, that such a MANIFEST has
at most the number that the next open takes, or one below that of a log that it will find; and
`UsedInv` that while the edit of an open is written its counters are above all of them.

### 5.7 `LsmTree`

`LsmTreeProofs`, for any number of keys, levels, updates and snapshots, every way of opening the database
and every choice of files (`NumKeysAssumption`, `LevelsAssumption`, `SizesAssumption`). The updates of the
database are taken as one set, `Store`, wherever they are; that keeps the drop rules apart from the order in
which `Get` reads:

* `UpdatesStayApart`: `Spec => []UpdatesApart` - an update is in one file of one level or in one memtable,
  its number is its own, and the memtables are newer than the tables;
* `InputsStayInVersion`: `Spec => []InputsStay` - the inputs of a compaction stay in the version until it ends,
  whatever is flushed in the middle of it;
* `SnapshotsAreNewer`: `Spec => []NoOlderSnapshot` - no snapshot, and no read of the present, is
  older than the number that a running compaction drops entries by;
* `LevelsStaySorted`: `Spec => []VersionSorted` - the merge of `SaveTo` keeps the files of a level in the order of
  their smallest keys, each once;
* `SnapshotsAreServed`: `Spec => [][Served]_vars` - of each key, the newest update that a snapshot or a reader
  of the present sees stays through every step, unless a compaction drops it by the second of its rules: then it is a
  deletion, and what is left of its key in the outputs and the levels below is newer;
* `NoUpdateReturns`: `Spec => [][OnlyWritesAdd]_vars` - only a write adds an update.

`SnapshotsAreServed` says exactly what the rules promise, and where the finding of section 4 begins: older
entries of the key in files of the compaction's own two levels that are not among its inputs.

`IInv` is inductive: types (`Typed`), snapshots in order and not above `seq` (`SnapshotsInv`), each level has its
files in the order of their smallest keys and each file is that of its entries (`VersionInv`, `Arranges`), `UpdatesApart`,
`InputsStay` and `BaseInv`.
The last is what makes the outdated version of a compaction usable: a file of a deeper level was there when the
compaction started, so `IsBaseLevelForKey` has seen it, or was flushed there since, and then all of its entries are newer
than the inputs. That takes `UpdatesApart` (the memtables are newer) and `InputsStay` (the inputs are in the tables). Flushes,
moves and installations share one lemma (`EditStep`): an edit that takes files out and puts files into a level.

Four operators are loops in the code, and what is needed of them is proved without induction over data. `SaveTo` is a
recursive function over the turns of its merge: `MergeLoop` gives it as a chain of turns, `TurnMerges` says what a
turn keeps (`MergedSoFar`: what has been added is in order and before all that is still to come, from either side), and
`SaveToMerges` concludes; it needs that a new file and a base file that stays have different smallest keys.
`GetOverlappingInputs` and `AddBoundaryInputs` are recursive functions whose argument grows until it
stays the same; `LoopIsDefined` and `LoopStops` say that such a function exists and ends with a value it has stopped at,
by a measure that descends (`Descends`). `Outputs` is a fold over the merged input: `CutLoop` gives it as a chain of
steps, and `OutputsAre` follows the chain with an invariant (`Whole`: the files cut so far have what was kept so
far, each entry once). `OrderBy` is `Arrange` for a strict order given as a set of pairs (`Places`: an
element's place is the number of those before it).

## 6. What is not proved, and what is not modelled

*Only model-checked*: liveness (out of the prover's reach); the iterators, whose operators are recursive
or folds over data; and of `LsmTree` the properties `LevelsDisjoint`, `NewerAbove` and
`ImplementsSnapshotMap`. The last two are false of the specification as a whole (section 4: the run `deleted`) and hold
in the instances of the run `tree`; a theorem would need a condition
on sizes that the code does not guarantee.

*Abstracted everywhere*: byte layouts, checksums, compression, info logging, statistics, file
sizes in bytes. Keys are a finite ordered set, that is, comparators are assumed to be total orders.

*Not modelled, and staying so*: the C API, the dump tool, coding, hashing, logging and histograms
(no shared state); option, error and key-range conversions of the wrapper; the Swift coding layer.

*Left out of modelled parts*: which level or file a compaction takes (`Finalize`, `compact_pointer_`,
seek counts; any choice is allowed instead), `GetProperty`, `GetApproximateSizes`, `ApproximateOffsetOf`,
the block cache and the cache's `Prune`, the status and the corruption paths of iterators, the arena,
`DestroyDB`, and `repair.cc`, which nothing in the library calls.

## 7. The plan

1. *Done*: `DBState`, `DBWriters`, `DBCompactions`, `DBImpl`, `AtomicStore`, `DBImplProofs`;
   `LsmFiles`, `LsmTree`, `SnapshotMap`.
2. *Done*: `LogFormat`, `RecordLog`, `LogFormatProofs`.
3. *Done*: `Disk`, `DurableStore`, `Durability`.
4. *Done*: `SkipList`, `SortedSet`, `MemTable`; `InternalKeys`, `Block`, `Table`, `TwoLevelIterator`,
   `MergingIterator`, `DBIter`; `LRUCache`, `Readers`; `PosixEnv`, `Process`.
5. *Done*: the safety of `DBImpl` and its refinement of `AtomicStore`
   (`DBImplProofs`), `ProcessProofs`, `MemTableProofs`, `ReadersProofs`; all safety properties of
   `Durability` and its refinement of `DurableStore` (`DiskProofs`, `DurabilityProofs`). what flushes
   and compactions keep of the updates (`LsmTreeProofs`).
6. `Repair`, whose result should be a MANIFEST that `Recover` accepts, and the choice of compactions
   (`Finalize`, `compact_pointer_`) as a refinement of the choice left open in `LsmTree`.
