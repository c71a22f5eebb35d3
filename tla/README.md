# A TLA+ development of SnappyDB

SnappyDB is an embedded key-value store for Android: a Java API over a thin JNI
layer over a copy of LevelDB kept in the same tree. This directory holds TLA+
models of its parts, the TLC runs that check them on small instances, and
TLAPS proofs of the results that matter most. Paths below are relative to
`library/src/main/`.

## The system and its parts

| Part | Source | Model |
|---|---|---|
| Native session: open, close, destroy, unload, the entry of every call; life of a key iterator | `jni/snappydb.cpp`, `DBFactory.java`, `SnappyDB.java`, `internal/` | `NativeDB` |
| Key queries: scans, counts, iterators and batches | `jni/snappydb.cpp`, `internal/DBImpl.java`, `internal/KeyIteratorImpl.java` | `KeyScan` |
| Typed values: every put and get | `jni/snappydb.cpp`, `internal/DBImpl.java` | `Codec` |
| Write path, read path, background thread, destructor | `jni/db/db_impl.cc`, `write_batch.cc`, `memtable.cc` | `WritePath` |
| What `leveldb::DB` promises | `jni/include/leveldb/db.h` | `KVStore` (abstract), `DBStore` (mapping) |
| Levels: choice of inputs, drops, cuts, deletion of tables | `jni/db/version_set.cc`, `db_impl.cc` | `Compaction` |
| Opening, recovery, destruction of the files | `jni/db/db_impl.cc`, `version_set.cc`, `filename.cc` | `Recovery` |
| Log format, over a mapped file | `jni/db/log_writer.cc`, `log_reader.cc`, `util/env_posix.cc` | `LogFormat`, `MmapFile` |
| Iterators: blocks, levels, merge, directions | `jni/db/db_iter.cc`, `table/merger.cc`, `table/two_level_iterator.cc` | `DBIter`, `KeyCursor` (abstract) |
| Tables, blocks, filters | `jni/table/`, `util/bloom.cc`, `util/comparator.cc`, `db/dbformat.cc` | `TableFormat`, `BlockFormat` |
| Compression | `jni/snappy/snappy.cc` | `Snappy` |
| Skip list and arena of a memtable | `jni/db/skiplist.h`, `util/arena.cc` | `SkipList`, `Arena` |
| Cache and table cache | `jni/util/cache.cc`, `db/table_cache.cc` | `LRUCache` |
| LOCK file, background queue, limit on mappings | `jni/util/env_posix.cc` | `FileLock`, `BackgroundQueue`, `MmapLimiter` |

A call comes from a Java thread. `DBImpl.java` checks its arguments and calls a
JNI function, which tests the global `isDBopen`, uses the global `db`, and so
enters `leveldb::DBImpl`. That object has its own mutex, a queue of writers and
one background thread. `NativeDB` is the layer above the object, `WritePath`
the object, `KVStore` what the object promises, `KeyScan` the loops that work
on an iterator of the object and `DBIter` that iterator. `Compaction` and
`Recovery` are about the object's files, with the threads of `WritePath`
reduced to the steps they make on the files. The other modules are the
formats and structures below.

## The modules

### NativeDB

The globals of `snappydb.cpp` are the variables `db`, `isDBopen` and
`databasePath`. `heap` and `path` describe the `leveldb::DB` objects, `iter`
and `iterDB` the iterators, `singleton` and `monitor` belong to
`SnappyDB.with`, and `pc`, `job`, `arg`, `ptr`, `it` say where each thread is.
`handles` and `usable` record the handles callers have and have not closed.
A JNI function is cut where it touches a global, since nothing locks them:

| Code | Actions |
|---|---|
| `DBFactory.open`, the `DBImpl` constructor, `__open`, `DB::Open` | `Open`, `OpenCheck`, `OpenBegin`, `OpenRecover`, `OpenFlag`, `OpenPath`, `OpenFail` |
| `SnappyDB.with` | `With`, `WithLock`, `WithReturn` |
| `__close`, `__destroy` | `Close`, `Destroy`, `CloseDelete`, `CloseClear`, `DestroyFiles` |
| puts, gets, `__del`, exists and the scans | `OpCheck`, `OpEnter`, `OpRun` |
| `__findKeysIterator` and the iterator's constructor | `OpCheck`, `OpEnter`, `NewIterator` |
| `KeyIteratorImpl.next`, `close`, `finalize` | `IterNext`, `IterNextRun`, `CloseIterator`, `CloseIteratorRun` |
| `JNI_OnUnload` | `Unload` |

The code is correct only for callers that keep rules which it does not enforce.
`Obligations` is the set of the rules a run assumes: calls to open, close and
destroy run alone; a handle is used between its open and its close; `with` is
not mixed with another open database; iterators are closed before their
database; an iterator is used by one thread; the library is not unloaded after
a close. With all rules the invariants hold. A configuration that drops one
shows what the code then does.

### KeyScan, DBIter and KeyCursor

A behaviour of `KeyScan` is one query on a store that another thread writes to.
`scan` is a run of `__findKeys`, `__findKeysBetween` or one of the counts,
`keyIter` a `KeyIteratorImpl` with its native iterator. A turn of a native loop is one
action: `ScanStep`, `ScanEnds` for the scans, `NextStep`, `NextEnds` for
`next(max)`. Keys are byte sequences, compared as `Slice::compare` does. `jint`
is scaled to `MaxInt`; a sum that does not fit is undefined in C++ and may wrap
or not. The position of a LevelDB iterator is a key of its snapshot.

`DBIter` justifies that last sentence. Below it are three sources: a memtable
that goes on growing (`DBInsert`), a table of level 0 with its blocks and a
level with its files, the last two read through a `TwoLevelIterator` whose
block reads may fail. `MergingIterator` and `DBIter` are operators on the
iterator's record `db`, and its five calls are actions (`DBSeekToFirst`,
`DBSeekToLast`, `DBSeek`, `DBNext`, `DBPrev`). `IteratesSnapshot` says that it
implements `KeyCursor`, a cursor on the keys there were at its creation, as
long as its status is OK.

### WritePath, KVStore and DBStore

The variables keep the names of the members of `leveldb::DBImpl`. A memtable
and the log that covers it have one number, since `MakeRoomForWrite` creates
both. A table is the set of its entries, level 0 a sequence of tables, and the
levels below it are one. `manifest` is the MANIFEST as written and `durable` as
last synced; `log` and `synced` do the same for the logs.

| Code | Actions |
|---|---|
| `Write` | `Write`, `WriterWakes`, `RoomFound` (with `BuildBatchGroup`), `AddRecord`, `AddRecordFails`, `InsertInto`, `WriteEnds` |
| `MakeRoomForWrite` | `RoomDelay`, `DelayEnds`, `RoomFound`, `RoomWait`, `RoomWakes`, `SwitchMemTable`, `SwitchFails` |
| `Get`, `NewIterator`, `RecordReadSample`, `CleanupIteratorState` | `Get`, `GetReads`, `GetEnds`, `NewIterator`, `IteratorReads`, `RecordReadSample`, `CleanupIteratorState` |
| `BackgroundCall`, `BackgroundCompaction` | `BackgroundCall`, `BackgroundError`, `BackgroundRetries` |
| `CompactMemTable`, `WriteLevel0Table` | `BuildTable`, `BackgroundFails` |
| `DoCompactionWork` | `WorkMeetsImm`, `WorkEnds` |
| `LogAndApply`, `DeleteObsoleteFiles` | `WriteManifest`, `InstallVersion` |
| `~DBImpl` | `Close`, `CloseWakes` |

An action is one critical section of `mutex_` or one stretch between two.
The insertion in the memtable is one action per entry, because readers run
between them. Spurious wakeups are left out: every wait is in a loop.
`bg_error_` is always OK, because `__open` leaves `paranoid_checks` false.
A crash is not an action: the invariants say what the files hold at every
moment, which is what a crash at that moment leaves (`AfterProcessCrash`,
`AfterMachineCrash`).

A failed call on a file leaves damage behind, because the code goes on with
the same file: `EmitPhysicalRecord` has moved `block_offset_` over bytes that
were not written, and `Sync` of the mapped file has moved `last_sync_` over
pages that were not synced. `errors` is the history of the I/O errors; an error
of a log names the log and the records that were sure to be found at the time.
Records behind it count as lost (`Behind`) for the crash in question: a failed
append may hide all later records from the reader, a failed sync all later ones
from a crash of the machine. After a failed record of the MANIFEST nothing is
sure, since `Recover` may refuse the file. A sync of the MANIFEST that fails is
another fault (`"manifestSync"`): `ManifestContains` then reads the record back
and the version is installed.

`KVStore` is a map changed one batch at a time and read through snapshots.
`LinearizableStore` of `DBStore` instantiates it with `kv` as what a `Get`
called now would return (`Contents`), `pending` as the queued batches (`Asked`)
and `snap` as what an open reader's memtables, version and sequence number show
(`Snapshots`). After the close `kv` is what a recovery would find. The mapping
has no history in it: all of it is computed from the members of `DBImpl`.

### Compaction

The levels of an open database. `files` has the tables of each level, `disk`
the table files there are, `pending` is `pending_outputs_`, `pointer` the
compaction pointers, `bg` the running compaction with its inputs, its outputs
and how far it has come. A flush is `StartFlush`, `FlushEnds`, `FlushFails`,
also in the middle of a compaction. A compaction is picked by size, by seeks
(`UpdateStats`) or by hand (`CompactRange`, `ManualCompaction`), works key by
key (`WorkStep`, with the drop rules and the cuts of `ShouldStopBefore`) and
ends with `WorkEnds` or `WorkFails`, each of which sweeps the files. A picked
file may also be moved as it is (`TrivialMove`); when the record of the move
fails, the version stays and the compaction pointer has moved all the same.
`NewIterator` pins a version and `GetSnapshot` a sequence number. SnappyDB
itself calls neither `GetSnapshot` nor `CompactRange`; the LevelDB in the tree
has both.

### Recovery

The files of a database through its openings. A MANIFEST and a log are
sequences of records with the number of those that are synced. `pc` walks
through `DB::Open` (`OpenDB`, `NewDB`, `NewDBCurrent`, `VersionsRecover`,
`ReplayRecord`, `FinishLog`, `ReplayFails`, `ReplayEnds`, `NewLog`,
`WriteSnapshot`, `NewManifest`, `Install`, `DeleteObsoleteFile`, `SweepEnds`);
an open database writes and flushes (`DBWrite`, `MakeRoomForWrite`,
`FlushTable`, `FlushManifest`); `Destroy`, `DestroyFile`, `DestroyEnds` are
`DestroyDB`. `ProcessCrash` and `MachineCrash` may come after any of these
steps, and a machine crash cuts every file anywhere behind its synced part.

`Faults` are the calls that may fail. A failing table, new file, MANIFEST record
or CURRENT makes the opening fail. Two errors the code passes over. A log that
cannot be opened or read on (`"logRead"`) ends there for the replay
(`LogEnds`): `MaybeIgnoreError` and the reporter drop the error, since
`paranoid_checks` is false. `skipped` has the writes lost in this way. A
MANIFEST record whose sync fails (`"manifestSync"`) is found again by
`ManifestContains` and counts as written; the file is no longer `sure`, and a
crash of the machine may take the record back, which `wreck` records.

### Codec, LogFormat, Snappy, TableFormat

- `Codec`: a store of bytes under small keys, with one action for the puts and
  one for the gets of all types. Integers are cut into bytes of `Byte` values
  and joined as the code joins them, with a signed or an unsigned `char`. A
  double is written as decimal digits and read back with rounding. Kryo is
  external: it returns an object for its own bytes and fails on others.
- `LogFormat`: `AddRecord` and a turn of its loop (`AddTurn`), whose three
  appends may each fail, `SyncRecord`, closing or a crash, then the reader
  block by block and record by record, whose read of a block may fail
  (`ReadFails`). The file is that of `MmapFile`, which
  is `PosixMmapFile` as operators on a record: mapped regions, `Sync` of pages,
  truncation at the close. A crash of the machine loses any set of unsynced
  pages. A checksum is ideal.
- `Snappy`: `StartFragment`, `Scan`, `CopyMatch`, `Remainder` are
  `CompressFragment`, one action for each probe or match; `DecodeTag` is one
  turn of the decompressor's loop, with its fast paths. `UnalignedCopy64` copies
  at once or, where pointers have 32 bits, in two pieces of which the second may
  read what the first has written; every copy may be of either kind. A field of a tag keeps
  the bits it has, and a copy that reads or writes past an array sets `outside`.
- `TableFormat` over `BlockFormat`: `TableAdd` and `TableFinish` are
  `TableBuilder` with the filter block, under `BuildTable`. The write of a data
  block, of the filter, of either index or of the footer may fail, and so may the
  sync, the close and the verifying open; the file is then deleted. Blocks are searched by restart points,
  `InternalGet` goes through filter, index and block, and a block's iterator is
  moved by any sequence of its five calls.

### SkipList, Arena, LRUCache, FileLock, BackgroundQueue, MmapLimiter

- `SkipList`: memory is the sequence of the writer's stores, and a load of the
  reader returns any store its view allows, so that stale values are choices.
  Acquire loads and the database's mutex extend the view. One action is one
  store of `Insert` or one load of a search.
- `Arena`: `Allocate` and `AllocateAligned` on blocks of bytes.
- `LRUCache`: a shard is a record, a method an operator from shard to shard;
  threads go through `TableCache::FindTable` (`FindTable`, `OpenTable`,
  `OpenFails`, `Release`) and files are erased (`Evict`) meanwhile.
- `FileLock`: the steps of `LockFile` and `UnlockFile` by threads of several
  processes, the process's own table, and the kernel's lock, which goes with
  any descriptor the process closes. `givenAway` records that such a close has
  taken the lock of another thread of the process. A process may die.
- `BackgroundQueue`: `Schedule` and the loop of `BGThread`, with a signal that
  is lost when nobody waits and with spurious wakeups.
- `MmapLimiter`: the two reads of `Acquire`, and files that are mapped or not.

## The runs

Four MC modules put models of one kind side by side and choose at the start of
a behaviour which of them it is about: `MCScans` a query or the iterator below
it, `MCFiles` compactions or openings, `MCFormats` one of four forms,
`MCStructures` one of six structures. The other models then stay in one initial
state, so the state space is a sum and not a product.

| Run | Instance | Shows |
|---|---|---|
| `session` | 2 threads, 2 paths, 3 objects, 2 iterators, all rules | no use of freed memory; a handle that is open is a handle on the open database; no database is lost |
| `scans` | sets of 4 nested keys and 1 concurrent write; iterators over all stores of up to 3 entries and 1 later insertion | pages, counts and batches are exact; `hasNext` is right; loops end; `DBIter` implements `KeyCursor` |
| `store` | 2 threads, 3 writes, 1 reader | `DBImpl` implements `KVStore`; a memtable is freed exactly when nobody can read it any more |
| `writers` | 3 threads, sync and not, failing I/O, fair | one leader, unique sequence numbers, synced writes survive a machine crash unless written behind a failed write; every write returns and the destructor ends |
| `background` | 4 writes, failing tables, compactions and syncs of the MANIFEST | acknowledged writes are recoverable at every moment, work is scheduled, `KVStore` is still implemented |
| `files` | 4 levels, 3 writes, each kind of compaction; 3 openings, 2 writes, 1 error | reads find the newest entry, tables in use stay and others go; acknowledged writes are found by the next opening unless its log cannot be read, and sequence numbers are not reused |
| `formats` | ends of all integer ranges; 2 log records; all inputs of up to 11 letters; tables of 4 entries | what is written is read back, or for a log what the crash left of it |
| `structures` | one reader and 3 keys; 3 blocks; 2 threads and 3 tables; 2 processes; 3 items; 3 readers | safe lock-free reads, disjoint regions, exact reference counts, one holder of LOCK, every item runs |
| `session_iterators` | without the rule on iterators | violation: an iterator is closed after its database |
| `scans_offset` | limits near `MaxInt` | violation: offset + limit overflows |
| `codec_short` | signed `char` | violation: `getShort` returns another number |
| `recovery_error` | the table of an earlier log fails in a recovery | violation: acknowledged writes are deleted with their log |

### Bounds, and why they are enough

- `session`: two threads give every race of a test and a use. Three objects
  allow two reopenings, so a stale pointer can meet a new database.
- `store`, `background`: `WriteBuffer` 0 fills a memtable with one entry, so
  that the next write forces a switch and a later one meets the immutable
  memtable. Triggers of 1 and 2 make a compaction, the slowdown and the stop
  happen. Four writes reach a flush inside a compaction (`WorkMeetsImm`). One
  batch has two entries, so a torn batch would be seen.
- `writers`: three writers are the least for a leader, a member and a writer
  left behind; `MaxGroup` 2 stops a group by its size.
- `MaxErrors` and `MaxFaults` are 1: each fault is followed by the retry that
  the code makes.
- `scans`: the four keys contain prefixes of each other and neighbours on both
  sides of each target. Targets include an empty one and one after all keys.
  Pages include offsets at and past the end and arguments that are rejected.
  Three entries of two keys over three sources give hidden, deleted and too new
  entries on either side of a turn.
- `files`: `kNumLevels` 4 with `kMaxMemCompactLevel` 1 leaves two levels below
  the deepest flush, so that a file can be moved down without a merge; `MaxFileSize` and `GrandParentBytes` 1 cut every output that
  may be cut. Three openings are a creation, a recovery and the recovery after
  a crash of that one; two writes fill two logs or one flushed memtable.
- `formats`: `Byte` 4 gives two-bit bytes, so signs, carries and all widths
  occur. A page of 4 cells, a block of 8 and records of 1, 6 and 9 cells put
  fragments, trailers and region ends in every position. `MaxInput` 11 exceeds
  a fragment of 9, so that two fragments, split copies and both sides of every
  fast path's margin occur. The block sizes 1, 18 and 40 put one
  entry, two entries or a whole table of four in a block, so that an index has
  several entries and a block several restart points; three of the six user
  keys have two versions.
- `structures`: towers up to 3 high; a block of 8 bytes, of which requests of 1 byte
  leave a rest and requests of 3, more than a quarter, get a block of their
  own; a cache of capacity 3 with charges
  up to 2 overflows; two threads of one process and one of another; one slot
  for three files.
- Symmetry is used for threads, objects and iterators, in runs without
  liveness properties only.
- `CHECK_DEADLOCK FALSE` stands in `files`, `formats` and `structures`, whose
  behaviours end where a bound is used up; the runs of the write path, the
  session and the scans check for deadlock.

### Fairness

`writers` assumes weak fairness of each thread inside a call, of the
background thread and of a destructor that was signalled: the scheduler runs
every runnable thread, and `env_posix.cc` runs what was scheduled, which is
what `EveryItemRuns` of `structures` shows under fairness of the background
thread alone. I/O errors are finite (`MaxErrors`); with endless errors a writer
may wait for ever, since the code retries without end. No caller is made to
call. `scans` assumes that a caller in a loop over an iterator goes on, as
`byBatch` does.

### What the properties leave out

- `GetsNewest` speaks of databases in which no level below 0 has held one user
  key in two files. Manual compactions and snapshots can bring that about (see
  below); automatic compactions without snapshots, which is all SnappyDB uses,
  cannot, and that is `AutomaticDisjoint`.
- `Recoverable` and `SyncedDurable` except the writes that were acknowledged
  behind a failed append, and for the second a failed sync, of their log, as long
  as no table holds them; and they say nothing once a record of the MANIFEST has
  failed.
- `AcknowledgedRecoverable` and `SyncedRecoverable` except the writes in a part
  of a log that a recovery could not read (`skipped`), and `SyncedRecoverable`
  a MANIFEST whose sync failed.
- `AcknowledgedRead` and `SyncedRead` speak of logs on which no call has failed.
- `ReadsBack` leaves `getShort` out where `char` is signed; that is `codec_short`.
- `LockExcludes` has two halves. Two threads of one process never hold the LOCK
  file together, whatever happens. Two processes do not as long as no call has
  closed a descriptor of the file while another thread of its process held it;
  `OneHolder` without that condition is false.
- `session` assumes all rules for callers. The races and sequences that a rule
  excludes are in the configurations that drop it: `session_iterators` and the
  table below. Without `"alone"`, which has no configuration of its own,
  `MemorySafe`, `UsableHandleIsOpen` and `NoLostDatabase` all fail within a
  dozen steps.
- The number that `ReuseFileNumber` hands back after a log could not be created
  is not in `WritePath`, where a log has a number once it exists.
- `Recovery` has two kinds of crash that the run `files` leaves out, since its
  invariants fail with each. "creation" allows a machine crash while CURRENT
  names the MANIFEST of `NewDB`, which nobody syncs: the database, which has no
  acknowledged write yet, can then not be opened. "torn" allows a crash in the
  middle of a MANIFEST record: the file keeps the size of its mapping, so the
  reader meets a bad checksum and `VersionSet::Recover`, which asks for
  checksums, refuses the MANIFEST.

## What disagrees with the documents

`PROJECT.json` lists the four runs above that end in a violation, each with the
line of the document, comment or test that the code departs from. Further
configurations give counterexamples to statements of the same kind:

| Configuration | Statement | What the code does |
|---|---|---|
| `MCNativeDB_with` | `UsableHandleIsOpen` | `with` returns its closed singleton when another database is open |
| `MCNativeDB_strdup` | `UsableHandleIsOpen` | after a failed `strdup` a second open yields a handle on the first database |
| `MCKeyScan_empty` | `FinishedIsClosed` | an iterator over an empty range is left open |
| `MCWritePath_manifest` | `SyncedDurable` | a MANIFEST whose sync failed counts as written if it can be read back, and the log is deleted: a synced write is then on no synced file |
| `LogFormat_faults` | `AcknowledgedReadAnyway` | after a failed append, later acknowledged records can be lost to the reader |
| `MCCompaction_manual` | `MustNotOverlap` | a manual compaction and a flush into a level below 0 give files that overlap |
| `MCCompaction_snapshot` | `LowerLevelsNewer` | with a snapshot, an output cut between two entries of one user key lets the older stay above the newer |

Others were seen while modelling and have no configuration of their own:

- `JNI_OnUnload` deletes `db` without looking at `isDBopen`, and `__close`
  leaves `db` set: unloading after a close deletes the object twice. Removing
  `unloadOpen` from the rules of `session` gives the counterexample.
- `checkRange` tests the starting prefix twice and never the ending one.
- A write that returned an error because its log record could not be appended
  may be in the file all the same, and a recovery then applies it. For this
  reason `background`, which checks `LinearizableStore`, has no failing log; and
  no failing record of the MANIFEST, after which nothing is sure to be found.
- A second `LockFile` in the same process fails, and its `close` gives away the
  kernel's lock of the first. In place of `LockExcludes`, `OneHolder` shows it.

## What is proved

The theorems hold for every value of the constants that satisfies the named
assumption of the module that declares them.

### NativeDBProofs

For any sets of threads, paths, objects and iterators:

- `TypeCorrect`: `TypeOK`, for all callers. It is inductive together with
  the fact that a thread in an opening has a path.
- `MemorySafety`, `UsableHandles`, `NoDatabaseLost`: the invariants of the run
  `session`; `HandlesReachTheirDatabase` (an operation works on the database of
  its handle) and `FlagTells` (between calls the flag and the path describe
  `db`). They assume `Disciplined`: the callers keep every rule, and `strdup`
  does not fail.

None of these safety invariants is inductive alone. That no call is inside a
freed database depends on who else can be inside `close`, which depends on the
call a thread is in. `IInv` therefore adds: which call each label belongs to
(`CallShape`); that open, close and destroy are alone (`ExclusiveAlone`); that
flag, path and heap agree unless a thread is in the middle of changing them
(`Settled`); what a thread at each label may rely on (`LabelFacts`); that an
open database is known to some caller or is the default one (`OpenIsKnown`,
needed for `with`); that only `db` is live (`LiveObjects`); and that open
iterators belong to it and have one user (`OpenIterators`, `IteratorUse`).
These are three layers, proved in turn: `CallsInv`, `GlobalsInv` and
`IteratorsInv`, each with one step per action.

### KeyScanProofs

For any finite set of keys and any prefixes, ranges, pages and batches:

- `IteratorsAreExact` (`IteratorExact`) and `HasNextIsRight` (`HasNextTells`).
  `IterInv` says that what has been delivered is, in order, the part of the
  matching keys that the cursor has passed (`IterShape`); when `next` closes the
  iterator the cursor is past the range, so that all of them were delivered. The hard parts are
  that `Less` is a total order on byte sequences (`LessTotal`,
  `LessTransitive`), that a native iterator stands at the foremost key left
  (`AdvanceLeads`), that a reverse iterator starts at the last key not after
  its start (`StartLeads`), and that a key out of the range ends the loop and
  hides none in it (`RangeOrder`).
- `ScansAreExact` (`ScanExact`) with `ScanInv`: a scan has counted the matching
  keys before its cursor and kept those from the offset on. It assumes
  `PagesEnd`, that offset and limit add up to no more than the largest `int`.
  Without it the property is false, see `MCKeyScan_offset.cfg` above.

### The write path

Five modules, from `WritePathProofs` to `WritePathStore`, prove the safety
invariants of `store`, `writers` and `background` and the refinement of
`KVStore`, for any threads, keys, batches, triggers, faults and bounds. The
invariants need `WriteAssumption` alone. The refinement also needs
`ViewAssumption` and `StoreAssumption`, which say that `NULL` is no view, batch
or map. The invariants are layers: each is inductive with the help of those
above it in this list, and each layer is one lemma `...Next` with a step per
action and one lemma `...Always`.

| Layer | Module | Says |
|---|---|---|
| `QueueInv` | `WritePathProofs` | a writer past its wait is at the front, a group is a prefix of the queue, a writer that waits and is not done is in the queue |
| `ScheduleInv` | `WritePathProofs` | a background thread at work is scheduled |
| `DataInv`, `SeqInv` | `WritePathProofs` | a memtable, its log and what is synced of it have one number; a group has the sequence numbers after the last one, and nothing logged is above them |
| `VersionInv` | `WritePathProofs` | the version and the pending edit are well formed; the inputs of a compaction stay in place under a flush in the middle of it |
| `CloseInv` | `WritePathProofs` | the destructor runs alone and after the last background call |
| `RefInv` | `WritePathProofs` | a reference count is the number of those who can read the memtable |
| `InQueue` | `WritePathFiles` | a writer is in the queue once, until it is done |
| `NumbersInv` | `WritePathFiles` | the logs are those of the memtables; the MANIFEST is ahead of the version by the edit that is being installed or not at all |
| `GroupInv` | `WritePathFiles` | what of a group is in the log and in the memtable at each label; the leader syncs if a member asked for it |
| `FilesInv` | `WritePathFiles` | a log and its memtable agree on what is acknowledged, and of that what asked for sync is synced |
| `ErrorsInv` | `WritePathFiles` | nothing has failed that is not in `Faults` |
| `AckedOnce` | `WritePathFiles` | acknowledged entries with one sequence number are one entry |
| `BatchInv` | `WritePathFiles` | a group's entries are those of its members' batches, in the order of the queue |
| `LoggedInv` | `WritePathFiles` | the logs hold nothing but what is acknowledged or in the group in the making |
| `CoverInv`, `WorkInv` | `WritePathDurable` | the tables of the version, with the logs, decide every acknowledged key, and so do those of the version that the edit makes, with the logs it needs; a running compaction has inputs it may merge |
| `OrderInv` | `WritePathDurable` | of two sources of the version, or of the one the edit makes, the one a lookup asks first has the newer entries of every key |
| `ViewInv` | `WritePathDurable` | what a reader holds is in order, and what it may see is in it |
| `StoreInv` | `WritePathStore` | what a `Get` would return now is the newest acknowledged write of each key |

- `LeaderIsAlone` (`LoneLeader`) follows from `QueueInv`. Without the last
  part of it a leader that leaves could make a writer outside the queue the
  next leader. `GroupChosen` is the lemma about `BuildBatchGroup`.
- `WorkIsScheduled` (`WorkScheduled`) follows from `ScheduleInv`.
- `SequenceNumbersOnce` (`SequencesUnique`). `SetLastSequence` comes after the
  log record, also after a failed one, so `SeqInv` bounds the logs by the last
  number of the group in the making.
- `MemTablesFreedInTime` (`MemTablesExact`). The counts are compared with the
  set of holders through `Counts`, one member at a time.
- `NoWriteIsLost` (`Recoverable`). The hard steps are the three at which
  an entry changes its place: a flush, whose edit drops the log of the table it
  adds (`FlushFinds`); the end of a compaction, which drops entries hidden by
  newer ones and deletions with nothing below (`WorkTables`); and a flush in
  the middle of a compaction, after which the compaction's inputs are merged
  into another version than the one they were picked from (`WorkFlush`).
  `Covers` is the relation of tables, logs and acknowledged writes that all of
  them keep. No fault is excluded: a log without the records behind a failed
  append still decides, with the tables, every acknowledged write that is not
  itself behind one (`AtRisk`).
- `NoSyncedWriteIsLost` (`SyncedDurable`) assumes that `"manifestSync"` is not
  a fault. With it the property is false, see `MCWritePath_manifest.cfg` above.
- `WritePathIsStore` (`LinearizableStore`) assumes that `"append"`, `"sync"` and
  `"manifest"` are not faults: after a failed append or sync of a log DBImpl
  refuses the writes of the group but the log may have them, and a recovery
  finds them; after a failed record of the MANIFEST it may find nothing. Tables,
  compactions, new files and syncs of the MANIFEST may fail. `StoreInv` turns the map of the refinement
  into the newest acknowledged write of each key, so that a step changes the
  map exactly when it acknowledges something. Only `WriteEnds` does
  (`EndCommits`): it is a `Commit` of the group's members in their order, since
  the group's entries in the order of their numbers are the batches one after
  the other. Every other step is an `Ask`, a step of one reader, an `Abort`
  (`RoomEnds`: no log for a new memtable) or a stutter (`OtherSteps`).
  A flush or a compaction is a stutter by `OrderInv`, and the map of an open
  reader stays (`SnapshotsKept`) because what is added to a memtable it holds
  has a number above its own (`Frozen`).

`WritePathTables` has the lemmas on tables, versions and lookups: a lookup that
goes through sources in order finds the newest visible entry of a key, and what
`ApplyEdit` does to that order for a flush and for a compaction. The first
part of `WritePathProofs` has the lemmas on numbers, sequences, concatenations
and counts. The provers cannot use the induction theorems of the library; these lemmas take
the least counterexample of a set of numbers (`LeastNumber`) in their place.

### StructureProofs

- `ArenaKeepsRegionsApart` (`RegionsApart`): `ArenaInv` adds that
  `alloc_ptr_` and the bytes remaining split the current block exactly
  (`Split`) and that regions of that block end before `alloc_ptr_` (`Handed`).
- `LockHasOneHolder` (`LockExcludes`): `LockInv` adds that a process has one
  thread at a time between `Insert` and `Remove` of its table, and that a
  holder's process owns the kernel's lock until a close gives it away.
- `ReadersFollowStoredLinks` (`LinksInitialized`) and `ReadersPassNothingOver`
  (`NothingPassedOver`), for any finite set of keys and any levels. `WriterInv`
  is about the sequence of stores alone: a store of a link leads to a node that
  has its own link on that level and, above level 0, is linked on the level
  below (`Formed`); and at every moment of the sequence no key of the lowest
  level is between a linked node and its successor (`Gapless`). `ReaderInv`
  says that the node a search is at is before the key it looks for and linked
  on the search's level in the reader's view. A load is at least as new as that
  view, so the link exists; and on level 0 it leads past no key of the view,
  which is what a finished call has moved over.
- `QueueRunsInOrder` (`RunsInOrder`): items run once and in order.
- `LimiterKeepsSlots` (`SlotsKept`): slots left and slots in use are always
  the limit.

`TypeOK`, `HandleReachesItsDatabase`, `FlagIsTruth`, `RunsInOrder` and
`SlotsKept` are proved and not listed in a run.

### Only model-checked

Recovery and its crashes (`Recovery`), the levels (`Compaction`), the formats,
the cache (`LRUCache`), and the refinement of `KeyCursor` by `DBIter`
(`IteratesSnapshot`); and, out of the prover's reach, liveness (`WriteReturns`,
`CloseReturns`, `IterationEnds`, `EveryItemRuns`) and what recursive algorithms
compute (`RoundTrip`, the searches of `DBIter` and `BlockFormat`).

## Not modelled

- Repair and the C binding (`db/repair.cc`, `db/c.cc`): compiled and never
  called by SnappyDB.
- Kryo and Java serialization: libraries outside the repository. `Codec` has
  the calls around them.
- Varints, fixed-width integers, the encoding of a `VersionEdit`, of block
  handles and footers: an edit, a handle and a header are their fields. CRCs
  are ideal, a hash is any function.
- The reader's initial offset, which LevelDB leaves 0; `ApproximateOffsetOf`
  and other statistics; the choice of a cache shard, since shards share nothing.
- `paranoid_checks` and `bg_error_`: `__open` never sets the option.
- Sources and sinks of snappy that come in pieces, and compressed input that
  `Compress` did not make.
- Directory calls, sequential files, the text logger, `Status`, option structs,
  histograms: no state of their own.
- The sample application.

## Running

    tlc -workers 2 -config MCWritePath.cfg MCWritePath
    tlapm NativeDBProofs.tla

Operators whose comment calls them a mutant are wrong on purpose: put in the
place of the definition they are named after, each makes TLC report a violation.
