# A TLA+ development of LRDB

LRDB is an embedded key-value store in C++17: column families, MVCC transactions, a
write-ahead log with crash recovery, an LSM tree, snapshots. This directory holds
specifications of its parts in TLA+, TLC configurations that check them on small instances,
and theorems checked by TLAPS. `PROJECT.json` ties every definition that models code to the
lines it stands for.

Run a check with `tlc -config <name>.cfg <MC module>` (the run's name is that of its `.cfg`, section
3 says which module it belongs to) and the proofs with `tlapm <module>` for `LockProofs`, `WalProofs`,
`FamiliesProofs`, `BackgroundProofs`, `MvccProofs`, `LsmProofs`, `SkipListProofs` and `IteratorProofs`.

## 1. The system

| Component | State | Operations | Talks to |
|---|---|---|---|
| Lock manager (`concurrency/lock_manager`) | per key: holders, queue of waiters; wait-for graph; deadlock victims; range locks | Acquire, TryAcquire, Release, ReleaseAll, AcquireRange, DetectAndResolveDeadlocks | called by transactions |
| Transactions (`tx_manager`, `transaction`, `snapshot.h`, `sequence_manager.h`) | id and sequence counters, active set; per transaction its view, its frozen sequence number, the keys it touched | Begin, Get, GetForUpdate, Put, Delete, Commit, Rollback, iterators | lock manager, version chains, WAL, LSM tree |
| Version chains (`version_chain_manager`) | per key: list of versions (active, committed, aborted; commit number; flushed) | append, mark committed or aborted, visible reads, pick for flush, mark flushed, GC | called by transactions and background tasks |
| Memtable, skip list (`storage/memtable`, `util/skiplist.h`) | entries ordered by internal key; mutable and immutable tables | Put, Delete, Get at a snapshot, switch, flush | LSM tree |
| LSM tree, SSTables (`storage/lsm_tree`, `storage/sstable`) | levels of sorted tables | Put, Delete, Get, flush, compaction, recovery | memtables, files, background tasks |
| WAL (`wal/wal`) | current file, archived files, last sequence number | write, sync, rotate, replay, truncate | transactions, recovery |
| Column families, MANIFEST (`db/column_family`, `db/manifest`) | the families, their directories and metadata; log of version edits | create, drop, recover, shutdown | all of the above |
| Database (`db/db_impl`, `core/lrdb`) | lifecycle state, components | open, crash recovery, close, background registration | all of the above |
| Background manager, error handler (`background`, `util/error_handler`) | task queues, workers; error statistics, callbacks | schedule, run, shut down; classify, retry | run flush, GC and compaction |
| Utilities (`util`, `core`) | none that is shared | encoding, hashing, comparison, files, logging | everyone |

A write takes the X lock of its key (lock manager), appends an Active version to the chain of
the key, and at Commit draws a sequence number, writes one WAL record per key, syncs the log,
marks the versions Committed, leaves the active set and releases its locks. A periodic task
writes committed versions to the LSM tree and marks them flushed; another one drops flushed
versions that are not the newest. A read looks at the chain first and falls back to the LSM
tree at some sequence number.

What is hard here: each of these steps runs under a mutex of its own, so transactions, readers,
the flush and the collector interleave between any two of them; waits end by notification,
time-out or resolution; two different kinds of view (a set of transaction ids for the chain, a
sequence number for the LSM tree) must agree; the log can fail between two records; flushes can
fail half way; crashes fall between any two steps of commit, rotation and recovery.
`PROJECT.json`, "hazards", lists where each of these bites.

What makes each part correct, in short: *locks* exclude, wake whom they should, leave nobody
behind and refuse exactly the waits that would deadlock; *transactions* are atomic, lose no
update and are durable before they are visible; *snapshots* and repeatable reads do not change;
*flush and GC* change nothing a reader can see; *WAL recovery* brings back every synced commit
and nothing else, also after a second crash; the *LSM tree* returns the newest version below a
snapshot through every flush and compaction; *families* and *MANIFEST* agree after a restart;
*background work* is done in the end and stops at shutdown.

## 2. Modules

| Module | What it is |
|---|---|
| `LockManager`, `LockProps`, `MCLocks`, `LockProofs` | the point locks, one action per critical section; fairness of the threads |
| `Mvcc`, `MvccProps`, `MCMvcc`, `MvccProofs` | transactions, version chains, flush, GC and snapshots of one column family |
| `AtomicStore` | what transactions promise their users, without versions or numbers; `Mvcc` implements it |
| `Wal`, `WalProps`, `MCWal`, `WalProofs` | the log of one column family: commits, rotation, crashes, recovery, shutdown |
| `LsmTree`, `LsmProps`, `MCLsm`, `LsmProofs` | the LSM tree of one column family: memtables, flush, tables, compaction, reads, recovery, close |
| `Iterators`, `IteratorProps`, `MCIterators`, `IteratorProofs` | iterators of memtables and tables, their merge, the iterator of a transaction |
| `SkipList`, `SkipListProps`, `MCSkipList`, `SkipListProofs` | the skip list of a memtable between its writer and readers without a lock |
| `OrderedMap` | what a reader of a memtable may rely on; `SkipList` implements it |
| `Families`, `FamiliesProps`, `MCFamilies`, `FamiliesProofs` | the database and its families: open, recovery, create, drop, close, the MANIFEST |
| `Background`, `BackgroundProps`, `MCBackground`, `BackgroundProofs` | the background task manager and the registration of tasks |

`X` is the model, `XProps` its properties, `MCX` the instances for TLC, `XProofs` the theorems.

### LockManager

`holders[k]` and `waiters[k]` are the fields of `LockEntry`, `graph` is `WaitForGraph::g_`,
`aborted` is `aborted_`. `pc`, `want` and `todo` are the threads: idle, waiting in
`cv.wait_for`, or in the loop of `ReleaseAll` with `todo` keys to visit. `woken` are the
waiters that were notified and have not looked yet. A holder appears once in the set even if
the vector holds it twice; no operation tells the difference.

All that `Acquire` does before its wait happens under the mutex of the entry, the graph being touched
under its own mutex inside it, so it is one action with three outcomes (`AcquireGranted`,
`AcquireAborted`, `AcquireWaits`). After the wait come `LeaveWait` (as a victim or with the lock),
`WakeAndSleep` and `TimedOut`. `LeaveWait` does not ask for a notification, because `wait_for` may wake
by itself; `TimedOut` needs the predicate to be false, since `wait_for` evaluates it once more at the
deadline. `ReleaseAll` visits the entries one at a time in any order (a hash table) and cleans the graph
last. `Reach`, what the search `Dfs` of `WouldCreateCycle` visits, is the least set of transactions that
the edges do not leave; `DetectCycle` is a depth-first search that returns the largest id of the path it
is on when it meets a cycle; the model allows any transaction on such a path. `TryAcquire`, `Release`
and the detector have no caller in the repository; the constant `Api` says which of them an instance
uses.

Range locks are left out: `AcquireRange` locks `range_mu_` and then calls a helper that locks it
again, so no call of it returns and the set of range locks stays empty.

### Mvcc

`chain[k]` is the vector of versions of a key, as a set of records that carry their `place` in
it. `lsm[k]` are the entries of a key in the LSM tree, each with its `layer`: the tables of level 0 are the
layers up to `tree.disk`, immutable memtables come above them, and `tree.top` is the mutable
memtable. In one memtable two entries of a key with one sequence number and one kind cannot exist
(`SkipList::Insert` overwrites). `Init` is the tree after recovery: the recovered values lie in a
table, as `FinishRecovery` leaves them. `LsmGet` is `LSMTree::Get` over the layers, with what it does
to a key that is in memtables and tables at once: a table's value replaces the memtable's, unless that
is a tombstone. A put goes to the mutable memtable or, when that is full, to a new one
(`PutLayers`); `SwitchMemTable` and `FlushMemTable` are what `FlushAll` and the flush of the tree do at any
moment. `Straight(k, s)` says that of what number `s` shows of `k` nothing lies above something newer,
and not one part in memtables and another in tables: the keys for which `LsmGet` finds the newest.
`lastId`, `lastSeq`, `active`, `view`, `commit` are the counters, the active set and the fields
of the transaction. Transactions go through phases (`pc`):

    idle -> insert -> [view -> limit -> seq ->] running -> logging -> synced -> marked -> leaving -> done
                                                     \------- Rollback ------->/

The bracketed steps are those of `BuildReadView` and `Begin` for a repeatable read; a
read-committed view needs none of them. A read is two actions, `GetChain` and, if the chain
shows nothing, `GetLsm`; `SnapshotChain` and `SnapshotLsm` are the same for a user's snapshot.
`Rollback` is `Rollback`, the destructor, and `Abort` after a failed log write or sync.
`FlushPick`, `FlushItem`, `FlushFails`, `MarkFlushed` are `FlushCommittedToLSM`; `RunGC` is
`GarbageCollect`.

Seen through what they promise: the lock manager as `owner` (exclusive locks, as
`LocksExclusive` proves; a refused or timed-out lock changes nothing here), the WAL as
the sets `wal` and `synced`, the LSM tree as its layers: that a key's versions lie in one block of a table is
assumed here, and blocks, compaction, refusals by the stop condition and crashes are in `LsmTree`
(`FlushFails` is any refusal). That `FlushAll` holds `write_mutex_` is left out, which allows more
interleavings. `ReleaseAll` is one step here: nothing a transaction locked has an uncommitted version
by then. Ghost variables: `history` (what was committed to each key), `results` (what reads
returned), `view[t].quiet` and `snap.settled` (what was under way when a view was built).
`enable_rr_validation` has its default, off.

`AtomicStore` has a store and the pending writes of each transaction; a commit applies them at
once. The mapping takes the store to be what a plain read sees, chain before LSM tree, and
the pending writes to be the newest Active versions: every step of Begin, log, sync, flush and
GC is a stutter, `Mark` is the commit.

### Wal

On disk are `logs` (a function from <directory, number> to the records of a file), `tables`
(what is in SSTables) and `lastSequence` (what the file `LAST_SEQUENCE` reads as, 0 when it is empty or
missing). The file is opened with truncation, written through a stream and never synced, so a loss of
power may leave any content it has had: `onDisk`. `current`, `nextFile`,
`synced` and `broken` are the writer: the number of its file, the next number, the records that
an `fsync` has covered, and a stream that has failed, which fails ever after; a `Sync` that fails at
`open` or `fsync` leaves the stream as it is (`LogFails`). `walSequence` is
`WALManager::last_sequence_`, `snapshot` is `snap_gen_`, `volatile` is what is committed and in no
table, in a chain or a memtable. `phase` says where a session is:

    down -> replay -> sweep -> number -> open -> shutdown [-> sequence] -> truncate -> down
              \-> refused (the opening failed; it can be tried again)

| Action | Code |
|---|---|
| `Initialize` | `WALManager::Initialize`: the next number is one above the highest in `wal/`; `wal/archive/` is not looked at, and without a file in `wal/` nothing is replayed |
| `Replay`, `ReplayStops`, `RecoveryFails` | `RecoverFromWAL` and `FinishRecovery`: all records become one table; a record cut short, or a table that cannot be written, fails the opening |
| `Sweep` | the replayed files are deleted, one by one, in the order of their paths |
| `TakeUpNumbers` | `DefaultColumnFamily` takes up the sequence number, the higher one of log and `LAST_SEQUENCE` |
| `Prepare`, `Log`, `LogFails`, `SyncLog`, `Mark` | the steps of `TransactionImpl::Commit` |
| `Archive`, `GiveUpFile`, `LogInNewFile` | the two halves of `SwitchToNewWALLocked`, the first with a sound or a failed stream |
| `Flush` | background tasks move committed versions to a table, older ones of a key first |
| `Close`, `EmptySequence`, `Shutdown`, `TruncateLogs`, `Exit` | `DBImpl::Close`: data to tables, `LAST_SEQUENCE` opened, which empties it, and written (each may fail, and nobody looks), log closed, files deleted one by one |
| `Crash` | the process dies or the power fails, which a closed database survives with any earlier content of `LAST_SEQUENCE`; of what was not synced any prefix remains, perhaps with a piece of the next record (`Remains`) |

A record names its transaction, key and number and stands for its value; the bytes, checksums
and types of records are left out, and begin, commit, abort and checkpoint records, which
recovery ignores. The log of one commit is interleaved with that of others; two commits under
way have no key in common, as the X locks of `LockManager` ensure. The limit of 1000 files, a
next file that cannot be created, and commits that run while `Close` does are not modelled.

Three situations are set apart because the code loses data or numbers in them:

* `doubted`: a switch that meets a failed stream logs the error and goes on (wal.cc:1224). A
  transaction with a record in the old file then syncs only the new one, and Commit returns OK.
  `AckedSurvives` excepts these transactions; without the exception TLC refutes it. The properties of
  the numbers except them too (`InDoubt`): a flush may bring such a commit into a table before a crash
  takes the file with its number.
* `CrashInSwitch`: between the archiving of the last file in `wal/` and the creation of the next one
  a crash leaves `wal/` empty, and the next opening skips the replay. The runs take `CrashInSwitch =
  FALSE`, the theorem has it as a hypothesis, and with `TRUE` TLC refutes `AckedSurvives`.
* `forgotten`: an opening that finds, in `LAST_SEQUENCE` and in the log, only numbers below `due`, the one the
  last clean shutdown was to leave. `Shutdown` may have emptied the file and not written it, or the write was
  lost with the power, while `Close` has deleted the logs (column_family.cc:1211, db_impl.cc:380). The
  numbers then start again below those in tables. `Remembered` is the premise of the three properties
  of numbers that this has not happened; without it TLC refutes them. `due` and `forgotten` are history.

### LsmTree

On disk are `files` (what `LoadExistingSSTables` would look at, some cut short) and `strays` (output
files of compactions). In the process are `mutable`, `immutables`, the registered `tables`, and
`recovered`, the memtable a replay goes to. A writer is a call of `FlushCommittedToLSM` (the background task,
and `Flush` and `Close` of the database): `unflushed` are the committed versions that are not marked,
`batch[w]` those a writer has picked, `put[w]` those of them that are in the tree, and `pending[w]` is the one
that has passed `CheckWriteConditions` and has not taken `write_mutex_`. `log` is what the write-ahead
log would replay, which `Wal` models in detail. `accepted` is history: what a writer was told is in the
tree. So is `split`: the keys of which an older version has come to a newer memtable than a newer one.

| Action | Code |
|---|---|
| `Commit`, `Pick`, `MarkFlushed` | a commit, in log and chain; `PickCommittedNotFlushed` and `MarkFlushed`: some keys, of each all versions that are not marked |
| `CheckWrite`, `WriteStopped` | the next version of the batch, key by key and newest first (`IsNext`), up to the mutex; or the stop condition, which ends the batch |
| `WriteLocked`, `WriteRefused` | `Put` and `Delete` under the mutex: the switch of a full memtable and the entry; or TryAgain, which ends the batch |
| `FlushOldest`, `FlushFails` | `FlushOldestMemTable`, by the background task, `FlushAll` or `Close`; a failed task is not scheduled again |
| `FlushAllBegins`, `FlushAllEnds` | `FlushAll`, which keeps writers out |
| `BackgroundCompaction`, `CompactRange` | `DoLevelCompaction` of a level that needs it; the merge of a range |
| `Open`, `RecoverRecords`, `FinishRecovery`, `LogSwept` | registration of the files found, replay, the table made of it, deletion of the log |
| `CloseBegins`, `CloseEnds`, `CloseFails`, `LogTruncated` | `Close`, which goes on to the mutable memtable after a failure |
| `Crash` | anywhere, also with a file half written |

`Get` is the read path as an operator over the state: memtables from the newest to the oldest, then
tables level by level, one block of each (`FindIndexEntry`), the first table with a version ending the
search. The order of entries in a table is that of their bytes (`Before`): the kind comes before the
number, whose low byte comes first; so `BlockCap` decides which versions a search sees.

A batch that is refused half way has marked nothing, and all of it is picked and put again; two writers
may have picked the same versions. As the versions of a key come newest first, a switch between two of
them puts the older one into the newer memtable (`split`), where reads find it first, also after a
restart: `NewestFirst` and `ReadsNewest` speak of the other keys. After a refusal the chain of runs of
the background task ends (module `Background`), while `Flush` and `Close` pick again; the model lets any
writer do so. A batch under way while its family is dropped is not modelled.

A compaction never gets its output into the tree: `SSTableCompactor` leaves the number of the new
file 0 and `ValidateFileMeta` refuses it. The model has the comparison (`OutputNumber`, `CanRegister`)
and the branch for a success, which is never taken; `Inputs` keeps the choice of files, and
`DoLevelCompaction` what a failure does.

### Iterators

A behaviour is one iterator over data that does not change, and any sequence of calls: what changes
below an iterator is the matter of `SkipList`. A child is the sequence of its entries and a
position. Each turn of a loop is a step. `FindSmallest` and `FindLargest` are those of
`LSMTreeMergeIterator`: all versions of the next key are consumed from all children, the newest visible
one wins, a deletion goes on to the next key, and so does a key that is not beyond `bound`, the
`last_key` of `Next` and `Prev`. `ChildSeek` distinguishes the kinds: a memtable finds the first entry from
the key on, `SeekInBlock` compares every second entry of one block (it parses an entry to compare it and
another one to move on). `AdvanceEnds`, `AdvanceVersion` and `AdvanceTree` are the branches of
`TxnIterator::Advance`, whose loop has the versions of the chain over the merge; where it calls `Next` of the
merge, `back` says where that call returns to: to the next turn or to the caller. `Init` takes every
way to spread the written versions over the children.

### SkipList

`next[n][i]` is the pointer of node `n` on level `i`, the head is node 0. `Insert` finds the
predecessors, raises `max_height_` and allocates the node; `SetNext` then stores one pointer per step, from
the bottom, on each level the node's own before the one that leads to it. Readers are iterators: one
step loads one pointer. After each move `UpdateCurrentEntry` looks the key up again (`Get`, `TakeEntry`).
`MemTable::Put` holds the memtable's mutex, so there is one writer. Loads and stores take effect in one
order; the pointers are stored with release and loaded with acquire, and `max_height_` may be read
stale, which is the same as reading it earlier.

`Chain(i)`, the nodes a walk along level `i` meets, is the least set that the pointers of the level do
not leave.

`OrderedMap` enters a pair in one step, and its iterators move at one moment of a call. The mapping takes
the keys of the map to be the nodes that a pointer of level 1 leads to.

### Families

Of a family only its directory is kept: `wal[d]`, the writes in its log, and `sst[d]`, those in tables.
`manifest` are the records on disk, `buffer` those in the stream of the `ManifestWriter`, `op` the create or
drop under way. `phase` says where the process is:

    down -> starting -> reading -> opening -> checking [-> marking -> validating -> finishing] -> up
         -> syncing -> shutting -> truncating -> closing -> down

An opening that fails (`Refused`) goes to `syncing`: the destructor of `DBImpl` calls `Close`.

| Action | Code |
|---|---|
| `Open`, `OpenManifest`, `ReadManifest`, `BuildFamily`, `Validate` and their failures | `DBImpl::Initialize`, `ColumnFamilyManager::Initialize`, `RecoverColumnFamilies`, `ValidateAllColumnFamilies`; building a family replays its log into a table |
| `CheckRecoveryNeeded` ... `FinishLSMTreeRecovery`, `StructureInvalid`, `Inconsistent`, `RecoveryFails` | `RecoverFromCrash` |
| `CreateColumnFamily`, `CreateFails`, `DropColumnFamily`, `SyncManifest`, `Finish` | the calls: record to the stream, its sync, the change in the maps |
| `Commit`, `Flush` | a commit, which nothing stops before its family is shut down; a flush |
| `Close`, `SyncFamily`, `SyncFails`, `SyncEnds`, `ShutdownFamily`, `ShutdownEnds`, `PersistFails`, `TruncateLogs`, `CreateCleanShutdownMarker`, `Closed` | `DBImpl::Close`, family by family |
| `Crash` | the records of the stream are on disk, or not, or the first of them in part |

A torn record ends within the next `needs` records: `RecoverFromManifestFile` finds what follows by
trying every byte, unless the read of the torn record has run into the end of the file (`Readable`). The
X locks and the order inside a log are left to the other modules. Not modelled: a failing `fsync` of the
MANIFEST, which `Create` and `Drop` ignore; backups; `column_families.info`, which is written and never
read.

### Background

A task is one call of `ScheduleTask`; `place[t]` says where its current instance is: queue, a worker's
hands, running, or with the thread that sleeps until the next run. `first` tells whether the current
instance is the one whose id was returned. `pc` and `at` are the workers. `call` and `names` are
`RegisterBackgroundTask`, which looks for a name, lets go of the mutex, schedules and then records; two
callers with one name may both pass. `ScheduleTask` looks at `shutdown_` before it takes the mutex
(`Admit`, `Push`), so a task may enter the queue of a manager that is down. `Flagged` keeps
`cancel_requested` and, as history, whether the flag was set before a worker looked (`inTime`).

## 3. Runs

| Run | Module | Instance | Shows |
|---|---|---|---|
| `locks_x` | `MCLocks` | 3 transactions, 2 keys, X locks, detector | types, no ghost waiters, no lost wake-up, no stale edges, acyclic graph |
| `locks_api` | `MCLocks` | 3 transactions, 1 key, S and X, every entry point, fairness | mutual exclusion, no overtaking, every wait ends |
| `mvcc_views` | `MCMvcc` | 1 repeatable read, 2 writers, 1 key, 3 layers | numbers grow along a chain, repeatable reads of a transaction that began alone |
| `mvcc_snapshots` | `MCMvcc` | 2 writers (puts and deletes), 1 snapshot, 1 key, 3 layers of the tree | flushed in order, settled snapshots read their past, what is flushed is in the tree and, if that is straight, read there |
| `mvcc_writes` | `MCMvcc` | 2 read-committed transactions that lock, read and write 2 keys | single writer, locked reads stay the latest, durable before visible, implements `AtomicStore` |
| `wal_crash` | `MCWal` | 3 transactions, 3 keys, files of 2 records, 1 crash, 3 openings | types, returned commits survive; while each opening finds the number that is due: numbers cover the tables, one commit per number, later commits have higher numbers |
| `lsm_tree` | `MCLsm` | 2 keys with 2 versions each, 1 writer with its batches, memtables of 1 entry, blocks of 2, 2 tables stop the writer, a crash or a failing flush, fairness | nothing is lost, reads look first where newer versions are, a read finds the newest, what is switched is flushed |
| `lsm_stale` | `MCLsm` | 1 key, 2 puts | finding: a hit in a memtable is replaced by an older version in a table |
| `iterators` | `MCIterators` | 4 versions of 3 keys over 2 memtables and a table, 2 snapshots, 3 chains | complete scans, exact seeks over memtables |
| `skip_list` | `MCSkipList` | 4 keys, 2 levels, 2 entries, 1 iterator | levels stay nested, implements `OrderedMap` |
| `families` | `MCFamilies` | 2 names beside the default one, numbers up to 2, 1 write, 2 crashes, 3 openings | types, MANIFEST against calls, committed data survive, families keep apart, marker of a clean shutdown |
| `background` | `MCBackground` | 2 workers, 2 periodic tasks of different priority, 1 named task, fairness | types, quiet after Shutdown, cancelled tasks rest, top tasks go on, Shutdown ends |

**Bounds.** Each transaction of `Mvcc` is begun once and writes a key at most `MaxWrites` = 1 times.
Two writers of one key after a recovered value give three generations of it: one only in the LSM
tree, one that can be flushed and collected, one newest. `MaxLayers = 3` lets these three lie in a table and two
memtables, or two tables and a memtable, in any order; in `mvcc_writes`, where plain reads are the
matter, it is 2. Two keys are needed where atomicity over
keys or the order of flushed keys matters, three transactions where a circle of waits or a reader
beside two writers does. `MaxItems = 1` makes every flush stop at the first key that has
something. Transactions of `LockManager` are unbounded in number of calls. `Users` and `Writers` say which
transactions read and which lock, write and commit, so that each run pays for the interleavings
it is about.

In `Wal` a transaction commits once. `FileCap = 2` makes the first transaction, which writes two
keys, fill a file, and a third record, of a transaction beside it, switch; the third one writes a
key of the first again. One crash and three openings reach: a crash in every phase, an opening that
is refused and tried again, a restart whose numbering meets names in the archive, and a clean
shutdown after a recovery.

In `LsmTree` a memtable of one entry makes every write after the first switch, three memtables refuse a
fourth write, one table triggers a compaction and two stop the writer. `MaxMishaps = 1` allows one crash or one
failing flush: two versions of a key with a crash put an old version again into a newer table, and a
refusal puts a batch again. TLC has one writer; the theorems hold for any number. Openings, closings,
batches and calls of `FlushAll` are not bounded. Deadlock is checked: the tree can always be closed and
opened.

`Iterators` leaves out no sequence of calls: the state is the position, so the sequences are unbounded.
Both properties are about the moments between calls (`pc = "idle"`).
With blocks of two entries and three or four entries a table has two blocks, and a skipped second entry.

In `SkipList` four keys allow a node on each side of a reader and of an insertion, and two levels are what a
descent needs; calls and overwriting are unbounded. In `Families` the three openings with two crashes
allow a crash in an opening after a crash, and a torn record with one or two behind it; numbers up
to 2 are enough for one that is used again. In `Background` nothing is bounded but the number of
tasks: each periodic one runs any number of times.

Deadlock is not checked in `mvcc_*`, `wal_crash`, `lsm_stale` and `families`: the bounded transactions,
crashes and openings come to an end and the system stops.

**Fairness.** `LockProps!Fairness`, used by `locks_api`: a notified thread that can go on does so, a
notified thread that cannot goes back to sleep, a transaction ends at some time and its `ReleaseAll`
runs to its end. Nothing is assumed of deadlines or of spurious wake-ups, so `EveryWaitEnds` says that
the notifications alone are enough. It is stated for one key, where no circle of waits exists.

`LsmProps!Fairness`: the flush task runs every second and `FlushAll` is a loop of its caller, so
`FlushOldest` is taken when it can be, and `FlushAll` returns. Writers, compactions and failures are not
fair. `SwitchedIsFlushed` ends where the task has failed, since the manager then drops it.

`BackgroundProps!Fairness`: workers and sleeping threads are scheduled and a task's function returns; the
queue is ordered by priority and then by time, so among tasks of one priority a waiting one is taken if
it can be again and again (strong fairness, as the order of times is left out). Nothing is assumed of
callers; that pauses end is a premise of `TopTasksGoOn`.

**Conditions.** `SnapshotReadsItsPast` is stated for snapshots with a number above 0 taken while no
commit lay between its number and its marking: number 0 means no limit to the memtable, and a snapshot
taken in between changes under its reader. It and `QuietReadsRepeat` require the exact value of reads
from the chain and of reads from the tree while that is straight for the key (`Straight`, `Returned`);
of the other reads below the chain `SnapshotReadsItsPast` says that they return an older commit, or the
key's absence before the first one, and never a newer one. `FlushedIsReadable` likewise says that what
is flushed is in the tree, always, and that `LsmGet` returns it while the tree is straight.
`QuietReadsRepeat` is stated for views built while no other transaction lived. A transaction whose Begin
has drawn its id and has not yet inserted it in the active set is visible to a view built in between.
Also, a transaction that has its number but is not marked when the view is built is excluded by the
active set and included by the frozen sequence number, which shows after GC has dropped the older
version and the flush has written the newer. `NewestFirst` and `ReadsNewest` are stated for keys without
an older version above a newer one (`split`, above), `ReadsNewest` also for keys that are not both in
memtables and in tables, which `lsm_stale` explains, and whose versions lie in one block of each table:
a search looks into one block only. `ForwardInMemory` is stated for iterators without tables, since
`SeekInBlock` misses keys; a scan does not seek. `ScanIsComplete` is about a scan from `SeekToFirst` by
`Next` of an iterator on which `Prev` has not been called since its last `Seek`: `SeekToFirst` does not reset the
direction (lsm_tree.cc:1345), which `clean` keeps out. `NumbersCover`, `OneCommitPerNumber` and
`LaterCommitWins` are stated until the second crash, as long as each opening found the number that was
due (`Remembered`), and except commits in doubt. Without the last exception they fail for three
transactions whose keys are all different; in `wal_crash` the first and the third share a key, as
`LaterCommitWins` needs, and the three do not reach that case. `CleanIsTrue` is stated after openings
that succeeded. `OwnData` speaks of the name, not the number, of a family.

**What the code does differently from its documents.** The run `lsm_stale` shows one. Others, met while
modelling, are kept in the models and explain the conditions above:

* A circle of three waits can arise that the wait-for graph does not have, because edges are recorded when a
  waiter is queued and not when the lock passes on (lock_manager.cc:139). `GraphAcyclic` includes that the
  detector never has a victim. Such waits end by time-out.
* A snapshot taken between `PrepareCommit` and the marking of the versions changes (tx_manager.cc:46),
  against README.md:11.
* A key written twice in one transaction reaches the memtable newest version first under one internal
  key, and the older value stays (version_chain_manager.cc:146).
* The versions of a key are put newest first, and again after a refusal; with a switch of the memtable in
  between, the older one lies above the newer and a read of the tree returns it (version_chain_manager.cc:145).
  While the key has a version in its chain that does not show; after a restart it does.
* A read below the chain at an older number may return a commit older than it should, when the key is in
  memtables and tables at once (lsm_tree.cc:295).
* `LAST_SEQUENCE` is emptied, written without a look at the result and not synced, and the logs are deleted all
  the same (column_family.cc:1211): if it is lost, the numbers start below those in the tables, which
  the comment at column_family.cc:102-104 wants to prevent.
* A record torn by a crash at the end of a log makes the opening fail (wal.cc:1292, against the comment
  at 1286), and a crash between two records of a commit brings half of it back (wal.cc:1361, against
  README.md:90).
* After two crashes without a commit in between, sequence numbers start below those in the tables
  (column_family.cc:116).
* The number of a commit whose only records were in a file that could not be synced is given again
  after a crash, though the commit returned OK and a table may have it (wal.cc:1224).
* Compactions register nothing (sstable.cc:2805, `OutputNumber`), so level 0 grows until writes stop.
* The default family is not recorded in the MANIFEST on the first opening: after another one has been
  created, the next opening is refused (column_family.cc:1362, against the comment at 991).
* `CLEAN_SHUTDOWN` is removed before it is looked at, and building the families empties their logs:
  `RecoverFromCrash` does its work only when the directory of a dropped family still has a log, or
  `RECOVERY_IN_PROGRESS` was left. `CleanupRecoveryState` removes that marker before
  `FinishLSMTreeRecovery`.
* The `Close` of a failed opening writes `CLEAN_SHUTDOWN` though logs of families it never opened are not
  flushed (against the comment at db_impl.cc:1084-1087).
* A commit that returns while `Close` is between `SyncAllData` and `TruncateLogs` is lost (db_impl.cc:344).
* A new family with number and name of a dropped one shows the dropped one's data.
* Cancelling a periodic task by the id that was returned has no effect after its first run; the ids
  of earlier runs stay in `active_tasks_`, so `WaitForAllTasks` would wait for its time-out.
* `NoLostWakeup` holds for exclusive locks only: of several shared waiters only the one at the head goes on
  after a release, the next ones wait for another release.
* `MemTable::ValidateStructure` compares the number of nodes with a count that an overwritten entry raises.

## 4. Proofs

`LockProofs` proves, for any sets of transactions and keys, any request types and any use of
the entry points, from `NoWishAssumption` and `TypesAssumption`:

* `TypeCorrect`: `Spec => []TypeOK`. `TypeOK` is inductive. Its three parts (locks, graph,
  threads) are treated apart; `RemoveWaiterType`, `HoldType`, `ReturnType`, `RemoveEdgesType` say what
  the helpers preserve, and each action cites the ones it uses.
* `LocksExclusive`: `Spec => []MutualExclusion`. `MutualExclusion` is inductive relative to
  `TypeOK`: a request enters `holders` only where `CanGrant` holds (`GrantIsExclusive`), and every
  other step leaves `holders` alone or takes requests away (`FewerHolders`).
* `NobodyOvertakes`: `Spec => NoOvertaking`, action by action: while requests wait for a key, a lock on it
  goes only to the one at the head of the queue.
* `NeverACycle`: `Spec => []GraphAcyclic`. Paths of any length are reasoned about through `Reach` as a least
  closed set (`ReachIsClosed`, `ReachIsLeast`): edges from a waiter to holders that do not reach it make no new
  circle (`MoreEdges`), and what removes edges makes none (`FewerEdges`). So no victim is ever marked, and
  `DetectAndResolveDeadlocks` changes nothing (`DetectorDoesNothing`), which the next results use.
* `QueuesHaveNoGhosts`: `Spec => []NoGhostWaiters`. The queue of a key is exactly the threads that wait for it,
  each once (`QueuesOK`, kept by every action).
* `EdgesHaveReasons` (`NoStaleEdges`), if nobody calls `Release`, which no code of the repository outside
  the tests does: it releases a lock and leaves the edges of those who wait for it.
* `NoReleaseIsSleptThrough` (`NoLostWakeup`), if only exclusive locks are asked for, as `TransactionImpl`
  does; for shared ones it is false (section 3). Where a lock is free the head of its queue is
  in `woken` (`HeadIsWoken`): a lock becomes free by a release, which notifies all waiters, and the head of a
  free lock leaves the queue only with the lock, as a wait that times out looks at its predicate once
  more and no victim is ever marked. It needs that holders and waiters are all exclusive and that nobody waits
  for a lock it holds (`NotOnItself`), as the precheck refuses such a wait.

`WalProofs` proves, for any sets of transactions and keys, any file size and any number of crashes
and openings, from `TouchedAssumption`, `BoundsAssumption` and `SentinelAssumption`:

* `LogTypes`: `Spec => []TypeOK`, wherever crashes fall. `TypeOK` needs `WriterOK` beside it: what each
  phase makes of the writer, and that the names in `wal/` are below the next number, so that
  a new file never replaces one. `Inv1` is the two together.
* `CommitsSurvive`: `~CrashInSwitch => (Spec => []AckedSurvives)`. `AckedSurvives` is not inductive: that
  `Mark` may acknowledge relies on what the transaction logged before and on no switch
  having destroyed it. `Inv2` adds
  - `BusyWritten`, `SyncedDone`, `Fresh`: what a commit under way has logged is in the log, after its sync
    safe from a crash, and what it has not logged is not there;
  - `OwedSafe`, `OwedStored`: what is owed to returned commits is in a table or safe in the log, and
    in a table before any file is deleted;
  - `ArchiveOld`: archiving overwrites a file of the same name, which happens, as numbers start
    again after a restart; a file with a record that is still needed has a name that is not given
    again;
  - `DownFound`: if something is owed that is in no table, the next opening finds a file in `wal/`.

  One lemma for each way in which the files change (`CutFile`, `AppendToFile`, `CreateFile`, `ArchiveFile`,
  `DeleteFile`, `LogsStay`) says what becomes of their records, `LogsStep` sums them up for every
  action, and the lemmas named `...Kept` show each part of the invariant to be kept.
* `NumbersAreTakenUp`, `NumbersAreNotReused` and `LaterCommitsWin`: `~CrashInSwitch => (Spec => []P)`
  for `NumbersCover`, `OneCommitPerNumber` and `LaterCommitWins`. `NumbersInv` says for each phase where
  the highest number is: `due`, the number meant for `LAST_SEQUENCE`, or in a record of the log when the
  process is down, in what replay has read while files are swept, in `snapshot` when the database is
  open (`NumbersKnown`). An opening that finds less than what is `due` ends the premise `Remembered`,
  and with it the claim. A crash puts it back into the log, since what a session has brought into a
  table is in the log, safe, in files whose names are not given again (`SessionLogged`); this ends with
  the first crash, as a table made by recovery outlives its log. `CommitsInv` adds that a number is held
  by one transaction (`OneNumber`), that commits under way share no key (`Apart`) and are ahead of what
  has returned for their keys (`Ahead`).

`FamiliesProofs` proves, for any names, writes and bounds, from `NamesAssumption`, `NothingAssumption` and
`BoundsAssumption`:

* `TypeCorrect`: `Spec => []TypeOK`, which includes that records in the stream belong to a call under way.
* `OwedIsKept`: `Spec => []OwedSurvives`. Only `TruncateLogs` takes anything out of a directory that it does not
  put into a table. `IInv` therefore follows a Close: `PassedInTables` (families the loop of `SyncAllData`
  has passed have what is owed in tables), `TruncatesSynced` (logs are truncated only if every family was
  synced), `EnteredEmpty` and `WhenDown` (a family that is created or opened meanwhile was not open, and
  nothing of a session outlives it), `OwedAreCommitted` (a commit during Close is none of what is owed).
* `OwnDataIsKept`: `Spec => []OwnData`, from `OwnDirectories`, the same of every directory, open or not.
* `ManifestIsTold`: `Spec => []ManifestTells`, from `ToldInv`. While families are served the maps of the
  manager and the MANIFEST agree up to the call under way (`Serves`), whose record is not yet whole on
  disk or is the only one in the stream (`OpBegun`); an opening builds exactly what the MANIFEST tells
  (`Opening`). No name and no number is told twice (`NamedOnce`, and numbers below `nextId`), so a drop
  takes away one family. A torn record changes nothing of what is told, and the call it belonged to is
  in doubt (`Told`).
* `MarkerIsTrue`: `Spec => []CleanIsTrue`. The marker is there only between its writing and the next opening
  (`MarkedAtEnd`), and then nothing that is owed is only in a log, from `IInv` and `ToldInv`.

`BackgroundProofs` proves, for any tasks, kinds, names, priorities and workers, from `TasksAssumption`:

* `TypeCorrect`, `DownIsQuiet` and `CancelledTasksRest` from one invariant `IInv`. `QuietWhenDown` needs
  that a task is in the hands of at most one worker, and in one's when it is taken or running
  (`HeldIsThere`, `HeldOnce`, `TakenIsHeld`), that workers are gone from the join on and nobody sleeps
  after the second one (`WorkersGone`, `NobodySleeps`). `CancelledIsNotRun` needs that a task that was
  cancelled in time keeps its flag until it is over (`CancelledWaits`), which a copy for the next run
  would lose; and that a task nobody has scheduled is nowhere (`NowhereYet`).

`MvccProofs` proves, for any transactions, keys, kinds of transaction and
interleavings, from the assumptions `Mvcc` and `MvccProps` state about their constants:

* `WritesAreExclusive`, `CommitsInOrder` and `FlushesInOrder` (`SingleWriter`, `CommitOrder`,
  `FlushedInOrder`) from `OrderInv`. None of the three is inductive. Who has an uncommitted version has
  the lock and has not ended, and writes above all that is committed (`WritersLive`, `ActivesAbove`); a
  number is drawn while the lock is held and so is above every number committed to the key, though it is
  marked much later (`NumbersDrawn`, `CommitsDrawn`); what a flush has picked or written lies below the
  numbers of commits under way and, with what is flushed, is closed downwards (`PendingBelow`,
  `PendingClosed`), so that neither a commit nor GC between picking and marking puts an older version
  behind a flushed one.
* `DurableFirst` (`DurableBeforeVisible`) from `DurableInv`: a commit under way has logged its latest
  version of each key it passed, and once it is past its sync these are synced.
* `FlushesReadable` (`FlushedIsReadable`) from `StoreInv`: every commit is an unflushed version in the
  chain or an entry of the LSM tree (`Stored`), and what the chain has lost is older than all it still
  has (`DroppedAreOlder`). No entry lies above the mutable memtable (`LayersInv`), and in a tree that is
  straight for a key the layers agree with the numbers, so that `LsmGet` finds the newest entry shown.
* `SnapshotsReadThePast` (`SnapshotReadsItsPast`): what was committed up to a number already drawn and
  settled does not change (`HistoryAtKept`), and each half of a read, the chain or a straight tree,
  gives it. Whatever else a tree shows at a number is a commit up to that number
  (`SnapshotReadsSomePast`).
* `LockedReadsStayLatest` (`LockedReadsLatest`): between a locked read and the end of its transaction
  nobody else's commit to the key is marked, since that would take the lock.
* `QuietReadsAreRepeatable` (`QuietReadsRepeat`): what the view shows in the chain is what its number
  shows in the LSM tree (`QuietView`). Who begins alone finds nobody active, the id after its own and a
  number no commit under way has; who begins later has a greater id and draws a greater number. Other
  transactions may begin, commit, be flushed and collected at will after that.
* `StoreIsAtomic` (`ImplementsAtomicStore`): `Mark` is the commit of `AtomicStore`, `Put` and `Delete`
  its write, rollback its abort, and every other step a stutter, since what a plain read sees is what
  the last commit left (`ReadsLast`), wherever flush and GC stand. A plain read goes to the tree only
  for a key without committed version in the chain; as GC keeps the newest, nobody has committed to it
  in this session (`NewestStays`), and the tree has at most the recovered value.

The last six have the hypothesis `MaxWrites <= 1`: no transaction writes a key twice. If one does, all its
versions of the key are committed under one number while only the latest is logged, and
flushing them leaves the oldest in the memtable (section 3, above).

`LsmProofs` proves, for any keys, kinds of entries, writers, sizes and numbers of failures and crashes, from
`SizesAssumption` and `NoEntryAssumption`:

* `AcceptedIsKept` (`NothingLost`) and `NewestComeFirst` (`NewestFirst`) from `IInv` (`TreeKept`). What
  was accepted is in a memtable or a file, no more and no less (`Stored`), and the registered tables are
  the files that can be opened (`Registered`), because a compaction registers nothing. `BatchesOK` says
  that an open tree has all of the log or it is not marked, and that a writer has put what it counts as
  put, so that `MarkFlushed` marks nothing that is missing. Memtables and files are ordered by the
  versions of each key (`MemoryOrdered`, `FilesOrdered`): what one place has of a key and a newer one
  has not is not newer than what that has (`Covered`), which allows versions to be put twice. A version
  that comes to a memtable without a newer one that is elsewhere makes its key one of `split`. The hard
  case is recovery: the log is replayed into one memtable, whose table gets a number above all others,
  though the log still has entries that older tables have too. It is in order because the log is closed
  upwards (`LogClosed`): of a key it has everything that was accepted after an entry it has, so the new
  table lacks nothing newer. A commit keeps this, as it gets the highest number of its key.
* `ReadsAreNewest` (`ReadsNewest`): the search ends at the first memtable or table that has a version
  the snapshot sees, and looks into one block of a table only. From `NewestFirst`, that nothing newer
  lies behind that is not there too, and from lemmas about `FindIndexEntry` and the order of entries,
  that a table whose versions of the key lie in one block shows the newest of them. It needs that
  numbers of versions and of files occur once (`SeqOnce`, `NumbersOnce`) and that there are finitely
  many (`Bounded`).

`SkipListProofs` proves, for any keys, entries, heights and readers, from `ListAssumption`:

* `LevelsAreNested` (`ChainsNested`) from `ListInv`: pointers lead upwards, to nodes of the chain of
  their level (`PointsIn`), and skip none (`SkipsNothing`); higher levels are part of lower ones
  (`Nested`). Of the insertion: its node is linked exactly on the levels below the current one, and the
  pointer it copied is still that of its predecessor when that one is set (`InsertionAt`). `ChainStays`,
  `CopyFacts` and `LinkFacts` say what a step does to the chains.
* `ListIsAMap` (`Implements`): every step of the list is one of `OrderedMap` or nothing to it. A put
  takes effect when the lowest level is linked, or when the entry of a key that is there is replaced. A
  search stands at a node of its level before its key (`SearchesInv`), and this stays so while nodes
  enter (`ReadersStay`); where it ends, on the lowest level, it has the neighbours of its key at that
  moment (`SearchEnds`, `LastIsGreatest`, `NextIsLeast`). The search of `UpdateCurrentEntry` finds its
  key because nothing leaves the list.

`IteratorProofs` proves, for any versions in any memtables and tables, any block size, snapshots and chains,
from `ChildrenAssumption` (finitely many versions, keys and numbers are naturals, a child is a memtable or a
table) and `ChainsAssumption` (the chain shows one version of a key, as `CollectVisible` makes a map):

* `ScansAreComplete` (`ScanIsComplete`) and `SeeksAreExact` (`ForwardInMemory`) from `InvariantHolds`.
  The two speak of moments between calls, so the invariant `IInv` follows the loops. `Searching`: at
  each turn of `FindSmallest` every child stands behind all its entries up to one key and before all
  others (`PassedTo`), and nothing up to that key and above the bound of the call is to be shown. It
  needs that keys ascend in every child, in the order of memtables and of tables alike, and not how the
  versions of one key lie, as a turn consumes them all (`ConsumedIs`). `Advancing`: at each turn of
  `Advance` the merge and the chain stand at their first keys above one key (`CurIs`, `MvIs`), and
  nothing from `floor` up to it is to be shown. `Returning` and `Delivering` say the same while the
  merge runs below `Advance`, `TxnIdle` and `LsmIdle` between calls.
* After `Seek` or a change of direction over tables nothing of this holds, since a table may miss the
  key: the parts of `IInv` have the premise `Exact` (a scan from the first key, or no tables), and a
  change of direction without tables establishes `PassedTo` anew.

That a step takes the least of some keys needs that a set of numbers has a least one and a bounded one a
greatest (`LeastExists`, `GreatestExists`). A loop's result is not computed: what it leaves is an
invariant of its turns.

The invariants were checked with TLC on the instances above before they were proved. Every safety and
action property of the passing runs, and every refinement, is stated by a theorem.

Only model-checked:

* `EveryWaitEnds`, `SwitchedIsFlushed`, `TopTasksGoOn` and `ShutdownEnds`: liveness under fairness is out of
  the prover's reach.
* `GetIsNewest`, which `lsm_stale` refutes.

## 5. Not modelled

* Range locks: `AcquireRange` never returns. Read-set validation and calls on finished transactions.
* Lock timeouts as times, adaptive delays, batches, statistics, settings.
* Changes of data under an iterator beyond the skip list: `LSMTreeMergeIterator` and `TxnIterator` hold raw
  pointers to memtables that a flush may free.
* The error handler: components enter callbacks (wal.cc:513, memtable.cc:214, sstable.cc:545), and what
  would call them (`TryRecover`, `CleanupComponent`, `RetryHelper`) has no caller outside the tests.
  `RecoveryManager` of the log and `db_iterator.cc` have none either.
* That the loops of the iterators end is stated nowhere: the properties say where they stand when they have.
* Merge, `MultiGet`, properties, approximate sizes, read-only openings.
* For good: encodings, bloom filters, hashing, comparators, block formats, the cache of readers, logging
  and file wrappers (sequential code over data, within reach of unit tests).

What would come next: a model of the internal mutexes of the lock manager (`AcquireRange`), the
composition of `Mvcc` with `LsmTree` and with `LockManager` instead of the interfaces between them (the
layers and `unflushed`, `owner`), and an abstract store that `LsmTree` implements as a whole, crashes
included.
