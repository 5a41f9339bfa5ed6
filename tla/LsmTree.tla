------------------------------ MODULE LsmTree ------------------------------
(***************************************************************************)
(* The LSM tree of one column family: memtables, their flush to tables of  *)
(* level 0, compaction, the read path over all of them, recovery, close    *)
(* and open (src/src/storage: LSMTree, MemTableManager, SSTableManager,    *)
(* SSTableReader, SSTableCompactor).                                       *)
(*                                                                         *)
(* Those who write here bring committed versions from the version chains   *)
(* (TxManager::FlushCommittedToLSM: a background task, and Flush and Close *)
(* of the database): the versions of a key newest first, and all of a      *)
(* batch again if one of it was refused.  A version is in the log before   *)
(* it is committed (module Wal); `log' is what a crash would replay.  What *)
(* readers see in the chains is in module Mvcc.                            *)
(*                                                                         *)
(* A memtable is full with MemtableCap entries, a data block with BlockCap;*)
(* the bytes are left out.  A put or a deletion is one entry.              *)
(***************************************************************************)
EXTENDS Integers, Sequences, FiniteSets

CONSTANTS Keys,         \* numbers, in the order of the comparator
          MaxSeq,       \* bound: sequence numbers are 1 .. MaxSeq
          Kinds,        \* bound: what may be written, of each key at each number
          Writers, NoEntry,
          MaxLevel,     \* SSTableLevel::kMaxLevel
          MemtableCap, MaxMemtables, BlockCap,
          L0Trigger, L0Stop,
          MaxMishaps    \* bound: crashes and failing flushes

Entries == {e \in [key : Keys, seq : 1 .. MaxSeq, kind : {"Value", "Deletion"}] :
               e.kind \in Kinds[e.key][e.seq]}

ASSUME SizesAssumption ==
    /\ Keys \subseteq Nat /\ MaxSeq \in Nat /\ MaxLevel \in Nat \ {0}
    /\ MemtableCap \in Nat \ {0} /\ BlockCap \in Nat \ {0}
    /\ MaxMemtables \in Nat /\ MaxMemtables >= 2
    /\ L0Trigger \in Nat \ {0} /\ L0Stop \in Nat /\ L0Stop > L0Trigger
    /\ MaxMishaps \in Nat
ASSUME NoEntryAssumption == NoEntry \notin Entries

VARIABLES
    phase,      \* "closed", "recovering", "replayed", "open", "closing"
    mutable,    \* entries of mutable_memtable_
    immutables, \* immutable_memtables_, oldest first
    files,      \* the files sst_<number>_L<level>.sst
    tables,     \* those of them that are registered
    nextFile,   \* next_file_number_
    strays,     \* output files of compactions, under a name nobody looks for
    recovered,  \* current_memtable_, what was replayed
    unflushed,  \* committed versions that are not marked flushed
    batch,      \* writer -> those it has picked
    put,        \* writer -> those of its batch that are in the tree
    pending,    \* writer -> the entry between the check and the mutex
    flushAll,   \* FlushAll holds write_mutex_
    broken,     \* a flush of this Close has failed
    tasks,      \* background tasks that will run again: "flush", "compact"
    log,        \* what the write-ahead log would replay
    accepted,   \* history: entries a writer was told are in the tree
    split,      \* history: keys of which an older version has come to a newer
                \* memtable than a newer version
    mishaps     \* crashes and failing flushes

writers == <<unflushed, batch, put, pending>>
memory == <<mutable, immutables, recovered, writers, flushAll, broken>>
disk == <<files, strays>>
history == <<accepted, split, mishaps>>
vars == <<phase, memory, tasks, tables, nextFile, disk, log, history>>

-----------------------------------------------------------------------------
(* Reading.  A snapshot of 0 sees everything. *)

Visible(es, k, s) == {e \in es : e.key = k /\ (s = 0 \/ e.seq <= s)}
Newest(es) ==
    IF es = {} THEN NoEntry ELSE CHOOSE e \in es : \A o \in es : o.seq <= e.seq

(* Where the first of some memtables that shows the key is asked: the      *)
(* mutable one, then the immutable ones from the newest to the oldest.     *)
MemGet(k, s) ==
    LET shows == {i \in DOMAIN immutables : Visible(immutables[i], k, s) # {}}
    IN  IF Visible(mutable, k, s) # {} THEN Newest(Visible(mutable, k, s))
        ELSE IF shows = {} THEN NoEntry
        ELSE LET i == CHOOSE i \in shows : \A j \in shows : j <= i
             IN  Newest(Visible(immutables[i], k, s))

(* The order of entries in a table is the order of their bytes: the kind   *)
(* (a value is 1, a deletion 2) comes before the number, and the number    *)
(* has its low byte first, which for numbers below 256 is ascending order. *)
Before(a, b) ==
    \/ a.key < b.key
    \/ a.key = b.key /\ a.kind = "Value" /\ b.kind = "Deletion"
    \/ a.key = b.key /\ a.kind = b.kind /\ a.seq < b.seq

Rank(t, e) == Cardinality({o \in t.entries : Before(o, e)})
BlockOf(t, e) == Rank(t, e) \div BlockCap

Block(t, b) == {e \in t.entries : BlockOf(t, e) = b}

(* The first entry of each block.                                          *)
Index(t) == {e \in t.entries : Rank(t, e) % BlockCap = 0}

(* The block that is searched for a key: the last one whose first entry    *)
(* has a user key not above it, -1 if there is none.                       *)
FindIndexEntry(t, k) ==
    LET blocks == {BlockOf(t, e) : e \in {i \in Index(t) : i.key <= k}}
    IN  IF blocks = {} THEN -1 ELSE CHOOSE b \in blocks : \A c \in blocks : c <= b

ReaderGet(t, k, s) == Newest(Visible(Block(t, FindIndexEntry(t, k)), k, s))

Smallest(t) == CHOOSE k \in {e.key : e \in t.entries} : \A e \in t.entries : k <= e.key
Largest(t) == CHOOSE k \in {e.key : e \in t.entries} : \A e \in t.entries : e.key <= k
KeyInRange(t, k) == Smallest(t) <= k /\ k <= Largest(t)

(* What the filter says of a key that is not there makes no difference.    *)
FilterKeys(t) == {e.key : e \in t.entries}
MayContainKey(t, k) == KeyInRange(t, k) /\ k \in FilterKeys(t)

LevelFiles(l) == {t \in tables : t.level = l}

(* Level 0: every table whose range has the key.  Below: the first table   *)
(* that ends at the key or above.                                          *)
Candidates(k) ==
    {t \in tables :
        /\ KeyInRange(t, k)
        /\ t.level > 0 =>
              \A u \in LevelFiles(t.level) : Largest(u) >= k => Smallest(t) <= Smallest(u)}

(* A file that was cut short has no footer and is not opened.             *)
Opens(f) == f.whole

(* A cached reader, or one opened now; without one the table is passed over*)
HasReader(t) == t \in files /\ Opens(t)

Hits(k, s) ==
    {t \in Candidates(k) : MayContainKey(t, k) /\ HasReader(t) /\ ReaderGet(t, k, s) # NoEntry}

(* Mutant: the tables of level 0 are asked in the order they were written. *)
TableGetOldestFirst(k, s) ==
    LET hits == Hits(k, s)
        first == CHOOSE t \in hits : \A u \in hits :
                    t.level < u.level \/ (t.level = u.level /\ t.number <= u.number)
    IN  IF hits = {} THEN NoEntry ELSE ReaderGet(first, k, s)

(* Levels are asked from the top, the tables of level 0 from the newest;   *)
(* the first one that has a version ends the search.                       *)
TableGet(k, s) ==
    LET hits == Hits(k, s)
        first == CHOOSE t \in hits : \A u \in hits :
                    t.level < u.level \/ (t.level = u.level /\ t.number >= u.number)
    IN  IF hits = {} THEN NoEntry ELSE ReaderGet(first, k, s)

(* LSMTree::Get: a tombstone in a memtable ends the search; a value there  *)
(* does not, and what a table has then takes its place.                    *)
Get(k, s) ==
    LET m == MemGet(k, s)
        t == TableGet(k, s)
    IN  IF m # NoEntry /\ m.kind = "Deletion" THEN NoEntry
        ELSE IF t = NoEntry THEN m
        ELSE IF t.kind = "Deletion" THEN NoEntry ELSE t

-----------------------------------------------------------------------------
(* The set of tables. *)

TableEntries == UNION {t.entries : t \in tables}
FileEntries == UNION {f.entries : f \in {g \in files : Opens(g)}}
MemEntries == mutable \cup UNION {immutables[i] : i \in DOMAIN immutables}

ValidFileMeta(t) == t.number # 0
CanRegister(t) == ValidFileMeta(t) /\ \A u \in tables : u.number # t.number
NextAfter(n, t) == IF t.number >= n THEN t.number + 1 ELSE n

(* What the writer leaves, if it is not cut short.                         *)
NewTable(es) == [number |-> nextFile, level |-> 0, entries |-> es, whole |-> TRUE]
HalfTable == [number |-> nextFile, level |-> 0, entries |-> {}, whole |-> FALSE]

(* A file of the same name is truncated.                                   *)
Written(t) == {f \in files : f.number # t.number} \cup {t}

(* When the file can be written.                                           *)
FlushMemTableToSSTable(es) ==
    /\ CanRegister(NewTable(es))
    /\ files' = Written(NewTable(es))
    /\ tables' = tables \cup {NewTable(es)}
    /\ nextFile' = NextAfter(nextFile, NewTable(es))

DoFlushMemTable(es) ==
    IF es = {} THEN UNCHANGED <<files, tables, nextFile>> ELSE FlushMemTableToSSTable(es)

-----------------------------------------------------------------------------
(* Writing. *)

Stopped == Cardinality(LevelFiles(0)) >= L0Stop
CanSwitch == Len(immutables) < MaxMemtables - 1
ShouldFlush == Cardinality(mutable) >= MemtableCap

(* The memtable is made immutable, and one with the given entries begins.  *)
SwitchMemTable(es) ==
    CanSwitch /\ immutables' = Append(immutables, mutable) /\ mutable' = es

tree == <<mutable, immutables, recovered, flushAll, broken, tables, nextFile, disk>>

(* A commit: the version is in the log, and gets the highest number.       *)
Commit(e) ==
    /\ phase = "open" /\ e \notin log \cup accepted
    /\ \A o \in log \cup accepted : o.key = e.key => o.seq < e.seq
    /\ log' = log \cup {e} /\ unflushed' = unflushed \cup {e}
    /\ UNCHANGED <<phase, tree, batch, put, pending, tasks, history>>

(* PickCommittedNotFlushed: some keys, of each all versions not yet marked.*)
Pick(w) ==
    /\ phase = "open" /\ batch[w] = {}
    /\ \E ks \in SUBSET {e.key : e \in unflushed} \ {{}} :
          batch' = [batch EXCEPT ![w] = {e \in unflushed : e.key \in ks}]
    /\ UNCHANGED <<phase, tree, unflushed, put, pending, tasks, log, history>>

Rest(w) == batch[w] \ put[w]

(* Key by key, the newest version first.                                   *)
IsNext(w, e) ==
    /\ e \in Rest(w)
    /\ \A o \in Rest(w) : o.key = e.key => o.seq <= e.seq
    /\ \A o \in Rest(w), p \in put[w] : o.key = p.key => e.key = p.key

(* Put and Delete up to the mutex.  A tree that is only slowed down lets   *)
(* the write go on after 100 ms whatever has become of it.                 *)
CheckWrite(w, e) ==
    /\ phase = "open" /\ pending[w] = NoEntry /\ IsNext(w, e)
    /\ ~Stopped
    /\ pending' = [pending EXCEPT ![w] = e]
    /\ UNCHANGED <<phase, tree, unflushed, batch, put, tasks, log, history>>

(* The batch ends, and nothing of it is marked.                            *)
Drop(w) == /\ batch' = [batch EXCEPT ![w] = {}] /\ put' = [put EXCEPT ![w] = {}]
           /\ pending' = [pending EXCEPT ![w] = NoEntry]
           /\ UNCHANGED unflushed

WriteStopped(w) ==
    /\ phase = "open" /\ pending[w] = NoEntry /\ Rest(w) # {}
    /\ Stopped
    /\ Drop(w)
    /\ UNCHANGED <<phase, tree, tasks, log, history>>

MemPut(e) == mutable' = mutable \cup {e} /\ UNCHANGED immutables

(* Newer versions that the memtable an entry has come to does not have.    *)
NewerElsewhere(e) == {o \in accepted \ mutable' : o.key = e.key /\ e.seq < o.seq}

(* PutLocked and DeleteLocked. *)
WriteLocked(w) ==
    /\ phase = "open" /\ pending[w] # NoEntry /\ ~flushAll
    /\ IF ShouldFlush THEN SwitchMemTable({pending[w]}) ELSE MemPut(pending[w])
    /\ accepted' = accepted \cup {pending[w]}
    /\ split' = split \cup {o.key : o \in NewerElsewhere(pending[w])}
    /\ put' = [put EXCEPT ![w] = @ \cup {pending[w]}]
    /\ pending' = [pending EXCEPT ![w] = NoEntry]
    /\ UNCHANGED <<phase, recovered, unflushed, batch, flushAll, broken, tasks, tables,
                   nextFile, disk, log, mishaps>>

(* The memtable is full and no further one may wait: TryAgain. *)
WriteRefused(w) ==
    /\ phase = "open" /\ pending[w] # NoEntry /\ ~flushAll
    /\ ShouldFlush /\ ~CanSwitch
    /\ Drop(w)
    /\ UNCHANGED <<phase, tree, tasks, log, history>>

(* MarkFlushed, when all of the batch are in the tree.                     *)
MarkFlushed(w) ==
    /\ phase = "open" /\ batch[w] # {} /\ put[w] = batch[w]
    /\ unflushed' = unflushed \ batch[w]
    /\ batch' = [batch EXCEPT ![w] = {}] /\ put' = [put EXCEPT ![w] = {}]
    /\ UNCHANGED <<phase, tree, pending, tasks, log, history>>

-----------------------------------------------------------------------------
(* Flush. *)

FlushTaskRuns == phase = "open" /\ "flush" \in tasks

(* Who flushes: the background task, FlushAll or Close. *)
MayFlush == /\ immutables # <<>>
            /\ \/ FlushTaskRuns
               \/ phase = "open" /\ flushAll
               \/ phase = "closing" /\ ~broken

GetMemTableForFlush == Head(immutables)
CompleteFlushedMemTable == immutables' = Tail(immutables)

(* Mutant: the memtable flushed is the one switched last. *)
FlushOldestTakesNewest ==
    /\ MayFlush
    /\ DoFlushMemTable(immutables[Len(immutables)])
    /\ immutables' = SubSeq(immutables, 1, Len(immutables) - 1)
    /\ UNCHANGED <<phase, mutable, recovered, writers, flushAll, broken, tasks, strays,
                   log, history>>

(* Mutant: a flush waits for room in level 0, as writers do. *)
FlushOldestStops ==
    /\ MayFlush /\ ~Stopped
    /\ DoFlushMemTable(GetMemTableForFlush)
    /\ CompleteFlushedMemTable
    /\ UNCHANGED <<phase, mutable, recovered, writers, flushAll, broken, tasks, strays,
                   log, history>>

(* FlushOldestMemTable. *)
FlushOldest ==
    /\ MayFlush
    /\ DoFlushMemTable(GetMemTableForFlush)
    /\ CompleteFlushedMemTable
    /\ UNCHANGED <<phase, mutable, recovered, writers, flushAll, broken, tasks, strays,
                   log, history>>

(* The file cannot be written: it is deleted and its number is gone.  A    *)
(* background task that fails is not scheduled again (module Background);  *)
(* FlushAll returns; Close goes on to the mutable memtable.                *)
FlushFails ==
    /\ MayFlush
    /\ mishaps < MaxMishaps
    /\ mishaps' = mishaps + 1
    /\ nextFile' = nextFile + 1
    /\ files' = {f \in files : f.number # nextFile}
    /\ \/ phase = "open" /\ "flush" \in tasks
          /\ tasks' = tasks \ {"flush"} /\ UNCHANGED <<flushAll, broken>>
       \/ flushAll /\ flushAll' = FALSE /\ UNCHANGED <<tasks, broken>>
       \/ phase = "closing" /\ broken' = TRUE /\ UNCHANGED <<tasks, flushAll>>
    /\ UNCHANGED <<phase, mutable, immutables, recovered, writers, tables, strays,
                   log, accepted, split>>

(* FlushAll takes write_mutex_, makes the mutable memtable immutable and   *)
(* flushes until none is left; it gives up when it cannot switch.          *)
FlushAllBegins ==
    /\ phase = "open" /\ ~flushAll /\ MemEntries # {}
    /\ IF mutable = {} THEN UNCHANGED <<mutable, immutables>> ELSE SwitchMemTable({})
    /\ flushAll' = TRUE
    /\ UNCHANGED <<phase, recovered, writers, broken, tasks, tables, nextFile, disk, log,
                   history>>

FlushAllEnds ==
    /\ flushAll /\ immutables = <<>>
    /\ flushAll' = FALSE
    /\ UNCHANGED <<phase, mutable, immutables, recovered, writers, broken, tasks, tables,
                   nextFile, disk, log, history>>

-----------------------------------------------------------------------------
(* Compaction. *)

(* PickCompactionFiles: all of level 0 with what lies in its whole range   *)
(* on level 1; of a lower level only tables of that level, ten at most.    *)
Inputs(l) ==
    IF l = 0
    THEN LevelFiles(0) \cup
         {u \in LevelFiles(1) :
             \E t, v \in LevelFiles(0) : Smallest(u) <= Largest(t) /\ Smallest(v) <= Largest(u)}
    ELSE {t \in LevelFiles(l) :
             Cardinality({u \in LevelFiles(l) : Smallest(u) < Smallest(t)}) < 10}
OutputLevel(l) == IF l < MaxLevel THEN l + 1 ELSE l

(* MergeInputFiles keeps every version (no snapshot is below number 0); the*)
(* writer refuses the same internal key twice.                             *)
Mergeable(ts) == \A t, u \in ts : t # u => t.entries \cap u.entries = {}
OldestSnapshot == 0
ShouldKeepKey(e) == e.seq >= OldestSnapshot
Merged(ts) == {e \in UNION {t.entries : t \in ts} : ShouldKeepKey(e)}

(* The number of the output: nobody gives it one.                          *)
OutputNumber == 0
Output(l) ==
    [number |-> OutputNumber, level |-> OutputLevel(l), entries |-> Merged(Inputs(l)),
     whole |-> TRUE]

(* CompactFiles: an output file, or none when two inputs share an entry.   *)
StraysAfter(l, ts) ==
    LET name == <<"level", l>>
    IN  IF Mergeable(ts) THEN strays \cup {name} ELSE strays \ {name}

Unregistered(ts) == tables \ ts
DeleteObsoleteFiles(ts) == files \ ts

(* Mutant: the inputs are deleted whether the output was taken or not. *)
DoLevelCompactionDeletes(l) ==
    LET ins == Inputs(l)
        out == Output(l)
    IN  /\ ins # {}
        /\ strays' = StraysAfter(l, ins)
        /\ IF Mergeable(ins) /\ CanRegister(out)
           THEN /\ tables' = Unregistered(ins) \cup {out}
                /\ files' = DeleteObsoleteFiles(ins) \cup {out}
                /\ nextFile' = NextAfter(nextFile, out)
                /\ UNCHANGED tasks
           ELSE /\ tables' = Unregistered(ins) /\ files' = DeleteObsoleteFiles(ins)
                /\ tasks' = tasks \ {"compact"} /\ UNCHANGED nextFile

(* DoLevelCompaction: merge, register the output, then delete the inputs;  *)
(* a refused output ends it, and the task that called it.                  *)
DoLevelCompaction(l) ==
    LET ins == Inputs(l)
        out == Output(l)
    IN  /\ ins # {}
        /\ strays' = StraysAfter(l, ins)
        /\ IF Mergeable(ins) /\ CanRegister(out)
           THEN /\ tables' = Unregistered(ins) \cup {out}
                /\ files' = DeleteObsoleteFiles(ins) \cup {out}
                /\ nextFile' = NextAfter(nextFile, out)
                /\ UNCHANGED tasks
           ELSE tasks' = tasks \ {"compact"} /\ UNCHANGED <<files, tables, nextFile>>

NeedsCompaction(l) == l = 0 /\ Cardinality(LevelFiles(0)) >= L0Trigger

CompactionTaskRuns ==
    phase \in {"recovering", "replayed", "open"} /\ "compact" \in tasks

(* TriggerCompaction of the background task. *)
BackgroundCompaction ==
    /\ CompactionTaskRuns
    /\ \E l \in 0 .. MaxLevel : NeedsCompaction(l) /\ DoLevelCompaction(l)
    /\ UNCHANGED <<phase, memory, log, history>>

(* CompactRange merges each level that has two tables and registers        *)
(* nothing.                                                                *)
CompactRange ==
    /\ phase = "open"
    /\ \E l \in 0 .. MaxLevel :
          /\ Cardinality(LevelFiles(l)) > 1
          /\ strays' = IF Mergeable(LevelFiles(l)) THEN strays \cup {<<"range", l>>}
                       ELSE strays \ {<<"range", l>>}
    /\ UNCHANGED <<phase, memory, tasks, files, tables, nextFile, log, history>>

-----------------------------------------------------------------------------
(* Open, recovery, close, crash. *)

Fresh == /\ mutable' = {} /\ immutables' = <<>> /\ recovered' = {}
         /\ unflushed' = {} /\ batch' = [w \in Writers |-> {}]
         /\ put' = [w \in Writers |-> {}] /\ pending' = [w \in Writers |-> NoEntry]
         /\ flushAll' = FALSE /\ broken' = FALSE

RegisterBackgroundTasks == tasks' = {"flush", "compact"}
UnregisterBackgroundTasks == tasks' = {}

(* Every sst_ file that can be opened is registered; the next number is    *)
(* above them.                                                             *)
LoadExistingSSTables ==
    LET found == {f \in files : Opens(f)}
    IN  /\ tables' = found
        /\ nextFile' = IF found = {} THEN 1
                       ELSE 1 + (CHOOSE n \in {f.number : f \in found} :
                                    \A f \in found : f.number <= n)

Open ==
    /\ phase = "closed"
    /\ phase' = "recovering"
    /\ Fresh
    /\ LoadExistingSSTables
    /\ RegisterBackgroundTasks
    /\ UNCHANGED <<disk, log, history>>

(* RecoverFromWALRecord, once for each record of the log. *)
RecoverRecords ==
    /\ phase = "recovering" /\ recovered # log
    /\ recovered' = log
    /\ UNCHANGED <<phase, mutable, immutables, writers, flushAll, broken, tasks, tables,
                   nextFile, disk, log, history>>

(* FinishRecovery: what was replayed becomes a table of level 0; the tasks *)
(* are registered anew.                                                    *)
FinishRecovery ==
    /\ phase = "recovering" /\ recovered = log
    /\ DoFlushMemTable(recovered)
    /\ recovered' = {}
    /\ phase' = "replayed"
    /\ RegisterBackgroundTasks
    /\ accepted' = accepted \cup log
    /\ UNCHANGED <<mutable, immutables, writers, flushAll, broken, strays, log,
                   split, mishaps>>

(* RecoverFromWAL deletes the replayed files, and the family opens. *)
LogSwept ==
    /\ phase = "replayed"
    /\ log' = {}
    /\ phase' = "open"
    /\ UNCHANGED <<memory, tasks, tables, nextFile, disk, history>>

(* Close of the database has stopped the background tasks before, and its  *)
(* own batches have ended, well or not.                                    *)
CloseBegins ==
    /\ phase = "open" /\ ~flushAll /\ \A w \in Writers : batch[w] = {}
    /\ phase' = "closing"
    /\ UNCHANGED <<tree, writers, tasks, log, history>>

(* The mutable memtable is flushed last, also after a failure; memtables   *)
(* and registered tables are gone.                                         *)
CloseEnds ==
    /\ phase = "closing" /\ (immutables = <<>> \/ broken)
    /\ files' = IF mutable = {} THEN files ELSE Written(NewTable(mutable))
    /\ phase' = "closed"
    /\ Fresh /\ UnregisterBackgroundTasks /\ tables' = {}
    /\ accepted' = IF broken THEN accepted \cap FileEntries' ELSE accepted
    /\ UNCHANGED <<nextFile, strays, log, split, mishaps>>

CloseFails ==
    /\ phase = "closing" /\ (immutables = <<>> \/ broken) /\ mutable # {}
    /\ mishaps < MaxMishaps
    /\ mishaps' = mishaps + 1
    /\ phase' = "closed"
    /\ Fresh /\ UnregisterBackgroundTasks /\ tables' = {}
    /\ accepted' = accepted \cap FileEntries
    /\ UNCHANGED <<nextFile, disk, log, split>>

(* TruncateLogs of a database that closed with everything in files.        *)
LogTruncated ==
    /\ phase = "closed" /\ log # {} /\ log \subseteq FileEntries
    /\ log' = {}
    /\ UNCHANGED <<phase, memory, tasks, tables, nextFile, disk, history>>

(* A file may be under way: of a flush, of Close or of the end of recovery.*)
WritesFile == \/ MayFlush
              \/ phase = "closing" /\ mutable # {}
              \/ phase = "recovering" /\ recovered = log /\ log # {}

Crash ==
    /\ phase # "closed" /\ mishaps < MaxMishaps
    /\ mishaps' = mishaps + 1
    /\ phase' = "closed"
    /\ Fresh /\ tasks' = {} /\ tables' = {}
    /\ files' \in {files} \cup IF WritesFile THEN {Written(HalfTable)} ELSE {}
    /\ accepted' = accepted \cap FileEntries'
    /\ UNCHANGED <<nextFile, strays, log, split>>

-----------------------------------------------------------------------------

Init ==
    /\ phase = "closed"
    /\ mutable = {} /\ immutables = <<>> /\ recovered = {}
    /\ unflushed = {} /\ batch = [w \in Writers |-> {}]
    /\ put = [w \in Writers |-> {}] /\ pending = [w \in Writers |-> NoEntry]
    /\ flushAll = FALSE /\ broken = FALSE
    /\ tasks = {}
    /\ files = {} /\ tables = {} /\ nextFile = 1 /\ strays = {}
    /\ log = {} /\ accepted = {} /\ split = {} /\ mishaps = 0

Next ==
    \/ \E e \in Entries : Commit(e)
    \/ \E w \in Writers : \/ Pick(w) \/ WriteStopped(w) \/ WriteLocked(w)
                          \/ WriteRefused(w) \/ MarkFlushed(w)
                          \/ \E e \in Entries : CheckWrite(w, e)
    \/ FlushOldest \/ FlushFails \/ FlushAllBegins \/ FlushAllEnds
    \/ BackgroundCompaction \/ CompactRange
    \/ Open \/ RecoverRecords \/ FinishRecovery \/ LogSwept
    \/ CloseBegins \/ CloseEnds \/ CloseFails \/ LogTruncated \/ Crash

Spec == Init /\ [][Next]_vars
=============================================================================
