-------------------------------- MODULE Wal --------------------------------
(***************************************************************************)
(* The write-ahead log of one column family through commits, rotation,     *)
(* crashes, restarts and clean shutdowns: WALWriter, WALReader and         *)
(* WALManager (src/src/wal), the part of a commit that logs (concurrency), *)
(* and what opening and closing do to the log and to the LSM tree          *)
(* (db/column_family, db/db_impl, storage/lsm_tree).                       *)
(*                                                                         *)
(* A record stands for the value it carries: it names the transaction that *)
(* wrote it, its key and its sequence number.  Of the LSM tree only what   *)
(* is in its tables outlives the process; the versions that are committed  *)
(* and not yet in a table are one set, whether in a version chain (module  *)
(* Mvcc) or in a memtable.  Keys are locked as in Mvcc: two commits under  *)
(* way never touch the same key.                                           *)
(***************************************************************************)
EXTENDS Integers, Sequences, Functions

CONSTANTS Txns,           \* transactions, each commits at most once
          Keys,
          TouchedKeys,    \* transaction -> the keys it writes
          FileCap,        \* max_wal_size_, in records
          Torn,           \* an incomplete record at the end of a file
          Nobody,
          CrashInSwitch,  \* may the process die between archiving a file
                          \* and creating the next one
          MaxCrashes,     \* bound: crashes
          MaxOpens        \* bound: times the database is opened

ASSUME TouchedAssumption == TouchedKeys \in [Txns -> SUBSET Keys]
ASSUME BoundsAssumption ==
    /\ FileCap \in Nat \ {0} /\ MaxCrashes \in Nat /\ MaxOpens \in Nat
    /\ CrashInSwitch \in BOOLEAN
ASSUME SentinelAssumption ==
    Nobody \notin Txns /\ Torn \notin [txn : Txns, key : Keys, seq : Nat]

VARIABLES
    \* On disk.
    logs,         \* <<directory, number>> -> the records of a file
    tables,       \* the records in SSTables
    lastSequence, \* what the file LAST_SEQUENCE reads as, 0 if it has no number
    onDisk,       \* what a loss of power may leave of it: nothing syncs it
    \* In the process.
    phase,        \* "down", "refused", "replay", "sweep", "number", "open",
                  \* "shutdown", "sequence", "truncate"
    current,      \* number of current_wal_filename_, 0 without a writer
    nextFile,     \* next_file_number_
    synced,       \* records of the current file that are on disk for sure
    broken,       \* the stream of the writer has failed
    switching,    \* who is between the two steps of a switch
    doomed,       \* files still to be deleted
    walSequence,  \* WALManager::last_sequence_
    snapshot,     \* snap_gen_.Current()
    volatile,     \* committed and in no table yet
    \* Transactions.
    pc, seq, todo,
    \* History.
    acked,        \* records of the commits that returned OK, in order
    doubted,      \* transactions whose file was given up unsynced
    due,          \* the number that LAST_SEQUENCE was last meant to have
    forgotten,    \* an opening has found neither it nor a log as high
    crashes, opens

disk == <<logs, tables, lastSequence, onDisk>>
writer == <<current, nextFile, synced, broken, switching>>
process == <<phase, doomed, walSequence, snapshot, volatile>>
txns == <<pc, seq, todo>>
history == <<acked, doubted, due, forgotten, crashes, opens>>
vars == <<disk, writer, process, txns, history>>

Record == [txn : Txns, key : Keys, seq : Nat]
Files == {"wal", "archive"} \X (Nat \ {0})
Busy == {"logging", "synced"}
CurrentFile == <<"wal", current>>
RecordOf(t, k) == [txn |-> t, key |-> k, seq |-> seq[t]]
RecordsOf(t) == {RecordOf(t, k) : k \in TouchedKeys[t]}
IsTorn(f) == Torn \in Range(logs[f])
Logged == (UNION {Range(logs[f]) : f \in DOMAIN logs}) \ {Torn}
Numbers(records) == {r.seq : r \in records}
WalFiles == {f \in DOMAIN logs : f[1] = "wal"}

(***************************************************************************)
(* What an unsynced stream leaves behind: the synced records, some of the  *)
(* following ones, and perhaps a piece of the next.                        *)
(***************************************************************************)
Remains(file, n) ==
    LET kept == {SubSeq(file, 1, i) : i \in n .. Len(file)}
    IN  kept \cup {Append(s, Torn) : s \in kept \ {file}}

Without(f) == Restrict(logs, DOMAIN logs \ {f})
With(f, records) == [g \in DOMAIN logs \cup {f} |->
                        IF g = f THEN records ELSE logs[g]]

(* GetWALFiles sorts by path: the archive comes last. *)
Precedes(f, g) == \/ f[1] = "wal" /\ g[1] = "archive"
                  \/ f[1] = g[1] /\ f[2] < g[2]

LogsTyped ==
    /\ DOMAIN logs \subseteq Files
    /\ \A f \in DOMAIN logs : logs[f] \in Seq(Record \cup {Torn})
ProcessTyped ==
    /\ tables \subseteq Record /\ lastSequence \in Nat /\ onDisk \subseteq Nat
    /\ phase \in {"down", "refused", "replay", "sweep", "number", "open",
                  "shutdown", "sequence", "truncate"}
    /\ current \in Nat /\ nextFile \in Nat /\ synced \in Nat
    /\ broken \in BOOLEAN /\ switching \in Txns \cup {Nobody}
    /\ doomed \subseteq Files
    /\ walSequence \in Nat /\ snapshot \in Nat /\ volatile \subseteq Record
TxnsTyped ==
    /\ pc \in [Txns -> Busy \cup {"idle", "committed", "aborted", "lost"}]
    /\ seq \in [Txns -> Nat] /\ todo \in [Txns -> SUBSET Keys]
HistoryTyped ==
    /\ acked \in Seq(SUBSET Record) /\ doubted \subseteq Txns
    /\ due \in Nat /\ forgotten \in BOOLEAN
    /\ crashes \in Nat /\ opens \in Nat
CurrentTyped ==
    current # 0 => CurrentFile \in DOMAIN logs /\ synced <= Len(logs[CurrentFile])
TypeOK == LogsTyped /\ ProcessTyped /\ TxnsTyped /\ HistoryTyped /\ CurrentTyped

Init ==
    /\ logs = [f \in {} |-> <<>>] /\ tables = {}
    /\ lastSequence = 0 /\ onDisk = {0}
    /\ phase = "down" /\ current = 0 /\ nextFile = 1 /\ synced = 0
    /\ broken = FALSE /\ switching = Nobody /\ doomed = {}
    /\ walSequence = 0 /\ snapshot = 0 /\ volatile = {}
    /\ pc = [t \in Txns |-> "idle"] /\ seq = [t \in Txns |-> 0]
    /\ todo = [t \in Txns |-> {}]
    /\ acked = <<>> /\ doubted = {} /\ due = 0 /\ forgotten = FALSE /\ crashes = 0 /\ opens = 0

-----------------------------------------------------------------------------
(* Opening. *)

(***************************************************************************)
(* WALManager::Initialize looks for the highest number in wal/, not in     *)
(* wal/archive/, and creates the next file.  Only if wal/ had a file does  *)
(* it replay.                                                              *)
(***************************************************************************)
Initialize ==
    /\ phase \in {"down", "refused"} /\ opens < MaxOpens
    /\ opens' = opens + 1
    /\ \E n \in {f[2] : f \in WalFiles} \cup {0} :
         /\ \A f \in WalFiles : f[2] <= n
         /\ current' = n + 1 /\ nextFile' = n + 2
         /\ logs' = With(<<"wal", n + 1>>, <<>>)
         /\ phase' = IF n > 0 THEN "replay" ELSE "number"
    /\ synced' = 0 /\ broken' = FALSE /\ switching' = Nobody
    /\ doomed' = {} /\ walSequence' = 0 /\ snapshot' = 0 /\ volatile' = {}
    /\ UNCHANGED <<tables, lastSequence, onDisk, txns, acked, doubted, due, forgotten,
                   crashes>>

(* A mutant: the recovery buffer is not made a table. *)
ReplayToBuffer ==
    /\ phase = "replay"
    /\ \A f \in DOMAIN logs : ~IsTorn(f)
    /\ volatile' = volatile \cup Logged
    /\ IF Logged = {} THEN UNCHANGED walSequence
       ELSE \E n \in Numbers(Logged) :
              walSequence' = n /\ \A m \in Numbers(Logged) : m <= n
    /\ doomed' = DOMAIN logs \ {CurrentFile}
    /\ phase' = "sweep"
    /\ UNCHANGED <<disk, writer, snapshot, txns, history>>

(***************************************************************************)
(* RecoverFromWAL applies every record of every file to a recovery buffer  *)
(* and FinishRecovery makes it a table.  last_sequence_ is set only if     *)
(* there was a record.                                                     *)
(***************************************************************************)
Replay ==
    /\ phase = "replay"
    /\ \A f \in DOMAIN logs : ~IsTorn(f)
    /\ tables' = tables \cup Logged
    /\ IF Logged = {} THEN UNCHANGED walSequence
       ELSE \E n \in Numbers(Logged) :
              walSequence' = n /\ \A m \in Numbers(Logged) : m <= n
    /\ doomed' = DOMAIN logs \ {CurrentFile}
    /\ phase' = "sweep"
    /\ UNCHANGED <<logs, lastSequence, onDisk, writer, snapshot, volatile, txns,
                   history>>

(***************************************************************************)
(* A record cut short is corruption to the reader; nothing readable        *)
(* follows it, so the resync fails, and with it the opening.  The files    *)
(* stay.                                                                   *)
(***************************************************************************)
ReplayStops ==
    /\ phase = "replay"
    /\ \E f \in DOMAIN logs : IsTorn(f)
    /\ phase' = "refused" /\ current' = 0
    /\ UNCHANGED <<disk, nextFile, synced, broken, switching, doomed,
                   walSequence, snapshot, volatile, txns, history>>

(* FinishRecovery cannot write its table: the files stay here, too. *)
RecoveryFails ==
    /\ phase = "replay"
    /\ \A f \in DOMAIN logs : ~IsTorn(f)
    /\ phase' = "refused" /\ current' = 0
    /\ UNCHANGED <<disk, nextFile, synced, broken, switching, doomed,
                   walSequence, snapshot, volatile, txns, history>>

(* The replayed files are deleted in the order of their names. *)
Sweep ==
    /\ phase = "sweep"
    /\ \/ \E f \in doomed :
             /\ \A g \in doomed \ {f} : Precedes(f, g)
             /\ logs' = Without(f) /\ doomed' = doomed \ {f}
             /\ UNCHANGED phase
       \/ doomed = {} /\ phase' = "number" /\ UNCHANGED <<logs, doomed>>
    /\ UNCHANGED <<tables, lastSequence, onDisk, writer, walSequence, snapshot,
                   volatile, txns, history>>

Forgets == walSequence < due /\ lastSequence < due

(* A mutant: only the log is asked. *)
TakeUpLogged ==
    /\ phase = "number"
    /\ snapshot' = walSequence
    /\ forgotten' = (forgotten \/ Forgets)
    /\ phase' = "open"
    /\ UNCHANGED <<disk, writer, doomed, walSequence, volatile, txns,
                   acked, doubted, due, crashes, opens>>

(* The column family takes up the numbers where the log or LAST_SEQUENCE
   leaves off. *)
TakeUpNumbers ==
    /\ phase = "number"
    /\ snapshot' = IF walSequence > lastSequence THEN walSequence ELSE lastSequence
    /\ forgotten' = (forgotten \/ Forgets)
    /\ phase' = "open"
    /\ UNCHANGED <<disk, writer, doomed, walSequence, volatile, txns,
                   acked, doubted, due, crashes, opens>>

-----------------------------------------------------------------------------
(* Committing. *)

(* A mutant: the number is drawn before the keys are locked. *)
PrepareUnlocked(t) ==
    /\ phase = "open" /\ pc[t] = "idle"
    /\ snapshot' = snapshot + 1
    /\ pc' = [pc EXCEPT ![t] = "logging"]
    /\ seq' = [seq EXCEPT ![t] = snapshot + 1]
    /\ todo' = [todo EXCEPT ![t] = TouchedKeys[t]]
    /\ UNCHANGED <<disk, writer, phase, doomed, walSequence, volatile, history>>

(* PrepareCommit. *)
Prepare(t) ==
    /\ phase = "open" /\ pc[t] = "idle"
    /\ \A u \in Txns : pc[u] \in Busy => TouchedKeys[u] \cap TouchedKeys[t] = {}
    /\ snapshot' = snapshot + 1
    /\ pc' = [pc EXCEPT ![t] = "logging"]
    /\ seq' = [seq EXCEPT ![t] = snapshot + 1]
    /\ todo' = [todo EXCEPT ![t] = TouchedKeys[t]]
    /\ UNCHANGED <<disk, writer, phase, doomed, walSequence, volatile, history>>

(* A transaction about to write its next record; wal_mutex_ is free. *)
CanLog(t, k) == pc[t] = "logging" /\ k \in todo[t] /\ switching = Nobody

ShouldSwitch == Len(logs[CurrentFile]) >= FileCap

(* WriteRecordInternal with room in the current file. *)
Log(t, k) ==
    /\ CanLog(t, k) /\ ~ShouldSwitch /\ ~broken
    /\ logs' = With(CurrentFile, Append(logs[CurrentFile], RecordOf(t, k)))
    /\ todo' = [todo EXCEPT ![t] = @ \ {k}]
    /\ walSequence' = seq[t]
    /\ UNCHANGED <<tables, lastSequence, onDisk, writer, phase, doomed, snapshot,
                   volatile, pc, seq, history>>

(* A mutant: the count of synced records is not reset. *)
ArchiveKeepsCount(t) ==
    /\ \E k \in Keys : CanLog(t, k)
    /\ ShouldSwitch /\ ~broken
    /\ logs' = [f \in (DOMAIN logs \ {CurrentFile}) \cup {<<"archive", current>>} |->
                  IF f = <<"archive", current>> THEN logs[CurrentFile] ELSE logs[f]]
    /\ current' = 0 /\ synced' = Len(logs[CurrentFile]) /\ switching' = t
    /\ UNCHANGED <<tables, lastSequence, onDisk, nextFile, broken, process, txns, history>>

(***************************************************************************)
(* SwitchToNewWALLocked, first half: the full file is synced and moved to  *)
(* the archive, over a file of the same name.                              *)
(***************************************************************************)
Archive(t) ==
    /\ \E k \in Keys : CanLog(t, k)
    /\ ShouldSwitch /\ ~broken
    /\ logs' = [f \in (DOMAIN logs \ {CurrentFile}) \cup {<<"archive", current>>} |->
                  IF f = <<"archive", current>> THEN logs[CurrentFile] ELSE logs[f]]
    /\ current' = 0 /\ synced' = 0 /\ switching' = t
    /\ UNCHANGED <<tables, lastSequence, onDisk, nextFile, broken, process, txns, history>>

(***************************************************************************)
(* The same when the file cannot be synced: the error is logged and the    *)
(* switch goes on.  The file stays where it is, with what reached the disk.*)
(***************************************************************************)
GiveUpFile(t) ==
    /\ \E k \in Keys : CanLog(t, k)
    /\ ShouldSwitch
    /\ \E file \in Remains(logs[CurrentFile], synced) :
         logs' = With(CurrentFile, file)
    /\ doubted' = doubted \cup {u \in Txns : pc[u] = "logging"}
    /\ current' = 0 /\ synced' = 0 /\ broken' = FALSE /\ switching' = t
    /\ UNCHANGED <<tables, lastSequence, onDisk, nextFile, process, txns, acked,
                   due, forgotten, crashes, opens>>

(* Second half: the next file, and the record that had to wait for it. *)
LogInNewFile(t, k) ==
    /\ switching = t /\ k \in todo[t]
    /\ logs' = With(<<"wal", nextFile>>, <<RecordOf(t, k)>>)
    /\ current' = nextFile /\ nextFile' = nextFile + 1
    /\ switching' = Nobody
    /\ todo' = [todo EXCEPT ![t] = @ \ {k}]
    /\ walSequence' = seq[t]
    /\ UNCHANGED <<tables, lastSequence, onDisk, synced, broken, phase, doomed, snapshot,
                   volatile, pc, seq, history>>

(***************************************************************************)
(* A write that fails leaves the stream failed, so that each later one and *)
(* each Sync fails too; of a Sync that fails the next may succeed, unless  *)
(* it was the stream.  The transaction aborts; what it has logged stays.   *)
(***************************************************************************)
LogFails(t) ==
    /\ pc[t] = "logging" /\ switching = Nobody
    /\ todo[t] # {} => ~ShouldSwitch
    /\ broken' = TRUE \/ (todo[t] = {} /\ UNCHANGED broken)
    /\ pc' = [pc EXCEPT ![t] = "aborted"]
    /\ todo' = [todo EXCEPT ![t] = {}]
    /\ UNCHANGED <<disk, current, nextFile, synced, switching, process, seq, history>>

(* WALManager::Sync. *)
SyncLog(t) ==
    /\ pc[t] = "logging" /\ todo[t] = {} /\ switching = Nobody /\ ~broken
    /\ synced' = Len(logs[CurrentFile])
    /\ pc' = [pc EXCEPT ![t] = "synced"]
    /\ UNCHANGED <<disk, current, nextFile, broken, switching, process, seq,
                   todo, history>>

(* MarkTransactionCommitted, and Commit returns OK. *)
Mark(t) ==
    /\ pc[t] = "synced"
    /\ pc' = [pc EXCEPT ![t] = "committed"]
    /\ volatile' = volatile \cup RecordsOf(t)
    /\ acked' = Append(acked, RecordsOf(t))
    /\ UNCHANGED <<disk, writer, phase, doomed, walSequence, snapshot, seq, todo,
                   doubted, due, forgotten, crashes, opens>>

(* The background tasks bring some committed versions into a table, older
   ones of a key first. *)
Flush ==
    /\ phase = "open"
    /\ \E S \in SUBSET volatile \ {{}} :
         /\ \A r \in S, o \in volatile : o.key = r.key /\ o.seq < r.seq => o \in S
         /\ tables' = tables \cup S /\ volatile' = volatile \ S
    /\ UNCHANGED <<logs, lastSequence, onDisk, writer, phase, doomed, walSequence,
                   snapshot, txns, history>>

-----------------------------------------------------------------------------
(* Closing and crashing. *)

(* What the death of the process does to its own state. *)
Vanish ==
    /\ phase' = "down" /\ current' = 0 /\ synced' = 0 /\ switching' = Nobody
    /\ doomed' = {} /\ volatile' = {}
    /\ pc' = [t \in Txns |-> IF pc[t] \in Busy THEN "lost" ELSE pc[t]]
    /\ UNCHANGED <<nextFile, broken, walSequence, snapshot, seq, todo>>

(***************************************************************************)
(* DBImpl::Close, up to SyncAllData: all that is committed goes to tables. *)
(* The users have finished their transactions.  If the log cannot be       *)
(* synced it will not be deleted.                                          *)
(***************************************************************************)
Close ==
    /\ phase = "open" /\ \A t \in Txns : pc[t] \notin Busy
    /\ tables' = tables \cup volatile /\ volatile' = {}
    /\ \/ ~broken /\ synced' = Len(logs[CurrentFile]) /\ UNCHANGED broken
       \/ broken' = TRUE /\ UNCHANGED synced
    /\ phase' = "shutdown"
    /\ UNCHANGED <<logs, lastSequence, onDisk, current, nextFile, switching, doomed,
                   walSequence, snapshot, txns, history>>

(* DefaultColumnFamily::Shutdown opens LAST_SEQUENCE, which empties it... *)
EmptySequence ==
    /\ phase = "shutdown" /\ phase' = "sequence"
    /\ lastSequence' = 0 /\ onDisk' = onDisk \cup {0}
    /\ UNCHANGED <<logs, tables, writer, doomed, walSequence, snapshot, volatile,
                   txns, history>>

(* A mutant: LAST_SEQUENCE is not written. *)
ShutdownForgets ==
    /\ phase \in {"shutdown", "sequence"}
    /\ \E file \in Remains(logs[CurrentFile], synced) :
         logs' = With(CurrentFile, file)
    /\ doomed' = IF broken THEN {} ELSE DOMAIN logs
    /\ phase' = "truncate" /\ current' = 0 /\ synced' = 0
    /\ UNCHANGED <<tables, lastSequence, onDisk, nextFile, broken, switching,
                   walSequence, snapshot, volatile, txns, history>>

(* ... writes it, unless opening or writing fails, which stops nothing, and
   closes the log. *)
Shutdown ==
    /\ \/ phase \in {"shutdown", "sequence"} /\ UNCHANGED lastSequence
       \/ phase = "sequence" /\ lastSequence' = snapshot
    /\ onDisk' = onDisk \cup {lastSequence'} /\ due' = snapshot
    /\ \E file \in Remains(logs[CurrentFile], synced) :
         logs' = With(CurrentFile, file)
    /\ doomed' = IF broken THEN {} ELSE DOMAIN logs
    /\ phase' = "truncate" /\ current' = 0 /\ synced' = 0
    /\ UNCHANGED <<tables, nextFile, broken, switching, walSequence, snapshot,
                   volatile, txns, acked, doubted, forgotten, crashes, opens>>

(* TruncateLogs, file by file, and the end of the process. *)
TruncateLogs ==
    /\ phase = "truncate"
    /\ \E f \in doomed :
         /\ f[1] = "archive" => \A g \in doomed : g[1] = "archive"
         /\ logs' = Without(f) /\ doomed' = doomed \ {f}
    /\ UNCHANGED <<tables, lastSequence, onDisk, writer, phase, walSequence, snapshot,
                   volatile, txns, history>>

Exit ==
    /\ phase = "truncate" /\ doomed = {}
    /\ Vanish
    /\ UNCHANGED <<disk, history>>

(* The process dies, or the power fails: then LAST_SEQUENCE, also of a database
   that is closed, may have any content it has had. *)
Crash ==
    /\ phase \in {"down", "refused"} => onDisk # {lastSequence}
    /\ crashes < MaxCrashes
    /\ switching = Nobody \/ CrashInSwitch
    /\ crashes' = crashes + 1
    /\ lastSequence' \in onDisk /\ onDisk' = {lastSequence'}
    /\ IF current = 0 THEN UNCHANGED logs
       ELSE \E file \in Remains(logs[CurrentFile], synced) :
              logs' = With(CurrentFile, file)
    /\ Vanish
    /\ UNCHANGED <<tables, acked, doubted, due, forgotten, opens>>

Next ==
    \/ Initialize \/ Replay \/ ReplayStops \/ RecoveryFails
    \/ Sweep \/ TakeUpNumbers
    \/ \E t \in Txns :
         \/ Prepare(t) \/ Archive(t) \/ GiveUpFile(t) \/ LogFails(t)
         \/ SyncLog(t) \/ Mark(t)
         \/ \E k \in Keys : Log(t, k) \/ LogInNewFile(t, k)
    \/ Flush \/ Close \/ EmptySequence \/ Shutdown \/ TruncateLogs \/ Exit \/ Crash

Spec == Init /\ [][Next]_vars
=============================================================================
