------------------------------ MODULE Families ------------------------------
(***************************************************************************)
(* A database and its column families through create, drop, close, crash   *)
(* and open: DBImpl (src/src/db/db_impl.cc), ColumnFamilyManager           *)
(* (db/column_family.cc) and the MANIFEST (db/manifest.cc).                *)
(*                                                                         *)
(* Of a family only its directory is kept: the writes in its log and those *)
(* in its tables.  How the log itself survives a crash is module Wal, how  *)
(* the tables are kept is module LsmTree.                                  *)
(***************************************************************************)
EXTENDS Integers, Sequences, FiniteSets

CONSTANTS Names, default,
          Writes,               \* a write is committed once
          Nothing,
          MaxId,                \* bound: ids of families
          MaxRecords,           \* bound: records of the MANIFEST
          MaxOpens, MaxCrashes  \* bounds

Family == [id : 0 .. MaxId, name : Names]
Default == [id |-> 0, name |-> default]

(* A record of the MANIFEST.  A torn one was cut short; what its length    *)
(* promises ends within the next `needs' records.                          *)
Record == [kind : {"create", "drop", "torn"}, of : Family, needs : 0 .. 2]
Rec(kind, f) == [kind |-> kind, of |-> f, needs |-> 0]
TornRec(f, n) == [kind |-> "torn", of |-> f, needs |-> n]

ASSUME NamesAssumption == default \in Names
ASSUME NothingAssumption == Nothing \notin Names /\ Nothing \notin Record
ASSUME BoundsAssumption ==
    MaxId \in Nat /\ MaxRecords \in Nat /\ MaxOpens \in Nat /\ MaxCrashes \in Nat

VARIABLES
    \* On disk.
    manifest,   \* records of the MANIFEST files
    wal, sst,   \* directory -> writes in its log, in its tables
    clean,      \* there is a CLEAN_SHUTDOWN
    recovering, \* there is a RECOVERY_IN_PROGRESS
    \* In the process.
    phase,      \* "down", the steps of Initialize: "starting", "reading",
                \* "opening", "checking", "marking", "validating", "finishing";
                \* "up"; those of Close: "syncing", "shutting", "truncating",
                \* "closing"
    families,   \* column_families_by_id_, column_families_by_name_
    nextId,     \* next_column_family_id_
    initialized,\* of the ColumnFamilyManager
    todo,       \* families the current loop has still to visit
    synced,     \* SyncAllData has not failed
    inactive,   \* families that are shut down
    op,         \* the create or drop under way, which has written its record
    buffer,     \* records in the stream of the ManifestWriter
    \* History.
    acked,      \* families whose create returned and whose drop did not
    doubted,    \* families whose create or drop was cut by a crash
    by,         \* write -> name of the family it was committed to
    owed,       \* writes committed before Close was called
    refusal,    \* what the last opening returned
    opens, crashes

data == <<manifest, wal, sst>>
markers == <<clean, recovering>>
disk == <<data, markers>>
process == <<phase, families, nextId, initialized, todo, synced, inactive, op, buffer>>
history == <<acked, doubted, by, owed, refusal, opens, crashes>>
vars == <<disk, process, history>>

-----------------------------------------------------------------------------
(* The MANIFEST. *)

(***************************************************************************)
(* RecoverFromManifestFile resynchronises behind a torn record, or gives   *)
(* up the rest of the file when nothing follows.  If the read of the torn  *)
(* record ran into the end of the file the stream has failed, it can not   *)
(* seek, and the error is no longer one of corruption.                     *)
(***************************************************************************)
Readable == \A i \in DOMAIN manifest :
    manifest[i].kind = "torn" => Len(manifest) - i >= manifest[i].needs \/ i = Len(manifest)

(* Mutant: the records behind a torn one are given up. *)
DescribedBeforeTorn ==
    LET valid == {i \in DOMAIN manifest :
                    \A j \in 1 .. i : manifest[j].kind # "torn"}
        last == {i \in valid : \A j \in valid : j > i => manifest[j].of.id # manifest[i].of.id}
    IN  {manifest[i].of : i \in {l \in last : manifest[l].kind = "create"}}

(* The families the records tell of: the last record of an id decides.     *)
Described ==
    LET valid == {i \in DOMAIN manifest : manifest[i].kind # "torn"}
        last == {i \in valid : \A j \in valid : j > i => manifest[j].of.id # manifest[i].of.id}
    IN  {manifest[i].of : i \in {l \in last : manifest[l].kind = "create"}}

(* Records go to the stream of the ManifestWriter. *)
WriteRecord(rec) == buffer' = Append(buffer, rec)
LogCreateColumnFamily(f) == WriteRecord(Rec("create", f))
LogDropColumnFamily(f) == WriteRecord(Rec("drop", f))

-----------------------------------------------------------------------------
(* Directories. *)

(* Mutant: the directory is named after the number alone. *)
DirByNumber(f) == [f EXCEPT !.name = default]

(* cf_<id>_<name> *)
Dir(f) == f

(* The constructor replays the log into a table. *)
Replayed(f) ==
    /\ sst' = [sst EXCEPT ![Dir(f)] = @ \cup wal[Dir(f)]]
    /\ wal' = [wal EXCEPT ![Dir(f)] = {}]

-----------------------------------------------------------------------------
(* Opening. *)

(* The opening fails, and the destructor of DBImpl closes what is open.     *)
Refused(r) ==
    /\ phase' = "syncing" /\ todo' = families /\ refusal' = r
    /\ UNCHANGED <<disk, families, nextId, initialized, synced, inactive, op, buffer,
                   acked, doubted, by, owed, opens, crashes>>

(* DBImpl::Initialize removes the marker of a clean shutdown first of all.  *)
Open ==
    /\ phase = "down" /\ opens < MaxOpens
    /\ phase' = "starting" /\ opens' = opens + 1 /\ refusal' = "none"
    /\ clean' = FALSE
    /\ UNCHANGED <<data, recovering, families, nextId, initialized, todo, synced, inactive, op,
                   buffer, acked, doubted, by, owed, crashes>>

(* The file that CURRENT names is opened to append to; there is no other.  *)
OpenManifest ==
    /\ phase = "starting"
    /\ phase' = "reading"
    /\ UNCHANGED <<disk, families, nextId, initialized, todo, synced, inactive, op, buffer,
                   history>>

OpenManifestFails == phase = "starting" /\ Refused("failed")

(* Without any family in the MANIFEST the default one is opened, which is  *)
(* not recorded.                                                           *)
ReadManifest ==
    /\ phase = "reading" /\ Readable
    /\ phase' = "opening"
    /\ todo' = IF Described = {} THEN {Default} ELSE Described
    /\ UNCHANGED <<disk, families, nextId, initialized, synced, inactive, op, buffer, history>>

ReadManifestFails == phase = "reading" /\ ~Readable /\ Refused("unreadable")

BuildFamily(f) ==
    /\ phase = "opening" /\ f \in todo
    /\ todo' = todo \ {f} /\ families' = families \cup {f}
    /\ nextId' = IF f.id >= nextId THEN f.id + 1 ELSE nextId
    /\ Replayed(f)
    /\ UNCHANGED <<manifest, markers, phase, initialized, synced, inactive, op, buffer,
                   history>>

(* Its log or its tables cannot be opened. *)
BuildFails == phase = "opening" /\ todo # {} /\ Refused("failed")

(* ValidateAllColumnFamilies. *)
Valid ==
    /\ \E f \in families : f.name = default \/ f.id = 0
    /\ \A f, g \in families : f.name = g.name => f = g

Validate ==
    /\ phase = "opening" /\ todo = {} /\ Valid
    /\ phase' = "checking" /\ initialized' = TRUE
    /\ UNCHANGED <<disk, families, nextId, todo, synced, inactive, op, buffer, history>>

ValidateFails == phase = "opening" /\ todo = {} /\ ~Valid /\ Refused("invalid")

-----------------------------------------------------------------------------
(* Recovery.  The logs have been replayed by now; what is left of a log is *)
(* in the directory of a family that was dropped.                          *)

NeedsRecovery == \/ ~clean /\ \E d \in Family : wal[d] # {}
                 \/ recovering

CheckRecoveryNeeded ==
    /\ phase = "checking"
    /\ phase' = IF NeedsRecovery THEN "marking" ELSE "up"
    /\ UNCHANGED <<disk, families, nextId, initialized, todo, synced, inactive, op, buffer,
                   history>>

InitializeRecoveryEnvironment ==
    /\ phase = "marking"
    /\ phase' = "validating" /\ recovering' = TRUE
    /\ UNCHANGED <<data, clean, families, nextId, initialized, todo, synced, inactive, op,
                   buffer, history>>

(* There are families, so RecoverColumnFamilies leaves them alone.         *)
CleanupRecoveryState ==
    /\ phase = "validating" /\ families # {}
    /\ phase' = "finishing" /\ recovering' = FALSE
    /\ UNCHANGED <<data, clean, families, nextId, initialized, todo, synced, inactive, op,
                   buffer, history>>

(* The trees have nothing to flush.                                        *)
FinishLSMTreeRecovery ==
    /\ phase = "finishing"
    /\ phase' = "up"
    /\ UNCHANGED <<disk, families, nextId, initialized, todo, synced, inactive, op, buffer,
                   history>>

(* A directory or the space on the disk is missing. *)
StructureInvalid == phase = "checking" /\ Refused("failed")

(* ValidateConsistency of a family: inactive, its tree or its files. *)
Inconsistent == phase = "validating" /\ Refused("failed")

(* The marker or the backup cannot be written; a flush fails. *)
RecoveryFails == phase \in {"marking", "finishing"} /\ Refused("failed")

(* DB::Open has returned a database, and nobody has waited for its end.    *)
InUse ==
    /\ initialized /\ refusal = "none"
    /\ phase \in {"up", "syncing", "shutting", "truncating", "closing"}

-----------------------------------------------------------------------------
(* Creating and dropping.  One at a time: column_families_mutex_. *)

(* CreateColumnFamily opens the family and hands its record to the stream. *)
CreateColumnFamily(n) ==
    LET f == [id |-> nextId, name |-> n]
    IN  /\ InUse /\ op = Nothing /\ nextId <= MaxId /\ Len(manifest) < MaxRecords
        /\ \A g \in families : g.name # n
        /\ nextId' = nextId + 1
        /\ Replayed(f)
        /\ op' = Rec("create", f) /\ LogCreateColumnFamily(f)
        /\ UNCHANGED <<manifest, markers, phase, families, initialized, todo, synced, inactive,
                       history>>

(* The family cannot be opened: its number is used up. *)
CreateFails ==
    /\ InUse /\ op = Nothing /\ nextId <= MaxId
    /\ nextId' = nextId + 1
    /\ UNCHANGED <<disk, phase, families, initialized, todo, synced, inactive, op,
                   buffer, history>>

DropColumnFamily(f) ==
    /\ InUse /\ op = Nothing /\ f \in families /\ f.name # default
    /\ Len(manifest) < MaxRecords
    /\ op' = Rec("drop", f) /\ LogDropColumnFamily(f)
    /\ UNCHANGED <<disk, phase, families, nextId, initialized, todo, synced, inactive,
                   history>>

(* ManifestWriter::Sync. *)
SyncManifest ==
    /\ op # Nothing /\ buffer # <<>>
    /\ manifest' = manifest \o buffer /\ buffer' = <<>>
    /\ UNCHANGED <<wal, sst, markers, phase, families, nextId, initialized, todo, synced,
                   inactive, op, history>>

(* Mutant: the record is left to the stream. *)
FinishUnsynced ==
    /\ op # Nothing
    /\ families' = IF op.kind = "create" THEN families \cup {op.of} ELSE families \ {op.of}
    /\ acked' = IF op.kind = "create" THEN acked \cup {op.of} ELSE acked \ {op.of}
    /\ doubted' = doubted \ {op.of}
    /\ inactive' = inactive \ {op.of}
    /\ op' = Nothing
    /\ UNCHANGED <<disk, phase, nextId, initialized, todo, synced, buffer, by, owed,
                   refusal, opens, crashes>>

(* The family is entered, or shut down and taken out, and the call returns. *)
Finish ==
    /\ op # Nothing /\ buffer = <<>>
    /\ families' = IF op.kind = "create" THEN families \cup {op.of} ELSE families \ {op.of}
    /\ acked' = IF op.kind = "create" THEN acked \cup {op.of} ELSE acked \ {op.of}
    /\ doubted' = doubted \ {op.of}
    /\ inactive' = inactive \ {op.of}
    /\ op' = Nothing
    /\ UNCHANGED <<disk, phase, nextId, initialized, todo, synced, buffer, by, owed,
                   refusal, opens, crashes>>

-----------------------------------------------------------------------------
(* Writes.  Nothing stops them when Close is called, until the family is
   shut down. *)

Commit(f, w) ==
    /\ InUse /\ f \in families \ inactive /\ by[w] = Nothing
    /\ wal' = [wal EXCEPT ![Dir(f)] = @ \cup {w}]
    /\ by' = [by EXCEPT ![w] = f.name]
    /\ owed' = IF phase = "up" THEN owed \cup {w} ELSE owed
    /\ UNCHANGED <<manifest, sst, markers, process, acked, doubted, refusal, opens, crashes>>

(* The log keeps what is brought into tables. *)
Flush(f) ==
    /\ phase = "up" /\ f \in families
    /\ sst' = [sst EXCEPT ![Dir(f)] = @ \cup wal[Dir(f)]]
    /\ UNCHANGED <<manifest, wal, markers, process, history>>

-----------------------------------------------------------------------------
(* Closing. *)

Close ==
    /\ phase = "up"
    /\ phase' = "syncing" /\ todo' = families
    /\ UNCHANGED <<disk, families, nextId, initialized, synced, inactive, op, buffer,
                   history>>

(* SyncAllData, one family after the other. *)
SyncFamily(f) ==
    /\ phase = "syncing" /\ f \in todo
    /\ todo' = todo \ {f}
    /\ sst' = IF f \in families THEN [sst EXCEPT ![Dir(f)] = @ \cup wal[Dir(f)]] ELSE sst
    /\ UNCHANGED <<manifest, wal, markers, phase, families, nextId, initialized, synced,
                   inactive, op, buffer, history>>

(* Its first error ends it, and Close goes on. *)
SyncFails ==
    /\ phase = "syncing" /\ todo # {}
    /\ synced' = FALSE
    /\ phase' = "shutting" /\ todo' = IF initialized THEN families ELSE {}
    /\ UNCHANGED <<disk, families, nextId, initialized, inactive, op, buffer, history>>

SyncEnds ==
    /\ phase = "syncing" /\ todo = {}
    /\ phase' = "shutting" /\ todo' = IF initialized THEN families ELSE {}
    /\ UNCHANGED <<disk, families, nextId, initialized, synced, inactive, op, buffer,
                   history>>

(* ColumnFamilyManager::Shutdown, which does nothing if its Initialize has
   failed. *)
ShutdownFamily(f) ==
    /\ phase = "shutting" /\ f \in todo
    /\ todo' = todo \ {f} /\ inactive' = inactive \cup {f}
    /\ UNCHANGED <<disk, phase, families, nextId, initialized, synced, op, buffer, history>>

(* Mutant: the logs are truncated in any case. *)
TruncatesAnyway ==
    /\ phase = "shutting" /\ todo = {}
    /\ phase' = "truncating" /\ todo' = families /\ initialized' = FALSE
    /\ UNCHANGED <<disk, families, nextId, synced, inactive, op, buffer, history>>

(* The logs are truncated only if all families were synced. *)
ShutdownEnds ==
    /\ phase = "shutting" /\ todo = {}
    /\ phase' = "truncating" /\ todo' = IF synced THEN families ELSE {}
    /\ initialized' = FALSE
    /\ UNCHANGED <<disk, families, nextId, synced, inactive, op, buffer, history>>

(* column_families.info, which nobody reads, cannot be written.            *)
PersistFails ==
    /\ phase = "shutting" /\ todo = {} /\ initialized
    /\ phase' = "truncating" /\ todo' = IF synced THEN families ELSE {}
    /\ UNCHANGED <<disk, families, nextId, initialized, synced, inactive, op, buffer, history>>

TruncateLogs(f) ==
    /\ phase = "truncating" /\ f \in todo
    /\ todo' = todo \ {f}
    /\ wal' = IF f \in families THEN [wal EXCEPT ![Dir(f)] = {}] ELSE wal
    /\ UNCHANGED <<manifest, sst, markers, phase, families, nextId, initialized, synced,
                   inactive, op, buffer, history>>

(* Mutant: the marker does not wait for a sync without errors. *)
MarksAnyway ==
    /\ phase = "truncating" /\ todo = {}
    /\ phase' = "closing" /\ clean' = TRUE
    /\ UNCHANGED <<data, recovering, families, nextId, initialized, todo, synced, inactive,
                   op, buffer, history>>

CreateCleanShutdownMarker ==
    /\ phase = "truncating" /\ todo = {}
    /\ phase' = "closing" /\ clean' = synced
    /\ UNCHANGED <<data, recovering, families, nextId, initialized, todo, synced, inactive,
                   op, buffer, history>>

(* The process and what it knew are gone. *)
Gone ==
    /\ phase' = "down" /\ families' = {} /\ todo' = {} /\ inactive' = {}
    /\ nextId' = 1 /\ initialized' = FALSE /\ synced' = TRUE
    /\ op' = Nothing /\ buffer' = <<>>
    /\ UNCHANGED <<wal, sst, acked, by, owed, refusal, opens>>

(* RemoveRecoveryMarker; the users have returned from their calls. *)
Closed ==
    /\ phase = "closing" /\ op = Nothing
    /\ Gone
    /\ recovering' = FALSE
    /\ UNCHANGED <<manifest, clean, doubted, crashes>>

(* The stream's records reach the disk or not, or the first of them in part. *)
Crash ==
    /\ phase # "down" /\ crashes < MaxCrashes
    /\ crashes' = crashes + 1
    /\ Gone
    /\ doubted' = IF op = Nothing THEN doubted ELSE doubted \cup {op.of}
    /\ UNCHANGED markers
    /\ manifest' \in {manifest, manifest \o buffer}
         \cup {Append(manifest, TornRec(buffer[i].of, n)) : i \in DOMAIN buffer, n \in 1 .. 2}

-----------------------------------------------------------------------------

Init ==
    /\ manifest = <<>> /\ wal = [d \in Family |-> {}] /\ sst = [d \in Family |-> {}]
    /\ clean = FALSE /\ recovering = FALSE
    /\ phase = "down" /\ families = {} /\ nextId = 1 /\ initialized = FALSE
    /\ todo = {} /\ synced = TRUE /\ inactive = {} /\ op = Nothing /\ buffer = <<>>
    /\ acked = {} /\ doubted = {} /\ by = [w \in Writes |-> Nothing] /\ owed = {}
    /\ refusal = "none" /\ opens = 0 /\ crashes = 0

Next ==
    \/ Open \/ OpenManifest \/ OpenManifestFails \/ ReadManifest \/ ReadManifestFails
    \/ BuildFails \/ Validate \/ ValidateFails
    \/ CheckRecoveryNeeded \/ InitializeRecoveryEnvironment \/ CleanupRecoveryState
    \/ FinishLSMTreeRecovery \/ StructureInvalid \/ Inconsistent \/ RecoveryFails
    \/ \E n \in Names : CreateColumnFamily(n)
    \/ CreateFails \/ SyncManifest \/ Finish
    \/ \E f \in Family : \/ BuildFamily(f) \/ DropColumnFamily(f) \/ Flush(f)
                         \/ SyncFamily(f) \/ ShutdownFamily(f) \/ TruncateLogs(f)
                         \/ \E w \in Writes : Commit(f, w)
    \/ Close \/ SyncFails \/ SyncEnds \/ ShutdownEnds \/ PersistFails
    \/ CreateCleanShutdownMarker \/ Closed \/ Crash

Spec == Init /\ [][Next]_vars
=============================================================================
