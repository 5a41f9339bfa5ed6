--------------------------- MODULE FamiliesProps ---------------------------
(* What a database promises about its column families. *)
EXTENDS Families

TypeOK ==
    /\ manifest \in Seq(Record)
    /\ wal \in [Family -> SUBSET Writes] /\ sst \in [Family -> SUBSET Writes]
    /\ clean \in BOOLEAN /\ recovering \in BOOLEAN
    /\ phase \in {"down", "starting", "reading", "opening", "checking", "marking",
                  "validating", "finishing", "up", "syncing", "shutting", "truncating",
                  "closing"}
    /\ families \subseteq Family /\ todo \subseteq Family /\ inactive \subseteq Family
    /\ nextId \in 1 .. MaxId + 1 /\ initialized \in BOOLEAN /\ synced \in BOOLEAN
    /\ op \in Record \cup {Nothing} /\ buffer \in Seq(Record)
    /\ buffer # <<>> => op # Nothing
    /\ acked \subseteq Family /\ doubted \subseteq Family
    /\ by \in [Writes -> Names \cup {Nothing}] /\ owed \subseteq Writes
    /\ refusal \in {"none", "unreadable", "failed", "invalid"}
    /\ opens \in 0 .. MaxOpens /\ crashes \in 0 .. MaxCrashes

(***************************************************************************)
(* A MANIFEST that can be read tells of every family whose create returned *)
(* and whose drop did not, of no other family, and of no name twice, up to *)
(* the call that is under way or that a crash has cut short; also when     *)
(* records follow a torn one (CreateColumnFamily, DropColumnFamily,        *)
(* RecoverFromManifestFile).                                               *)
(***************************************************************************)
ManifestTells ==
    Readable =>
        LET doubt == doubted \cup (IF op = Nothing THEN {} ELSE {op.of})
        IN  /\ acked \ doubt \subseteq Described
            /\ Described \subseteq acked \cup doubt
            /\ \A f, g \in Described : f.name = g.name => f = g

(***************************************************************************)
(* What was committed before Close was called is in the log or in a table  *)
(* of its family's directory, whichever step of Close fails or is cut      *)
(* short, and when an opening fails and what it has opened is closed again *)
(* (Close, SyncAllData, TruncateLogs, ~DBImpl).                            *)
(***************************************************************************)
OwedSurvives == \A w \in owed : \E d \in Family : w \in wal[d] \cup sst[d]

(***************************************************************************)
(* What is in the directory of an open family was committed to a family of *)
(* its name, though numbers and directories of dropped families are used   *)
(* again (DropColumnFamily, AllocateColumnFamilyID).                       *)
(***************************************************************************)
OwnData ==
    \A f \in families : \A w \in wal[Dir(f)] \cup sst[Dir(f)] : by[w] = f.name

(***************************************************************************)
(* After an opening that succeeded, a CLEAN_SHUTDOWN means that what was   *)
(* committed before Close to a family the MANIFEST tells of is in its      *)
(* tables, whichever step of Close failed or was the last before a crash   *)
(* (Close, SyncAllData, CreateCleanShutdownMarker, CheckRecoveryNeeded).   *)
(***************************************************************************)
CleanIsTrue ==
    clean /\ refusal = "none" =>
        \A f \in Described \cup {Default} : wal[Dir(f)] \cap owed \subseteq sst[Dir(f)]

=============================================================================
