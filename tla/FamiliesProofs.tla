--------------------------- MODULE FamiliesProofs ---------------------------
(* Closing a database keeps what was committed before: the proof. *)
EXTENDS FamiliesProps, TLAPS

LEMMA DescribedType ==
    ASSUME manifest \in Seq(Record)
    PROVE  Described \subseteq Family
<1>1. \A i \in DOMAIN manifest : manifest[i] \in Record
  OBVIOUS
<1>2. \A i \in DOMAIN manifest : manifest[i].of \in Family
  BY <1>1 DEF Record
<1> QED
  BY <1>2 DEF Described

LEMMA NoRecords == <<>> \in Seq(Record)
OBVIOUS

LEMMA NewFamily ==
    ASSUME TypeOK, nextId <= MaxId, NEW n \in Names
    PROVE  [id |-> nextId, name |-> n] \in Family
BY BoundsAssumption DEF TypeOK, Family

LEMMA ReplayedType ==
    ASSUME TypeOK, NEW f \in Family, Replayed(f)
    PROVE  wal' \in [Family -> SUBSET Writes] /\ sst' \in [Family -> SUBSET Writes]
BY DEF TypeOK, Replayed, Dir

LEMMA RecType ==
    ASSUME NEW f \in Family
    PROVE  /\ Rec("create", f) \in Record /\ Rec("drop", f) \in Record
           /\ \A n \in 1 .. 2 : TornRec(f, n) \in Record
BY DEF Rec, TornRec, Record

(* The ways an opening fails. *)
Refusing == \/ OpenManifestFails \/ ReadManifestFails \/ BuildFails \/ ValidateFails
            \/ StructureInvalid \/ Inconsistent \/ RecoveryFails

LEMMA RefusingIsRefused ==
    Refusing => \E r \in {"unreadable", "failed", "invalid"} : Refused(r)
BY DEF Refusing, OpenManifestFails, ReadManifestFails, BuildFails, ValidateFails,
       StructureInvalid, Inconsistent, RecoveryFails

(***************************************************************************)
(* Types hold at first and are kept by every step.                         *)
(***************************************************************************)
LEMMA TypeInit == Init => TypeOK
<1> SUFFICES ASSUME Init PROVE TypeOK
    OBVIOUS
<1>1. manifest \in Seq(Record) /\ buffer \in Seq(Record) /\ buffer = <<>>
  BY NoRecords DEF Init
<1>2. wal \in [Family -> SUBSET Writes] /\ sst \in [Family -> SUBSET Writes]
  BY DEF Init
<1>3. /\ families \subseteq Family /\ todo \subseteq Family /\ inactive \subseteq Family
      /\ acked \subseteq Family /\ doubted \subseteq Family /\ owed \subseteq Writes
  BY DEF Init
<1>4. /\ nextId \in 1 .. MaxId + 1 /\ opens \in 0 .. MaxOpens /\ crashes \in 0 .. MaxCrashes
  BY BoundsAssumption DEF Init
<1>5. /\ phase = "down" /\ initialized = FALSE /\ synced = TRUE /\ op = Nothing
      /\ clean = FALSE /\ recovering = FALSE
      /\ refusal = "none" /\ by \in [Writes -> Names \cup {Nothing}]
  BY DEF Init
<1> QED
  BY <1>1, <1>2, <1>3, <1>4, <1>5 DEF TypeOK

LEMMA TypeStep == TypeOK /\ [Next]_vars => TypeOK'
<1> SUFFICES ASSUME TypeOK, [Next]_vars PROVE TypeOK'
    OBVIOUS
<1> USE NamesAssumption, NothingAssumption, BoundsAssumption
<1> USE DEF disk, data, markers, process, history
<1>1. CASE Open
  <2>1. opens' \in 0 .. MaxOpens
    BY <1>1 DEF Open, TypeOK
  <2>2. /\ UNCHANGED <<manifest, wal, sst, recovering, families, nextId, initialized, todo,
                        synced, inactive, op, buffer, acked, doubted, by, owed, crashes>>
        /\ phase' = "starting" /\ refusal' = "none" /\ clean' = FALSE
    BY <1>1 DEF Open
  <2> QED
    BY <2>1, <2>2 DEF TypeOK
<1>2. CASE \E f \in Family : BuildFamily(f)
  <2> PICK f \in Family : BuildFamily(f)
    BY <1>2
  <2>1. wal' \in [Family -> SUBSET Writes] /\ sst' \in [Family -> SUBSET Writes]
    BY ReplayedType DEF BuildFamily
  <2>2. nextId' \in 1 .. MaxId + 1
    BY DEF BuildFamily, TypeOK, Family
  <2> QED
    BY <2>1, <2>2 DEF BuildFamily, TypeOK
<1>3. CASE Refusing
  <2> PICK r \in {"unreadable", "failed", "invalid"} : Refused(r)
    BY <1>3, RefusingIsRefused
  <2> QED
    BY DEF Refused, TypeOK
<1>4. CASE Validate
  BY <1>4 DEF Validate, TypeOK
<1>5. CASE \E n \in Names : CreateColumnFamily(n)
  <2> PICK n \in Names : CreateColumnFamily(n)
    BY <1>5
  <2> DEFINE f == [id |-> nextId, name |-> n]
  <2>1. f \in Family
    BY NewFamily DEF CreateColumnFamily
  <2>2. wal' \in [Family -> SUBSET Writes] /\ sst' \in [Family -> SUBSET Writes]
    BY <2>1, ReplayedType DEF CreateColumnFamily
  <2>3. op' \in Record /\ buffer' \in Seq(Record)
    BY <2>1, RecType DEF CreateColumnFamily, LogCreateColumnFamily, WriteRecord, TypeOK
  <2>4. nextId' \in 1 .. MaxId + 1
    BY DEF CreateColumnFamily, TypeOK
  <2> QED
    BY <2>2, <2>3, <2>4 DEF CreateColumnFamily, TypeOK
<1>6. CASE CreateFails
  BY <1>6 DEF CreateFails, TypeOK
<1>7. CASE \E f \in Family : DropColumnFamily(f)
  <2> PICK f \in Family : DropColumnFamily(f)
    BY <1>7
  <2>1. op' \in Record /\ buffer' \in Seq(Record)
    BY RecType DEF DropColumnFamily, LogDropColumnFamily, WriteRecord, TypeOK
  <2> QED
    BY <2>1 DEF DropColumnFamily, TypeOK
<1>8. CASE SyncManifest
  <2>1. manifest' \in Seq(Record) /\ buffer' = <<>>
    BY <1>8 DEF SyncManifest, TypeOK
  <2> QED
    BY <1>8, <2>1 DEF SyncManifest, TypeOK
<1>9. CASE Finish
  <2>1. op.of \in Family
    BY <1>9 DEF Finish, TypeOK, Record
  <2> QED
    BY <1>9, <2>1 DEF Finish, TypeOK
<1>10. CASE \E f \in Family, w \in Writes : Commit(f, w)
  <2> PICK f \in Family, w \in Writes : Commit(f, w)
    BY <1>10
  <2>1. f.name \in Names
    BY DEF Family
  <2> QED
    BY <2>1 DEF Commit, TypeOK, Dir
<1>11. CASE \E f \in Family : Flush(f)
  BY <1>11 DEF Flush, TypeOK, Dir
<1>12. CASE Close
  BY <1>12 DEF Close, TypeOK
<1>13. CASE \E f \in Family : SyncFamily(f)
  BY <1>13 DEF SyncFamily, TypeOK, Dir
<1>14. CASE SyncFails \/ SyncEnds
  BY <1>14 DEF SyncFails, SyncEnds, TypeOK
<1>15. CASE \E f \in Family : ShutdownFamily(f)
  BY <1>15 DEF ShutdownFamily, TypeOK
<1>16. CASE ShutdownEnds \/ PersistFails
  BY <1>16 DEF ShutdownEnds, PersistFails, TypeOK
<1>17. CASE \E f \in Family : TruncateLogs(f)
  BY <1>17 DEF TruncateLogs, TypeOK, Dir
<1>18. CASE Closed
  <2>1. families' \subseteq Family /\ todo' \subseteq Family /\ inactive' \subseteq Family
    BY <1>18 DEF Closed, Gone
  <2>2. op' \in Record \cup {Nothing} /\ buffer' \in Seq(Record) /\ buffer' = <<>>
    BY <1>18, NoRecords DEF Closed, Gone
  <2>3. nextId' \in 1 .. MaxId + 1 /\ initialized' = FALSE /\ synced' = TRUE
    BY <1>18 DEF Closed, Gone
  <2>4. /\ UNCHANGED <<manifest, wal, sst, clean, acked, doubted, by, owed, refusal, opens,
                        crashes>>
        /\ phase' = "down" /\ recovering' = FALSE
    BY <1>18 DEF Closed, Gone
  <2> QED
    BY <2>1, <2>2, <2>3, <2>4 DEF TypeOK
<1>19. CASE Crash
  <2>1. manifest' \in Seq(Record)
    <3>1. CASE manifest' \in {manifest, manifest \o buffer}
      <4>1. manifest \o buffer \in Seq(Record)
        BY DEF TypeOK
      <4> QED
        BY <3>1, <4>1 DEF TypeOK
    <3>2. CASE \E i \in DOMAIN buffer, n \in 1 .. 2 :
                  manifest' = Append(manifest, TornRec(buffer[i].of, n))
      <4> PICK i \in DOMAIN buffer, n \in 1 .. 2 :
                  manifest' = Append(manifest, TornRec(buffer[i].of, n))
        BY <3>2
      <4>1. buffer[i] \in Record
        BY DEF TypeOK
      <4>2. buffer[i].of \in Family
        BY <4>1 DEF Record
      <4> QED
        BY <4>2, RecType DEF TypeOK
    <3> QED
      BY <1>19, <3>1, <3>2 DEF Crash
  <2>2. doubted' \subseteq Family
    BY <1>19 DEF Crash, TypeOK, Record
  <2>3. families' \subseteq Family /\ todo' \subseteq Family /\ inactive' \subseteq Family
    BY <1>19 DEF Crash, Gone
  <2>4. op' \in Record \cup {Nothing} /\ buffer' \in Seq(Record) /\ buffer' = <<>>
    BY <1>19, NoRecords DEF Crash, Gone
  <2>5. /\ nextId' = 1 /\ initialized' = FALSE /\ synced' = TRUE /\ phase' = "down"
        /\ crashes' = crashes + 1 /\ crashes < MaxCrashes
    BY <1>19 DEF Crash, Gone
  <2>6. UNCHANGED <<wal, sst, clean, recovering, acked, by, owed, refusal, opens>>
    BY <1>19 DEF Crash, Gone
  <2>7. nextId' \in 1 .. MaxId + 1 /\ crashes' \in 0 .. MaxCrashes
    BY <2>5 DEF TypeOK
  <2> QED
    BY <2>1, <2>2, <2>3, <2>4, <2>5, <2>6, <2>7 DEF TypeOK
<1>20. CASE UNCHANGED vars
  BY <1>20 DEF vars, TypeOK
<1>21. CASE CheckRecoveryNeeded \/ FinishLSMTreeRecovery
  BY <1>21 DEF CheckRecoveryNeeded, FinishLSMTreeRecovery, TypeOK
<1>22. CASE InitializeRecoveryEnvironment \/ CleanupRecoveryState
  BY <1>22 DEF InitializeRecoveryEnvironment, CleanupRecoveryState, TypeOK
<1>23. CASE OpenManifest
  BY <1>23 DEF OpenManifest, TypeOK
<1>24. CASE CreateCleanShutdownMarker
  BY <1>24 DEF CreateCleanShutdownMarker, TypeOK
<1>25. CASE ReadManifest
  <2>1. todo' \subseteq Family
    BY <1>25, DescribedType DEF ReadManifest, TypeOK, Default, Family
  <2> QED
    BY <1>25, <2>1 DEF ReadManifest, TypeOK
<1> QED
  BY <1>1, <1>2, <1>3, <1>4, <1>5, <1>6, <1>7, <1>8, <1>9, <1>10, <1>11, <1>12, <1>13,
     <1>14, <1>15, <1>16, <1>17, <1>18, <1>19, <1>20, <1>21, <1>22, <1>23, <1>24, <1>25
     DEF Next, Refusing

(***************************************************************************)
(* Every variable keeps its type, for any names, writes and bounds.        *)
(***************************************************************************)
THEOREM TypeCorrect == Spec => []TypeOK
<1> QED
  BY TypeInit, TypeStep, PTL DEF Spec

-----------------------------------------------------------------------------
(***************************************************************************)
(* OwedSurvives is not inductive.  What TruncateLogs deletes must be in    *)
(* tables already: while Close goes on and nothing has failed, of a family *)
(* that SyncAllData has passed everything owed is in tables.  A family     *)
(* that a create enters meanwhile has an empty log.                        *)
(***************************************************************************)
Closing == phase \in {"syncing", "shutting", "truncating"}

InTables(f) == owed \cap wal[f] \subseteq sst[f]

PassedInTables ==
    Closing /\ synced =>
        \A f \in families : (phase = "syncing" /\ f \in todo) \/ InTables(f)

TruncatesSynced == phase = "truncating" /\ todo # {} => synced

EnteredEmpty ==
    op # Nothing /\ op.kind = "create" => op.of \notin families /\ wal[op.of] = {}

WhenDown ==
    /\ phase = "down" => families = {}
    /\ phase \in {"down", "starting", "reading", "opening"} => op = Nothing /\ ~initialized

OwedAreCommitted == \A w \in owed : by[w] # Nothing

IInv == /\ TypeOK /\ OwedSurvives /\ PassedInTables /\ TruncatesSynced
        /\ EnteredEmpty /\ WhenDown /\ OwedAreCommitted

(* A step that lets no directory lose a write keeps what is owed.          *)
LEMMA NothingDeleted ==
    ASSUME OwedSurvives, owed' = owed,
           \A d \in Family : wal[d] \cup sst[d] \subseteq wal'[d] \cup sst'[d]
    PROVE  OwedSurvives'
BY DEF OwedSurvives

(* A step that leaves the disk alone.                                      *)
LEMMA SameDisk ==
    ASSUME OwedSurvives, UNCHANGED <<wal, sst, owed>>
    PROVE  OwedSurvives'
BY DEF OwedSurvives

(* The replay of a log.                                                    *)
LEMMA ReplayKeeps ==
    ASSUME TypeOK, NEW f \in Family, Replayed(f)
    PROVE  /\ wal'[f] = {} /\ sst'[f] = sst[f] \cup wal[f]
           /\ \A d \in Family \ {f} : wal'[d] = wal[d] /\ sst'[d] = sst[d]
BY DEF TypeOK, Replayed, Dir

(***************************************************************************)
(* The strengthened invariant is kept by every step.                       *)
(***************************************************************************)
LEMMA OwedStep == IInv /\ [Next]_vars => IInv'
<1> SUFFICES ASSUME IInv, [Next]_vars PROVE IInv'
    OBVIOUS
<1> TypeOK /\ TypeOK'
  BY TypeStep DEF IInv
<1> OwedSurvives /\ OwedAreCommitted /\ WhenDown /\ EnteredEmpty
  BY DEF IInv
<1> USE NothingAssumption DEF disk, data, markers, process, history
<1>1. CASE Open
  <2>1. UNCHANGED <<wal, sst, owed, by>>
    BY <1>1 DEF Open
  <2>2. OwedSurvives' /\ OwedAreCommitted'
    BY <2>1, SameDisk DEF OwedAreCommitted
  <2>3. PassedInTables' /\ TruncatesSynced'
    BY <1>1, <2>1
       DEF Open, IInv, PassedInTables, TruncatesSynced, InTables, Closing, WhenDown
  <2>4. EnteredEmpty' /\ WhenDown'
    BY <1>1, <2>1 DEF Open, EnteredEmpty, WhenDown
  <2> QED
    BY <2>2, <2>3, <2>4 DEF IInv
<1>2. CASE Refusing
  <2> PICK r \in {"unreadable", "failed", "invalid"} : Refused(r)
    BY <1>2, RefusingIsRefused
  <2>1. UNCHANGED <<wal, sst, owed, by>>
    BY DEF Refused
  <2>2. OwedSurvives' /\ OwedAreCommitted'
    BY <2>1, SameDisk DEF OwedAreCommitted
  <2>3. PassedInTables' /\ TruncatesSynced'
    BY <2>1 DEF Refused, IInv, PassedInTables, TruncatesSynced, InTables, Closing, WhenDown
  <2>4. EnteredEmpty' /\ WhenDown'
    BY <2>1 DEF Refused, EnteredEmpty, WhenDown
  <2> QED
    BY <2>2, <2>3, <2>4 DEF IInv
<1>3. CASE Validate
  <2>1. UNCHANGED <<wal, sst, owed, by>>
    BY <1>3 DEF Validate
  <2>2. OwedSurvives' /\ OwedAreCommitted'
    BY <2>1, SameDisk DEF OwedAreCommitted
  <2>3. PassedInTables' /\ TruncatesSynced'
    BY <1>3, <2>1
       DEF Validate, IInv, PassedInTables, TruncatesSynced, InTables, Closing, WhenDown
  <2>4. EnteredEmpty' /\ WhenDown'
    BY <1>3, <2>1 DEF Validate, EnteredEmpty, WhenDown
  <2> QED
    BY <2>2, <2>3, <2>4 DEF IInv
<1>4. CASE CreateFails
  <2>1. UNCHANGED <<wal, sst, owed, by>>
    BY <1>4 DEF CreateFails
  <2>2. OwedSurvives' /\ OwedAreCommitted'
    BY <2>1, SameDisk DEF OwedAreCommitted
  <2>3. PassedInTables' /\ TruncatesSynced'
    BY <1>4, <2>1
       DEF CreateFails, IInv, PassedInTables, TruncatesSynced, InTables, Closing, WhenDown
  <2>4. EnteredEmpty' /\ WhenDown'
    BY <1>4, <2>1 DEF CreateFails, EnteredEmpty, WhenDown
  <2> QED
    BY <2>2, <2>3, <2>4 DEF IInv
<1>5. CASE \E f \in Family : DropColumnFamily(f)
  <2>1. UNCHANGED <<wal, sst, owed, by>>
    BY <1>5 DEF DropColumnFamily
  <2>2. OwedSurvives' /\ OwedAreCommitted'
    BY <2>1, SameDisk DEF OwedAreCommitted
  <2>3. PassedInTables' /\ TruncatesSynced'
    BY <1>5, <2>1
       DEF DropColumnFamily, IInv, PassedInTables, TruncatesSynced, InTables, Closing,
           WhenDown
  <2>4. EnteredEmpty' /\ WhenDown'
    BY <1>5, <2>1 DEF DropColumnFamily, InUse, Rec, EnteredEmpty, WhenDown
  <2> QED
    BY <2>2, <2>3, <2>4 DEF IInv
<1>6. CASE SyncManifest
  <2>1. UNCHANGED <<wal, sst, owed, by>>
    BY <1>6 DEF SyncManifest
  <2>2. OwedSurvives' /\ OwedAreCommitted'
    BY <2>1, SameDisk DEF OwedAreCommitted
  <2>3. PassedInTables' /\ TruncatesSynced'
    BY <1>6, <2>1
       DEF SyncManifest, IInv, PassedInTables, TruncatesSynced, InTables, Closing,
           WhenDown
  <2>4. EnteredEmpty' /\ WhenDown'
    BY <1>6, <2>1 DEF SyncManifest, EnteredEmpty, WhenDown
  <2> QED
    BY <2>2, <2>3, <2>4 DEF IInv
<1>7. CASE Close
  <2>1. UNCHANGED <<wal, sst, owed, by>>
    BY <1>7 DEF Close
  <2>2. OwedSurvives' /\ OwedAreCommitted'
    BY <2>1, SameDisk DEF OwedAreCommitted
  <2>3. PassedInTables' /\ TruncatesSynced'
    BY <1>7, <2>1
       DEF Close, IInv, PassedInTables, TruncatesSynced, InTables, Closing, WhenDown
  <2>4. EnteredEmpty' /\ WhenDown'
    BY <1>7, <2>1 DEF Close, EnteredEmpty, WhenDown
  <2> QED
    BY <2>2, <2>3, <2>4 DEF IInv
<1>8. CASE SyncFails \/ SyncEnds
  <2>1. UNCHANGED <<wal, sst, owed, by>>
    BY <1>8 DEF SyncFails, SyncEnds
  <2>2. OwedSurvives' /\ OwedAreCommitted'
    BY <2>1, SameDisk DEF OwedAreCommitted
  <2>3. PassedInTables' /\ TruncatesSynced'
    BY <1>8, <2>1
       DEF SyncFails, SyncEnds, IInv, PassedInTables, TruncatesSynced, InTables, Closing,
           WhenDown
  <2>4. EnteredEmpty' /\ WhenDown'
    BY <1>8, <2>1 DEF SyncFails, SyncEnds, EnteredEmpty, WhenDown
  <2> QED
    BY <2>2, <2>3, <2>4 DEF IInv
<1>9. CASE \E f \in Family : ShutdownFamily(f)
  <2>1. UNCHANGED <<wal, sst, owed, by>>
    BY <1>9 DEF ShutdownFamily
  <2>2. OwedSurvives' /\ OwedAreCommitted'
    BY <2>1, SameDisk DEF OwedAreCommitted
  <2>3. PassedInTables' /\ TruncatesSynced'
    BY <1>9, <2>1
       DEF ShutdownFamily, IInv, PassedInTables, TruncatesSynced, InTables, Closing,
           WhenDown
  <2>4. EnteredEmpty' /\ WhenDown'
    BY <1>9, <2>1 DEF ShutdownFamily, EnteredEmpty, WhenDown
  <2> QED
    BY <2>2, <2>3, <2>4 DEF IInv
<1>10. CASE ShutdownEnds \/ PersistFails
  <2>1. UNCHANGED <<wal, sst, owed, by>>
    BY <1>10 DEF ShutdownEnds, PersistFails
  <2>2. OwedSurvives' /\ OwedAreCommitted'
    BY <2>1, SameDisk DEF OwedAreCommitted
  <2>3. PassedInTables' /\ TruncatesSynced'
    BY <1>10, <2>1
       DEF ShutdownEnds, PersistFails, IInv, PassedInTables, TruncatesSynced, InTables,
           Closing, WhenDown
  <2>4. EnteredEmpty' /\ WhenDown'
    BY <1>10, <2>1 DEF ShutdownEnds, PersistFails, EnteredEmpty, WhenDown
  <2> QED
    BY <2>2, <2>3, <2>4 DEF IInv
<1>11. CASE Closed
  <2>1. UNCHANGED <<wal, sst, owed, by>>
    BY <1>11 DEF Closed, Gone
  <2>2. OwedSurvives' /\ OwedAreCommitted'
    BY <2>1, SameDisk DEF OwedAreCommitted
  <2>3. PassedInTables' /\ TruncatesSynced'
    BY <1>11, <2>1
       DEF Closed, Gone, IInv, PassedInTables, TruncatesSynced, InTables, Closing,
           WhenDown
  <2>4. EnteredEmpty' /\ WhenDown'
    BY <1>11, <2>1 DEF Closed, Gone, EnteredEmpty, WhenDown
  <2> QED
    BY <2>2, <2>3, <2>4 DEF IInv
<1>12. CASE Crash
  <2>1. UNCHANGED <<wal, sst, owed, by>>
    BY <1>12 DEF Crash, Gone
  <2>2. OwedSurvives' /\ OwedAreCommitted'
    BY <2>1, SameDisk DEF OwedAreCommitted
  <2>3. PassedInTables' /\ TruncatesSynced'
    BY <1>12, <2>1
       DEF Crash, Gone, IInv, PassedInTables, TruncatesSynced, InTables, Closing, WhenDown
  <2>4. EnteredEmpty' /\ WhenDown'
    BY <1>12, <2>1 DEF Crash, Gone, EnteredEmpty, WhenDown
  <2> QED
    BY <2>2, <2>3, <2>4 DEF IInv
<1>13. CASE Finish
  <2>1. UNCHANGED <<wal, sst, owed, by, phase, synced, todo>>
    BY <1>13 DEF Finish
  <2>2. OwedSurvives' /\ OwedAreCommitted'
    BY <2>1, SameDisk DEF OwedAreCommitted
  <2>3. PassedInTables'
    <3>1. op.kind = "create" => InTables(op.of)
      BY <1>13 DEF Finish, EnteredEmpty, InTables
    <3> QED
      BY <1>13, <2>1, <3>1 DEF Finish, IInv, PassedInTables, InTables, Closing
  <2>4. TruncatesSynced' /\ EnteredEmpty' /\ WhenDown'
    BY <1>13, <2>1 DEF Finish, IInv, TruncatesSynced, EnteredEmpty, WhenDown
  <2> QED
    BY <2>2, <2>3, <2>4 DEF IInv
<1>14. CASE \E f \in Family : BuildFamily(f)
  <2> PICK f \in Family : BuildFamily(f)
    BY <1>14
  <2>1. /\ wal'[f] = {} /\ sst'[f] = sst[f] \cup wal[f]
        /\ \A d \in Family \ {f} : wal'[d] = wal[d] /\ sst'[d] = sst[d]
    BY ReplayKeeps DEF BuildFamily
  <2>2. OwedSurvives'
    BY <2>1, NothingDeleted DEF BuildFamily
  <2>3. PassedInTables' /\ TruncatesSynced' /\ EnteredEmpty' /\ WhenDown' /\ OwedAreCommitted'
    BY DEF BuildFamily, PassedInTables, TruncatesSynced, Closing, EnteredEmpty, WhenDown,
           OwedAreCommitted
  <2> QED
    BY <2>2, <2>3 DEF IInv
<1>15. CASE \E n \in Names : CreateColumnFamily(n)
  <2> PICK n \in Names : CreateColumnFamily(n)
    BY <1>15
  <2> DEFINE f == [id |-> nextId, name |-> n]
  <2>1. f \in Family
    BY NewFamily DEF CreateColumnFamily
  <2>2. Replayed(f) /\ op' = Rec("create", f) /\ f \notin families
    BY DEF CreateColumnFamily
  <2> HIDE DEF f
  <2>3. /\ wal'[f] = {} /\ sst'[f] = sst[f] \cup wal[f]
        /\ \A d \in Family \ {f} : wal'[d] = wal[d] /\ sst'[d] = sst[d]
    BY <2>1, <2>2, ReplayKeeps
  <2>4. UNCHANGED <<phase, families, initialized, todo, synced, owed, by>> /\ initialized
    BY DEF CreateColumnFamily, InUse
  <2>5. OwedSurvives' /\ OwedAreCommitted'
    BY <2>1, <2>3, <2>4, NothingDeleted DEF OwedAreCommitted
  <2>6. \A d \in Family : InTables(d) => InTables(d)'
    BY <2>1, <2>3, <2>4 DEF InTables
  <2>7. PassedInTables' /\ TruncatesSynced'
    BY <2>4, <2>6 DEF IInv, PassedInTables, TruncatesSynced, Closing, TypeOK
  <2>8. EnteredEmpty' /\ WhenDown'
    BY <2>2, <2>3, <2>4 DEF EnteredEmpty, WhenDown, Rec
  <2> QED
    BY <2>5, <2>7, <2>8 DEF IInv
<1>16. CASE \E f \in Family, w \in Writes : Commit(f, w)
  <2> PICK f \in Family, w \in Writes : Commit(f, w)
    BY <1>16
  <2>1. /\ wal'[f] = wal[f] \cup {w} /\ sst' = sst
        /\ \A d \in Family \ {f} : wal'[d] = wal[d]
    BY DEF Commit, Dir, TypeOK
  <2>2. w \notin owed /\ f.name # Nothing
    BY DEF Commit, OwedAreCommitted, Family
  <2>3. OwedAreCommitted'
    BY <2>2 DEF Commit, OwedAreCommitted, TypeOK
  <2>4. OwedSurvives'
    <3> SUFFICES ASSUME NEW v \in owed' PROVE \E d \in Family : v \in wal'[d] \cup sst'[d]
      BY DEF OwedSurvives
    <3>1. CASE v = w
      BY <2>1, <3>1
    <3>2. CASE v # w
      <4>1. v \in owed
        BY <3>2 DEF Commit
      <4>2. PICK d \in Family : v \in wal[d] \cup sst[d]
        BY <4>1 DEF OwedSurvives
      <4> QED
        BY <2>1, <4>2
    <3> QED
      BY <3>1, <3>2
  <2>5. PassedInTables'
    <3>1. CASE phase = "up"
      BY <3>1 DEF Commit, PassedInTables, Closing
    <3>2. CASE phase # "up"
      <4>1. owed' = owed
        BY <3>2 DEF Commit
      <4>2. \A d \in Family : InTables(d) => InTables(d)'
        BY <2>1, <2>2, <4>1 DEF InTables
      <4> QED
        BY <4>1, <4>2 DEF Commit, IInv, PassedInTables, Closing, TypeOK
    <3> QED
      BY <3>1, <3>2
  <2>6. TruncatesSynced' /\ WhenDown'
    BY DEF Commit, IInv, TruncatesSynced, WhenDown
  <2>7. EnteredEmpty'
    <3>1. op # Nothing => op.of \in Family
      BY DEF TypeOK, Record
    <3> QED
      BY <2>1, <3>1 DEF Commit, EnteredEmpty
  <2> QED
    BY <2>3, <2>4, <2>5, <2>6, <2>7 DEF IInv
<1>17. CASE \E f \in Family : Flush(f)
  <2> PICK f \in Family : Flush(f)
    BY <1>17
  <2>1. wal' = wal /\ \A d \in Family : sst[d] \subseteq sst'[d]
    BY DEF Flush, Dir, TypeOK
  <2>2. OwedSurvives'
    BY <2>1, NothingDeleted DEF Flush
  <2>3. PassedInTables' /\ TruncatesSynced' /\ EnteredEmpty' /\ WhenDown' /\ OwedAreCommitted'
    BY DEF Flush, PassedInTables, TruncatesSynced, Closing, EnteredEmpty, WhenDown,
           OwedAreCommitted
  <2> QED
    BY <2>2, <2>3 DEF IInv
<1>18. CASE \E f \in Family : SyncFamily(f)
  <2> PICK f \in Family : SyncFamily(f)
    BY <1>18
  <2>1. /\ wal' = wal /\ \A d \in Family : sst[d] \subseteq sst'[d]
        /\ f \in families => sst'[f] = sst[f] \cup wal[f]
    BY DEF SyncFamily, Dir, TypeOK
  <2>2. OwedSurvives'
    BY <2>1, NothingDeleted DEF SyncFamily
  <2>3. \A d \in Family : InTables(d) => InTables(d)'
    BY <2>1 DEF SyncFamily, InTables
  <2>4. f \in families => InTables(f)'
    BY <2>1 DEF SyncFamily, InTables
  <2>5. PassedInTables'
    BY <2>3, <2>4 DEF SyncFamily, IInv, PassedInTables, Closing, TypeOK
  <2>6. TruncatesSynced' /\ EnteredEmpty' /\ WhenDown' /\ OwedAreCommitted'
    BY DEF SyncFamily, TruncatesSynced, EnteredEmpty, WhenDown, OwedAreCommitted
  <2> QED
    BY <2>2, <2>5, <2>6 DEF IInv
<1>19. CASE \E f \in Family : TruncateLogs(f)
  <2> PICK f \in Family : TruncateLogs(f)
    BY <1>19
  <2>1. f \in families => InTables(f)
    BY DEF TruncateLogs, IInv, TruncatesSynced, PassedInTables, Closing
  <2>2. /\ sst' = sst
        /\ f \in families => wal'[f] = {}
        /\ f \notin families => wal'[f] = wal[f]
        /\ \A d \in Family \ {f} : wal'[d] = wal[d]
    BY DEF TruncateLogs, Dir, TypeOK
  <2>3. OwedSurvives'
    <3> SUFFICES ASSUME NEW w \in owed PROVE \E d \in Family : w \in wal'[d] \cup sst'[d]
      BY DEF OwedSurvives, TruncateLogs
    <3>1. PICK d \in Family : w \in wal[d] \cup sst[d]
      BY DEF OwedSurvives
    <3> QED
      BY <2>1, <2>2, <3>1 DEF InTables
  <2>4. \A d \in Family : InTables(d) => InTables(d)'
    BY <2>2 DEF TruncateLogs, InTables
  <2>5. PassedInTables'
    BY <2>4 DEF TruncateLogs, IInv, PassedInTables, Closing, TypeOK
  <2>6. TruncatesSynced' /\ WhenDown' /\ OwedAreCommitted'
    BY DEF TruncateLogs, IInv, TruncatesSynced, WhenDown, OwedAreCommitted
  <2>7. EnteredEmpty'
    <3>1. op # Nothing => op.of \in Family
      BY DEF TypeOK, Record
    <3> QED
      BY <2>2, <3>1 DEF TruncateLogs, EnteredEmpty
  <2> QED
    BY <2>3, <2>5, <2>6, <2>7 DEF IInv
<1>20. CASE UNCHANGED vars
  <2>1. UNCHANGED <<wal, sst, owed>>
    BY <1>20 DEF vars
  <2>2. OwedSurvives'
    BY <2>1, SameDisk
  <2>3. PassedInTables' /\ TruncatesSynced' /\ EnteredEmpty' /\ WhenDown' /\ OwedAreCommitted'
    BY <1>20
       DEF vars, IInv, PassedInTables, InTables, TruncatesSynced, Closing, EnteredEmpty,
              WhenDown, OwedAreCommitted
  <2> QED
    BY <2>2, <2>3 DEF IInv
<1>21. CASE CheckRecoveryNeeded \/ FinishLSMTreeRecovery
  <2>1. UNCHANGED <<wal, sst, owed, by>>
    BY <1>21 DEF CheckRecoveryNeeded, FinishLSMTreeRecovery
  <2>2. OwedSurvives' /\ OwedAreCommitted'
    BY <2>1, SameDisk DEF OwedAreCommitted
  <2>3. PassedInTables' /\ TruncatesSynced'
    BY <1>21, <2>1 DEF CheckRecoveryNeeded, FinishLSMTreeRecovery, IInv,
       PassedInTables, TruncatesSynced, InTables, Closing, WhenDown
  <2>4. EnteredEmpty' /\ WhenDown'
    BY <1>21, <2>1 DEF CheckRecoveryNeeded, FinishLSMTreeRecovery, EnteredEmpty, WhenDown
  <2> QED
    BY <2>2, <2>3, <2>4 DEF IInv
<1>22. CASE InitializeRecoveryEnvironment \/ CleanupRecoveryState
  <2>1. UNCHANGED <<wal, sst, owed, by>>
    BY <1>22 DEF InitializeRecoveryEnvironment, CleanupRecoveryState
  <2>2. OwedSurvives' /\ OwedAreCommitted'
    BY <2>1, SameDisk DEF OwedAreCommitted
  <2>3. PassedInTables' /\ TruncatesSynced'
    BY <1>22, <2>1 DEF InitializeRecoveryEnvironment, CleanupRecoveryState, IInv,
       PassedInTables, TruncatesSynced, InTables, Closing, WhenDown
  <2>4. EnteredEmpty' /\ WhenDown'
    BY <1>22, <2>1
       DEF InitializeRecoveryEnvironment, CleanupRecoveryState, EnteredEmpty, WhenDown
  <2> QED
    BY <2>2, <2>3, <2>4 DEF IInv
<1>23. CASE OpenManifest
  <2>1. UNCHANGED <<wal, sst, owed, by>>
    BY <1>23 DEF OpenManifest
  <2>2. OwedSurvives' /\ OwedAreCommitted'
    BY <2>1, SameDisk DEF OwedAreCommitted
  <2>3. PassedInTables' /\ TruncatesSynced'
    BY <1>23, <2>1 DEF OpenManifest, IInv,
       PassedInTables, TruncatesSynced, InTables, Closing, WhenDown
  <2>4. EnteredEmpty' /\ WhenDown'
    BY <1>23, <2>1 DEF OpenManifest, EnteredEmpty, WhenDown
  <2> QED
    BY <2>2, <2>3, <2>4 DEF IInv
<1>24. CASE CreateCleanShutdownMarker
  <2>1. UNCHANGED <<wal, sst, owed, by>>
    BY <1>24 DEF CreateCleanShutdownMarker
  <2>2. OwedSurvives' /\ OwedAreCommitted'
    BY <2>1, SameDisk DEF OwedAreCommitted
  <2>3. PassedInTables' /\ TruncatesSynced'
    BY <1>24, <2>1 DEF CreateCleanShutdownMarker, IInv,
       PassedInTables, TruncatesSynced, InTables, Closing, WhenDown
  <2>4. EnteredEmpty' /\ WhenDown'
    BY <1>24, <2>1 DEF CreateCleanShutdownMarker, EnteredEmpty, WhenDown
  <2> QED
    BY <2>2, <2>3, <2>4 DEF IInv
<1>25. CASE ReadManifest
  <2>1. UNCHANGED <<wal, sst, owed, by>>
    BY <1>25 DEF ReadManifest
  <2>2. OwedSurvives' /\ OwedAreCommitted'
    BY <2>1, SameDisk DEF OwedAreCommitted
  <2>3. PassedInTables' /\ TruncatesSynced'
    BY <1>25, <2>1 DEF ReadManifest, IInv,
       PassedInTables, TruncatesSynced, InTables, Closing, WhenDown
  <2>4. EnteredEmpty' /\ WhenDown'
    BY <1>25, <2>1 DEF ReadManifest, EnteredEmpty, WhenDown
  <2> QED
    BY <2>2, <2>3, <2>4 DEF IInv
<1> QED
  BY <1>1, <1>2, <1>3, <1>4, <1>5, <1>6, <1>7, <1>8, <1>9, <1>10, <1>11, <1>12, <1>13,
     <1>14, <1>15, <1>16, <1>17, <1>18, <1>19, <1>20, <1>21, <1>22, <1>23, <1>24, <1>25
     DEF Next, Refusing

LEMMA OwedInit == Init => IInv
<1>1. Init => TypeOK
  BY TypeInit
<1> QED
  BY <1>1 DEF Init, IInv, OwedSurvives, PassedInTables, TruncatesSynced, Closing,
              EnteredEmpty, WhenDown, OwedAreCommitted

(***************************************************************************)
(* What was committed before Close was called is in the log or in a table, *)
(* for any number of families, writes, failures and crashes                *)
(* (DBImpl::Close, SyncAllData, TruncateLogs).                             *)
(***************************************************************************)
THEOREM OwedIsKept == Spec => []OwedSurvives
<1>1. IInv => OwedSurvives
  BY DEF IInv
<1> QED
  BY <1>1, OwedInit, OwedStep, PTL DEF Spec

-----------------------------------------------------------------------------
(***************************************************************************)
(* OwnData speaks of open families; inductive is that every directory, of  *)
(* a dropped family, too, holds only what was committed under its name.    *)
(***************************************************************************)
OwnDirectories == \A d \in Family : \A w \in wal[d] \cup sst[d] : by[w] = d.name

(* A step that commits nothing and puts nothing from one directory into    *)
(* another.                                                                *)
LEMMA NothingMoved ==
    ASSUME OwnDirectories, by' = by,
           \A d \in Family : wal'[d] \cup sst'[d] \subseteq wal[d] \cup sst[d]
    PROVE  OwnDirectories'
BY DEF OwnDirectories

LEMMA OwnStep == TypeOK /\ OwnDirectories /\ [Next]_vars => OwnDirectories'
<1> SUFFICES ASSUME TypeOK, OwnDirectories, [Next]_vars PROVE OwnDirectories'
    OBVIOUS
<1> USE DEF disk, data, markers, process, history
<1>1. CASE \E f \in Family : BuildFamily(f)
  <2> PICK f \in Family : BuildFamily(f)
    BY <1>1
  <2> QED
    BY ReplayKeeps, NothingMoved DEF BuildFamily
<1>2. CASE \E n \in Names : CreateColumnFamily(n)
  <2> PICK n \in Names : CreateColumnFamily(n)
    BY <1>2
  <2>1. PICK f \in Family : Replayed(f)
    BY NewFamily DEF CreateColumnFamily
  <2> QED
    BY <2>1, ReplayKeeps, NothingMoved DEF CreateColumnFamily
<1>3. CASE \E f \in Family, w \in Writes : Commit(f, w)
  <2> PICK f \in Family, w \in Writes : Commit(f, w)
    BY <1>3
  <2>1. /\ wal'[f] = wal[f] \cup {w} /\ sst' = sst
        /\ \A d \in Family \ {f} : wal'[d] = wal[d]
    BY DEF Commit, Dir, TypeOK
  <2>2. /\ by'[w] = f.name
        /\ \A v \in Writes \ {w} : by'[v] = by[v]
    BY DEF Commit, TypeOK
  <2>3. \A d \in Family : w \notin wal[d] \cup sst[d]
    BY NothingAssumption DEF Commit, OwnDirectories, Family
  <2>4. \A d \in Family : wal[d] \cup sst[d] \subseteq Writes
    BY DEF TypeOK
  <2> QED
    BY <2>1, <2>2, <2>3, <2>4 DEF OwnDirectories
<1>4. CASE \E f \in Family : Flush(f)
  <2>1. wal' = wal /\ \A d \in Family : sst'[d] \subseteq wal[d] \cup sst[d]
    BY <1>4 DEF Flush, Dir, TypeOK
  <2> QED
    BY <1>4, <2>1, NothingMoved DEF Flush
<1>5. CASE \E f \in Family : SyncFamily(f)
  <2>1. wal' = wal /\ \A d \in Family : sst'[d] \subseteq wal[d] \cup sst[d]
    BY <1>5 DEF SyncFamily, Dir, TypeOK
  <2> QED
    BY <1>5, <2>1, NothingMoved DEF SyncFamily
<1>6. CASE \E f \in Family : TruncateLogs(f)
  <2>1. sst' = sst /\ \A d \in Family : wal'[d] \subseteq wal[d]
    BY <1>6 DEF TruncateLogs, Dir, TypeOK
  <2> QED
    BY <1>6, <2>1, NothingMoved DEF TruncateLogs
<1>7. CASE UNCHANGED <<wal, sst, by>>
  BY <1>7, NothingMoved
<1>8. UNCHANGED <<wal, sst, by>> \/ ~( \/ Open \/ OpenManifest \/ ReadManifest \/ Refusing
         \/ Validate \/ CreateFails \/ SyncManifest \/ Finish \/ Close \/ SyncFails
         \/ SyncEnds \/ ShutdownEnds \/ PersistFails
         \/ Closed \/ Crash \/ UNCHANGED vars
         \/ CheckRecoveryNeeded \/ InitializeRecoveryEnvironment \/ CleanupRecoveryState
         \/ FinishLSMTreeRecovery \/ CreateCleanShutdownMarker
         \/ \E f \in Family : DropColumnFamily(f) \/ ShutdownFamily(f))
  BY RefusingIsRefused DEF Refused, Open, OpenManifest, ReadManifest, Validate,
         CreateFails, SyncManifest, Finish, Close, SyncFails, SyncEnds, ShutdownEnds,
         PersistFails, Closed, Crash, Gone, DropColumnFamily, ShutdownFamily, vars,
         CheckRecoveryNeeded, InitializeRecoveryEnvironment, CleanupRecoveryState,
         FinishLSMTreeRecovery, CreateCleanShutdownMarker
<1> QED
  BY <1>1, <1>2, <1>3, <1>4, <1>5, <1>6, <1>7, <1>8 DEF Next, Refusing

(***************************************************************************)
(* An open family holds only what was committed under its name, however    *)
(* often numbers are used again (CreateColumnFamily, DropColumnFamily).    *)
(***************************************************************************)
THEOREM OwnDataIsKept == Spec => []OwnData
<1>1. Init => OwnDirectories
  BY DEF Init, OwnDirectories
<1>2. TypeOK /\ OwnDirectories => OwnData
  BY DEF TypeOK, OwnDirectories, OwnData, Dir
<1> QED
  BY <1>1, <1>2, TypeInit, TypeStep, OwnStep, PTL DEF Spec

-----------------------------------------------------------------------------
(***************************************************************************)
(* What a record does to the families the MANIFEST tells of                *)
(* (LogCreateColumnFamily, LogDropColumnFamily, RecoverFromManifestFile).  *)
(***************************************************************************)
LEMMA DescribedMeans ==
    ASSUME manifest \in Seq(Record)
    PROVE  \A g : g \in Described <=>
              \E i \in DOMAIN manifest :
                /\ manifest[i].kind = "create" /\ manifest[i].of = g
                /\ \A j \in DOMAIN manifest :
                      j > i /\ manifest[j].kind # "torn" => manifest[j].of.id # g.id
BY DEF Described

LEMMA RecordTells ==
    ASSUME manifest \in Seq(Record), NEW r \in Record, manifest' = Append(manifest, r)
    PROVE  /\ r.kind = "torn" => Described' = Described
           /\ r.kind = "drop" => Described' = {g \in Described : g.id # r.of.id}
           /\ r.kind = "create" =>
                Described' = {g \in Described : g.id # r.of.id} \cup {r.of}
<1> DEFINE n == Len(manifest)
           Tells(m, g, i) == /\ m[i].kind = "create" /\ m[i].of = g
                             /\ \A j \in DOMAIN m :
                                   j > i /\ m[j].kind # "torn" => m[j].of.id # g.id
<1>1. /\ n \in Nat /\ DOMAIN manifest = 1 .. n /\ DOMAIN manifest' = 1 .. n + 1
      /\ manifest'[n + 1] = r /\ \A i \in 1 .. n : manifest'[i] = manifest[i]
      /\ manifest' \in Seq(Record)
  OBVIOUS
<1>2. \A g : g \in Described <=> \E i \in 1 .. n : Tells(manifest, g, i)
  BY <1>1, DescribedMeans
<1>3. \A g : g \in Described' <=> \E i \in 1 .. n + 1 : Tells(manifest', g, i)
  BY <1>1 DEF Described
<1> HIDE DEF n
<1>4. \A g : \A i \in 1 .. n :
         Tells(manifest', g, i) <=> /\ Tells(manifest, g, i)
                                    /\ r.kind # "torn" => r.of.id # g.id
  BY <1>1
<1>5. \A g : Tells(manifest', g, n + 1) <=> r.kind = "create" /\ r.of = g
  BY <1>1
<1>6. 1 .. n + 1 = 1 .. n \cup {n + 1}
  BY <1>1
<1> HIDE DEF Tells
<1>7. \A g : g \in Described' <=> \/ g \in Described /\ (r.kind # "torn" => r.of.id # g.id)
                                  \/ r.kind = "create" /\ r.of = g
  BY <1>2, <1>3, <1>4, <1>5, <1>6
<1> QED
  BY <1>7

(***************************************************************************)
(* ManifestTells speaks of the disk, inductive is what the disk has to do  *)
(* with the process.  From the end of an opening that was not refused on,  *)
(* the MANIFEST tells of the open families without the default one, and    *)
(* of the one that is being created or dropped as soon as its record is    *)
(* synced; a number that is given out is above those of all open families. *)
(***************************************************************************)
Serving ==
    /\ phase \in {"checking", "marking", "validating", "finishing",
                  "up", "syncing", "shutting", "truncating", "closing"}
    /\ refusal = "none"

ServedWithOp ==
    IF op = Nothing \/ buffer # <<>> THEN families \ {Default}
    ELSE IF op.kind = "create" THEN (families \cup {op.of}) \ {Default}
         ELSE families \ {op.of, Default}

Serves ==
    Serving =>
        /\ Default \in families /\ Described = ServedWithOp
        /\ \A f \in families : f.id < nextId
        /\ \A f, g \in families : f.id = g.id \/ f.name = g.name => f = g

OpBegun ==
    op # Nothing =>
        /\ phase \in {"up", "syncing", "shutting", "truncating", "closing"} /\ refusal = "none"
        /\ op.kind # "torn" /\ (buffer = <<>> \/ buffer = <<op>>)
        /\ op.of.id # 0 /\ op.of.id < nextId /\ op.of.name # default
        /\ op.kind = "create" =>
              \A f \in families : f.id # op.of.id /\ f.name # op.of.name
        /\ op.kind = "drop" => op.of \in families

(* An opening builds the families the MANIFEST tells of.                   *)
Opening ==
    /\ phase \in {"down", "starting", "reading"} => families = {}
    /\ phase = "opening" =>
          /\ \A f \in families : f.id < nextId
          /\ families \cup todo = IF Described = {} THEN {Default} ELSE Described

(* The default family is opened without a record of its own.               *)
Recorded == \A f \in Described : f.id # 0 /\ f.name # default
NamedOnce == \A f, g \in Described : f.name = g.name => f = g

Told ==
    LET doubt == doubted \cup (IF op = Nothing THEN {} ELSE {op.of})
    IN  acked \ doubt \subseteq Described /\ Described \subseteq acked \cup doubt

ToldInv == Serves /\ OpBegun /\ Opening /\ Recorded /\ NamedOnce /\ Told

(* The MANIFEST once the record of the call under way is in it.            *)
Applied ==
    {g \in Described : g.id # op.of.id} \cup (IF op.kind = "create" THEN {op.of} ELSE {})

LEMMA AppliedIs ==
    ASSUME TypeOK, ToldInv, op # Nothing, buffer # <<>>
    PROVE  /\ op.kind = "create" => /\ Applied = Described \cup {op.of}
                                    /\ Applied = (families \cup {op.of}) \ {Default}
           /\ op.kind = "drop" => /\ Applied = Described \ {op.of}
                                  /\ Applied = families \ {op.of, Default}
           /\ op.kind \in {"create", "drop"}
           /\ \A f \in Applied : f.id # 0 /\ f.name # default
           /\ \A f, g \in Applied : f.name = g.name => f = g
<1>1. /\ Serving /\ op.kind \in {"create", "drop"} /\ op.of \in Family
      /\ op.of.id # 0 /\ op.of.name # default
      /\ op.kind = "create" => \A f \in families : f.id # op.of.id /\ f.name # op.of.name
      /\ op.kind = "drop" => op.of \in families
  BY DEF ToldInv, OpBegun, Serving, TypeOK, Record
<1>2. /\ Described = families \ {Default}
      /\ \A f, g \in families : f.id = g.id \/ f.name = g.name => f = g
  BY <1>1 DEF ToldInv, Serves, ServedWithOp
<1>3. op.of # Default
  BY <1>1 DEF Default
<1>4. op.kind = "create" => /\ Applied = Described \cup {op.of}
                            /\ Applied = (families \cup {op.of}) \ {Default}
  BY <1>1, <1>2, <1>3 DEF Applied
<1>5. op.kind = "drop" => /\ Applied = Described \ {op.of}
                          /\ Applied = families \ {op.of, Default}
  BY <1>1, <1>2, <1>3 DEF Applied
<1>6. \A f \in Applied : f.id # 0 /\ f.name # default
  BY <1>1 DEF Applied, ToldInv, Recorded
<1>7. \A f, g \in Applied : f.name = g.name => f = g
  BY <1>1, <1>2, <1>4, <1>5
<1> QED
  BY <1>1, <1>4, <1>5, <1>6, <1>7

(***************************************************************************)
(* A step that changes neither the families, nor a call under way, nor the *)
(* MANIFEST.                                                               *)
(***************************************************************************)
LEMMA ToldStays ==
    ASSUME ToldInv, UNCHANGED <<manifest, families, nextId, op, buffer, acked, doubted>>
    PROVE  /\ Described' = Described /\ Recorded' /\ NamedOnce' /\ Told'
           /\ Serving' => (Serving => Serves')
           /\ /\ refusal' = refusal
              /\ \/ phase' = phase
                 \/ phase' \in {"up", "syncing", "shutting", "truncating", "closing"}
              => OpBegun'
<1>1. Described' = Described
  BY DEF Described
<1>2. Recorded' /\ NamedOnce' /\ Told'
  BY <1>1 DEF ToldInv, Recorded, NamedOnce, Told
<1>3. Serving' => (Serving => Serves')
  BY <1>1 DEF ToldInv, Serves, ServedWithOp
<1>4. /\ refusal' = refusal
      /\ \/ phase' = phase
         \/ phase' \in {"up", "syncing", "shutting", "truncating", "closing"}
      => OpBegun'
  BY DEF ToldInv, OpBegun
<1> QED
  BY <1>1, <1>2, <1>3, <1>4

(* The steps that leave all that alone.                                    *)
Elsewhere ==
    \/ Open \/ OpenManifest \/ ReadManifest \/ Refusing \/ Validate
    \/ CheckRecoveryNeeded \/ InitializeRecoveryEnvironment \/ CleanupRecoveryState
    \/ FinishLSMTreeRecovery
    \/ Close \/ SyncFails \/ SyncEnds \/ ShutdownEnds \/ PersistFails
    \/ CreateCleanShutdownMarker
    \/ \E f \in Family : \/ Flush(f) \/ SyncFamily(f) \/ ShutdownFamily(f) \/ TruncateLogs(f)
                         \/ \E w \in Writes : Commit(f, w)
    \/ UNCHANGED vars

LEMMA ElsewhereKeeps ==
    ASSUME TypeOK, ToldInv, Elsewhere
    PROVE  ToldInv'
<1> USE DEF disk, data, markers, process, history
<1>1. CASE Open \/ OpenManifest
  <2>1. /\ UNCHANGED <<manifest, families, nextId, op, buffer, acked, doubted>>
        /\ phase' \in {"starting", "reading"} /\ phase \in {"down", "starting"}
    BY <1>1 DEF Open, OpenManifest
  <2>2. Recorded' /\ NamedOnce' /\ Told'
    BY <2>1, ToldStays
  <2>3. Serves' /\ OpBegun' /\ Opening'
    BY <2>1 DEF ToldInv, Serves, Serving, OpBegun, Opening
  <2> QED
    BY <2>2, <2>3 DEF ToldInv
<1>2. CASE ReadManifest
  <2>1. /\ UNCHANGED <<manifest, families, nextId, op, buffer, acked, doubted>>
        /\ phase' = "opening" /\ phase = "reading" /\ families = {}
        /\ todo' = IF Described = {} THEN {Default} ELSE Described
    BY <1>2 DEF ReadManifest, ToldInv, Opening
  <2>2. Recorded' /\ NamedOnce' /\ Told' /\ Described' = Described
    BY <2>1, ToldStays
  <2>3. Serves' /\ OpBegun' /\ Opening'
    BY <2>1, <2>2 DEF ToldInv, Serves, Serving, OpBegun, Opening
  <2> QED
    BY <2>2, <2>3 DEF ToldInv
<1>3. CASE Refusing
  <2>1. PICK r \in {"unreadable", "failed", "invalid"} : Refused(r)
    BY <1>3, RefusingIsRefused
  <2>2. phase \in {"starting", "reading", "opening", "checking", "marking", "validating",
                   "finishing"}
    BY <1>3 DEF Refusing, OpenManifestFails, ReadManifestFails, BuildFails, ValidateFails,
       StructureInvalid, Inconsistent, RecoveryFails
  <2>3. /\ UNCHANGED <<manifest, families, nextId, op, buffer, acked, doubted>>
        /\ phase' = "syncing" /\ refusal' # "none"
    BY <2>1 DEF Refused
  <2>4. Recorded' /\ NamedOnce' /\ Told'
    BY <2>3, ToldStays
  <2>5. op = Nothing
    BY <2>2 DEF ToldInv, OpBegun
  <2>6. Serves' /\ OpBegun' /\ Opening'
    BY <2>3, <2>5 DEF Serves, Serving, OpBegun, Opening
  <2> QED
    BY <2>4, <2>6 DEF ToldInv
<1>4. CASE Validate
  <2>1. /\ UNCHANGED <<manifest, families, nextId, op, buffer, acked, doubted, refusal>>
        /\ phase = "opening" /\ todo = {} /\ phase' = "checking"
        /\ \E f \in families : f.name = default \/ f.id = 0
    BY <1>4 DEF Validate, Valid
  <2>2. Recorded' /\ NamedOnce' /\ Told' /\ Described' = Described
    BY <2>1, ToldStays
  <2>3. families = {Default} /\ Described = {} /\ Default.id < nextId /\ op = Nothing
    BY <2>1 DEF ToldInv, Opening, Recorded, OpBegun
  <2>4. Described' = ServedWithOp'
    BY <2>1, <2>2, <2>3 DEF ServedWithOp
  <2>5. Serves' /\ OpBegun' /\ Opening'
    BY <2>1, <2>3, <2>4 DEF Serves, OpBegun, Opening
  <2> QED
    BY <2>2, <2>5 DEF ToldInv
<1>5. CASE \/ CheckRecoveryNeeded \/ InitializeRecoveryEnvironment
           \/ CleanupRecoveryState \/ FinishLSMTreeRecovery
  <2>1. /\ UNCHANGED <<manifest, families, nextId, op, buffer, acked, doubted, refusal>>
        /\ phase \in {"checking", "marking", "validating", "finishing"}
        /\ phase' \in {"marking", "validating", "finishing", "up"}
    BY <1>5 DEF CheckRecoveryNeeded, InitializeRecoveryEnvironment, CleanupRecoveryState,
                FinishLSMTreeRecovery
  <2>2. Recorded' /\ NamedOnce' /\ Told' /\ (Serving' => (Serving => Serves'))
    BY <2>1, ToldStays
  <2>3. Serves' /\ OpBegun' /\ Opening'
    BY <2>1, <2>2 DEF ToldInv, Serves, Serving, OpBegun, Opening
  <2> QED
    BY <2>2, <2>3 DEF ToldInv
<1>6. CASE \/ Close \/ SyncFails \/ SyncEnds \/ ShutdownEnds \/ PersistFails
           \/ CreateCleanShutdownMarker
  <2>1. /\ UNCHANGED <<manifest, families, nextId, op, buffer, acked, doubted, refusal>>
        /\ phase \in {"up", "syncing", "shutting", "truncating"}
        /\ phase' \in {"syncing", "shutting", "truncating", "closing"}
    BY <1>6 DEF Close, SyncFails, SyncEnds, ShutdownEnds, PersistFails,
                CreateCleanShutdownMarker
  <2>2. /\ Recorded' /\ NamedOnce' /\ Told' /\ OpBegun'
        /\ Serving' => (Serving => Serves')
    BY <2>1, ToldStays
  <2>3. Serves' /\ Opening'
    BY <2>1, <2>2 DEF Serves, Serving, Opening
  <2> QED
    BY <2>2, <2>3 DEF ToldInv
<1>7. CASE \/ \E f \in Family : \/ Flush(f) \/ SyncFamily(f) \/ ShutdownFamily(f)
                                \/ TruncateLogs(f) \/ \E w \in Writes : Commit(f, w)
           \/ UNCHANGED vars
  <2>1. /\ UNCHANGED <<manifest, families, nextId, op, buffer, acked, doubted, refusal, phase>>
        /\ todo' = todo \/ phase # "opening"
    BY <1>7 DEF Flush, SyncFamily, ShutdownFamily, TruncateLogs, Commit, vars
  <2>2. /\ Recorded' /\ NamedOnce' /\ Told' /\ OpBegun' /\ Described' = Described
        /\ Serving' => (Serving => Serves')
    BY <2>1, ToldStays
  <2>3. Serves' /\ Opening'
    BY <2>1, <2>2 DEF ToldInv, Serves, Serving, Opening
  <2> QED
    BY <2>2, <2>3 DEF ToldInv
<1> QED
  BY <1>1, <1>2, <1>3, <1>4, <1>5, <1>6, <1>7 DEF Elsewhere

(* The records of the stream reach the disk.                                *)
LEMMA RecordsApplied ==
    ASSUME TypeOK, ToldInv, buffer # <<>>, manifest' = manifest \o buffer
    PROVE  Described' = Applied
<1>1. op # Nothing
  BY DEF TypeOK
<1>2. buffer = <<op>> /\ op \in Record
  BY <1>1 DEF ToldInv, OpBegun, TypeOK
<1>3. manifest' = Append(manifest, op)
  BY <1>2 DEF TypeOK
<1> QED
  BY <1>1, <1>2, <1>3, AppliedIs, RecordTells DEF TypeOK, Applied

(* They reach it or not, or in part.                                       *)
LEMMA CrashTells ==
    ASSUME TypeOK, ToldInv, Crash
    PROVE  Described' = Described \/ (op # Nothing /\ buffer # <<>> /\ Described' = Applied)
<1>1. CASE manifest' = manifest
  BY <1>1 DEF Described
<1>2. CASE manifest' = manifest \o buffer /\ manifest' # manifest
  <2>1. buffer # <<>> /\ op # Nothing
    BY <1>2 DEF TypeOK
  <2> QED
    BY <1>2, <2>1, RecordsApplied
<1>3. CASE \E i \in DOMAIN buffer, n \in 1 .. 2 :
              manifest' = Append(manifest, TornRec(buffer[i].of, n))
  <2> PICK i \in DOMAIN buffer, n \in 1 .. 2 :
              manifest' = Append(manifest, TornRec(buffer[i].of, n))
    BY <1>3
  <2>1. buffer[i] \in Record
    BY DEF TypeOK
  <2>2. TornRec(buffer[i].of, n) \in Record /\ TornRec(buffer[i].of, n).kind = "torn"
    BY <2>1, RecType DEF Record, TornRec
  <2> QED
    BY <2>2, RecordTells DEF TypeOK
<1> QED
  BY <1>1, <1>2, <1>3 DEF Crash

LEMMA ToldStep == TypeOK /\ ToldInv /\ [Next]_vars => ToldInv'
<1> SUFFICES ASSUME TypeOK, ToldInv, [Next]_vars PROVE ToldInv'
    OBVIOUS
<1> TypeOK'
  BY TypeStep
<1> USE NothingAssumption DEF disk, data, markers, process, history
<1>1. CASE Elsewhere
  BY <1>1, ElsewhereKeeps
<1>2. CASE \E f \in Family : BuildFamily(f)
  <2> PICK f \in Family : BuildFamily(f)
    BY <1>2
  <2>1. /\ UNCHANGED <<manifest, op, buffer, acked, doubted, phase>> /\ phase = "opening"
        /\ f \in todo /\ families' = families \cup {f} /\ todo' = todo \ {f}
        /\ nextId' = IF f.id >= nextId THEN f.id + 1 ELSE nextId
    BY DEF BuildFamily
  <2>2. Described' = Described /\ Recorded' /\ NamedOnce' /\ Told'
    BY <2>1 DEF ToldInv, Described, Recorded, NamedOnce, Told
  <2>3. \A g \in families' : g.id < nextId'
    <3>1. \A g \in families : g.id < nextId
      BY <2>1 DEF ToldInv, Opening
    <3>2. \A g \in families : g.id \in Nat
      BY BoundsAssumption DEF TypeOK, Family
    <3>3. f.id \in Nat /\ nextId \in Nat
      BY BoundsAssumption DEF TypeOK, Family
    <3> QED
      BY <2>1, <3>1, <3>2, <3>3
  <2>4. Serves' /\ OpBegun'
    BY <2>1 DEF ToldInv, OpBegun, Serves, Serving
  <2>5. Opening'
    BY <2>1, <2>2, <2>3 DEF ToldInv, Opening
  <2> QED
    BY <2>2, <2>4, <2>5 DEF ToldInv
<1>3. CASE \E n \in Names : CreateColumnFamily(n)
  <2> PICK n \in Names : CreateColumnFamily(n)
    BY <1>3
  <2> DEFINE f == [id |-> nextId, name |-> n]
  <2>1. /\ UNCHANGED <<manifest, phase, families, acked, doubted, refusal>>
        /\ phase \in {"up", "syncing", "shutting", "truncating", "closing"}
        /\ refusal = "none" /\ op = Nothing /\ buffer = <<>> /\ nextId' = nextId + 1
        /\ op' = Rec("create", f) /\ buffer' = <<op'>>
        /\ \A g \in families : g.name # n
    <3>1. op = Nothing /\ op' = Rec("create", f) /\ buffer' = Append(buffer, op')
      BY DEF CreateColumnFamily, LogCreateColumnFamily, WriteRecord
    <3>2. buffer = <<>>
      BY <3>1 DEF TypeOK
    <3>3. buffer' = <<op'>>
      BY <3>1, <3>2
    <3> QED
      BY <3>1, <3>2, <3>3 DEF CreateColumnFamily, InUse
  <2>2. op' # Nothing /\ op'.kind = "create" /\ op'.of = f
    <3>1. op' \in Record
      BY RecType, NewFamily DEF CreateColumnFamily
    <3> QED
      BY <2>1, <3>1 DEF Rec
  <2>3. Serving /\ Serving'
    BY <2>1 DEF Serving
  <2>4. /\ Default \in families /\ Described = families \ {Default}
        /\ \A g \in families : g.id < nextId
        /\ \A g, h \in families : g.id = h.id \/ g.name = h.name => g = h
    BY <2>1, <2>3 DEF ToldInv, Serves, ServedWithOp
  <2>5. Described' = Described /\ Recorded' /\ NamedOnce'
    BY <2>1 DEF ToldInv, Described, Recorded, NamedOnce
  <2>6. Told'
    BY <2>1, <2>2, <2>5 DEF ToldInv, Told
  <2>7. nextId \in Nat /\ nextId > 0 /\ \A g \in families : g.id \in Nat
    BY BoundsAssumption DEF TypeOK, Family
  <2>8. Serves'
    <3>1. Described' = ServedWithOp'
      BY <2>1, <2>4, <2>5 DEF ServedWithOp
    <3>2. \A g \in families' : g.id < nextId'
      BY <2>1, <2>4, <2>7
    <3> QED
      BY <2>1, <2>4, <3>1, <3>2 DEF Serves
  <2>9. OpBegun'
    <3>1. /\ op'.of.id = nextId /\ op'.of.name = n /\ op'.kind # "torn" /\ op'.kind # "drop"
          /\ n # default
      BY <2>2, <2>4, <2>1 DEF Default
    <3>2. \A g \in families' : g.id # op'.of.id /\ g.name # op'.of.name
      BY <2>1, <2>4, <2>7, <3>1
    <3> QED
      BY <2>1, <2>7, <3>1, <3>2 DEF OpBegun
  <2>10. Opening'
    BY <2>1 DEF Opening
  <2> QED
    BY <2>5, <2>6, <2>8, <2>9, <2>10 DEF ToldInv
<1>4. CASE CreateFails
  <2>1. /\ UNCHANGED <<manifest, phase, families, op, buffer, acked, doubted, refusal>>
        /\ nextId' = nextId + 1 /\ op = Nothing
        /\ phase \in {"up", "syncing", "shutting", "truncating", "closing"}
    BY <1>4 DEF CreateFails, InUse
  <2>2. Described' = Described /\ Recorded' /\ NamedOnce' /\ Told'
    BY <2>1 DEF ToldInv, Described, Recorded, NamedOnce, Told
  <2>3. \A g \in families : g.id \in Nat /\ nextId \in Nat
    BY BoundsAssumption DEF TypeOK, Family
  <2>4. Serves'
    <3>1. Serving => Described' = ServedWithOp'
      BY <2>1, <2>2 DEF ToldInv, Serves, ServedWithOp
    <3> QED
      BY <2>1, <2>3, <3>1 DEF ToldInv, Serves, Serving
  <2>5. OpBegun' /\ Opening'
    BY <2>1 DEF OpBegun, Opening
  <2> QED
    BY <2>2, <2>4, <2>5 DEF ToldInv
<1>5. CASE \E f \in Family : DropColumnFamily(f)
  <2> PICK f \in Family : DropColumnFamily(f)
    BY <1>5
  <2>1. /\ UNCHANGED <<manifest, phase, families, nextId, acked, doubted, refusal>>
        /\ phase \in {"up", "syncing", "shutting", "truncating", "closing"}
        /\ refusal = "none" /\ op = Nothing /\ buffer = <<>>
        /\ op' = Rec("drop", f) /\ buffer' = <<op'>>
        /\ f \in families /\ f.name # default
    <3>1. op = Nothing /\ op' = Rec("drop", f) /\ buffer' = Append(buffer, op')
      BY DEF DropColumnFamily, LogDropColumnFamily, WriteRecord
    <3>2. buffer = <<>>
      BY <3>1 DEF TypeOK
    <3>3. buffer' = <<op'>>
      BY <3>1, <3>2
    <3> QED
      BY <3>1, <3>2, <3>3 DEF DropColumnFamily, InUse
  <2>2. op' # Nothing /\ op'.kind = "drop" /\ op'.of = f
    <3>1. op' \in Record
      BY <2>1, RecType
    <3> QED
      BY <2>1, <3>1 DEF Rec
  <2>3. Serving /\ Serving'
    BY <2>1 DEF Serving
  <2>4. /\ Default \in families /\ Described = families \ {Default}
        /\ \A g \in families : g.id < nextId
        /\ \A g, h \in families : g.id = h.id \/ g.name = h.name => g = h
    BY <2>1, <2>3 DEF ToldInv, Serves, ServedWithOp
  <2>5. Described' = Described /\ Recorded' /\ NamedOnce'
    BY <2>1 DEF ToldInv, Described, Recorded, NamedOnce
  <2>6. Told'
    BY <2>1, <2>2, <2>5 DEF ToldInv, Told
  <2>7. Serves'
    <3>1. Described' = ServedWithOp'
      BY <2>1, <2>4, <2>5 DEF ServedWithOp
    <3> QED
      BY <2>1, <2>4, <3>1 DEF Serves
  <2>8. f.id # 0
    BY <2>1, <2>4 DEF ToldInv, Recorded, Default
  <2>9. OpBegun'
    BY <2>1, <2>2, <2>4, <2>8 DEF OpBegun
  <2>10. Opening'
    BY <2>1 DEF Opening
  <2> QED
    BY <2>5, <2>6, <2>7, <2>9, <2>10 DEF ToldInv
<1>6. CASE SyncManifest
  <2>1. /\ UNCHANGED <<phase, families, nextId, op, acked, doubted, refusal>>
        /\ op # Nothing /\ buffer # <<>> /\ buffer' = <<>> /\ manifest' = manifest \o buffer
    BY <1>6 DEF SyncManifest
  <2>4. Described' = Applied
    BY <2>1, RecordsApplied
  <2>5. Recorded' /\ NamedOnce'
    BY <2>1, <2>4, AppliedIs DEF Recorded, NamedOnce
  <2>6. Told'
    <3>1. Described' = Described \cup {op.of} \/ Described' = Described \ {op.of}
      BY <2>1, <2>4, AppliedIs
    <3> QED
      BY <2>1, <3>1 DEF ToldInv, Told
  <2>7. Serves'
    <3>1. Described' = ServedWithOp'
      BY <2>1, <2>4, AppliedIs DEF ServedWithOp
    <3> QED
      BY <2>1, <3>1 DEF ToldInv, Serves, Serving
  <2>8. OpBegun' /\ Opening'
    BY <2>1 DEF ToldInv, OpBegun, Opening
  <2> QED
    BY <2>5, <2>6, <2>7, <2>8 DEF ToldInv
<1>7. CASE Finish
  <2>1. /\ UNCHANGED <<manifest, phase, nextId, buffer, refusal>>
        /\ op # Nothing /\ buffer = <<>> /\ op' = Nothing
        /\ families' = IF op.kind = "create" THEN families \cup {op.of}
                       ELSE families \ {op.of}
        /\ acked' = IF op.kind = "create" THEN acked \cup {op.of} ELSE acked \ {op.of}
        /\ doubted' = doubted \ {op.of}
    BY <1>7 DEF Finish
  <2>2. /\ phase \in {"up", "syncing", "shutting", "truncating", "closing"}
        /\ op.kind \in {"create", "drop"} /\ Serving /\ op.of.name # default
        /\ op.of.id < nextId
        /\ op.kind = "create" => \A f \in families : f.id # op.of.id /\ f.name # op.of.name
        /\ op.kind = "drop" => op.of \in families
    BY <2>1 DEF ToldInv, OpBegun, Serving, TypeOK, Record
  <2>3. /\ Default \in families /\ \A f \in families : f.id < nextId
        /\ \A f, g \in families : f.id = g.id \/ f.name = g.name => f = g
        /\ Described = IF op.kind = "create" THEN (families \cup {op.of}) \ {Default}
                       ELSE families \ {op.of, Default}
    BY <2>1, <2>2 DEF ToldInv, Serves, ServedWithOp
  <2>4. Described' = Described /\ Recorded' /\ NamedOnce'
    BY <2>1 DEF ToldInv, Described, Recorded, NamedOnce
  <2>5. op.of # Default
    BY <2>2 DEF Default
  <2>6. Told'
    BY <2>1, <2>2, <2>3, <2>4, <2>5 DEF ToldInv, Told
  <2>7. Serves'
    <3>1. Described' = ServedWithOp'
      BY <2>1, <2>2, <2>3, <2>4 DEF ServedWithOp
    <3>2. Default \in families' /\ \A f \in families' : f.id < nextId'
      BY <2>1, <2>2, <2>3, <2>5
    <3>3. \A f, g \in families' : f.id = g.id \/ f.name = g.name => f = g
      BY <2>1, <2>2, <2>3
    <3> QED
      BY <3>1, <3>2, <3>3 DEF Serves
  <2>8. OpBegun' /\ Opening'
    BY <2>1, <2>2 DEF OpBegun, Opening
  <2> QED
    BY <2>4, <2>6, <2>7, <2>8 DEF ToldInv
<1>8. CASE Closed
  <2>1. /\ UNCHANGED <<manifest, acked, doubted>> /\ op = Nothing /\ op' = Nothing
        /\ phase' = "down" /\ families' = {}
    BY <1>8 DEF Closed, Gone
  <2>2. Described' = Described /\ Recorded' /\ NamedOnce' /\ Told'
    BY <2>1 DEF ToldInv, Described, Recorded, NamedOnce, Told
  <2>3. Serves' /\ OpBegun' /\ Opening'
    BY <2>1 DEF Serves, Serving, OpBegun, Opening
  <2> QED
    BY <2>2, <2>3 DEF ToldInv
<1>9. CASE Crash
  <2>1. /\ acked' = acked /\ op' = Nothing /\ phase' = "down" /\ families' = {}
        /\ doubted' = IF op = Nothing THEN doubted ELSE doubted \cup {op.of}
    BY <1>9 DEF Crash, Gone
  <2>2. Described' = Described \/ (op # Nothing /\ buffer # <<>> /\ Described' = Applied)
    BY <1>9, CrashTells
  <2>3. Recorded' /\ NamedOnce'
    BY <2>2, AppliedIs DEF ToldInv, Recorded, NamedOnce
  <2>4. Told'
    <3>1. \/ Described' = Described
          \/ op # Nothing /\ Described' = Described \cup {op.of}
          \/ op # Nothing /\ Described' = Described \ {op.of}
      BY <2>2, AppliedIs
    <3> QED
      BY <2>1, <3>1 DEF ToldInv, Told
  <2>5. Serves' /\ OpBegun' /\ Opening'
    BY <2>1 DEF Serves, Serving, OpBegun, Opening
  <2> QED
    BY <2>3, <2>4, <2>5 DEF ToldInv
<1> QED
  BY <1>1, <1>2, <1>3, <1>4, <1>5, <1>6, <1>7, <1>8, <1>9 DEF Next, Refusing, Elsewhere

LEMMA ToldInit == Init => ToldInv
<1> SUFFICES ASSUME Init PROVE ToldInv
    OBVIOUS
<1>1. Described = {}
  BY DEF Init, Described
<1> QED
  BY <1>1 DEF Init, ToldInv, Serves, Serving, OpBegun, Opening, Recorded, NamedOnce, Told

(***************************************************************************)
(* The MANIFEST tells of exactly the families that were created and not    *)
(* dropped, and of no name twice, up to the call that is under way or that *)
(* a crash has cut, through any number of openings, failures and torn      *)
(* records (CreateColumnFamily, DropColumnFamily, RecoverFromManifestFile).*)
(***************************************************************************)
THEOREM ManifestIsTold == Spec => []ManifestTells
<1>1. ToldInv => ManifestTells
  BY DEF ToldInv, NamedOnce, Told, ManifestTells
<1> QED
  BY <1>1, TypeInit, TypeStep, ToldInit, ToldStep, PTL DEF Spec

-----------------------------------------------------------------------------
(***************************************************************************)
(* The marker is set when Close has reached its end, and is gone before    *)
(* the next opening does anything; in between nothing that is owed is put  *)
(* into a log, and a family that is created begins with an empty one.      *)
(***************************************************************************)
MarkedAtEnd == clean => phase \in {"closing", "down"}

LEMMA MarkerMoves ==
    ASSUME [Next]_vars
    PROVE  \/ UNCHANGED <<clean, refusal>>
           \/ Open \/ Refusing \/ CreateCleanShutdownMarker
<1> USE DEF disk, data, markers, process, history
<1>1. CASE \/ OpenManifest \/ ReadManifest \/ Validate \/ CheckRecoveryNeeded
           \/ InitializeRecoveryEnvironment \/ CleanupRecoveryState \/ FinishLSMTreeRecovery
           \/ Close \/ SyncFails \/ SyncEnds \/ ShutdownEnds \/ PersistFails
           \/ CreateFails \/ SyncManifest \/ Finish \/ UNCHANGED vars
  BY <1>1 DEF OpenManifest, ReadManifest, Validate, CheckRecoveryNeeded,
     InitializeRecoveryEnvironment, CleanupRecoveryState, FinishLSMTreeRecovery,
     Close, SyncFails, SyncEnds, ShutdownEnds, PersistFails, CreateFails,
     SyncManifest, Finish, vars
<1>2. CASE Closed \/ Crash
  BY <1>2 DEF Closed, Crash, Gone
<1>3. CASE \/ \E n \in Names : CreateColumnFamily(n)
           \/ \E f \in Family : \/ BuildFamily(f) \/ DropColumnFamily(f) \/ Flush(f)
                                \/ SyncFamily(f) \/ ShutdownFamily(f) \/ TruncateLogs(f)
                                \/ \E w \in Writes : Commit(f, w)
  BY <1>3 DEF CreateColumnFamily, BuildFamily, DropColumnFamily, Flush, SyncFamily,
     ShutdownFamily, TruncateLogs, Commit
<1> QED
  BY <1>1, <1>2, <1>3 DEF Next, Refusing

LEMMA MarkerStep == MarkedAtEnd /\ [Next]_vars => MarkedAtEnd'
<1> SUFFICES ASSUME MarkedAtEnd, [Next]_vars PROVE MarkedAtEnd'
    OBVIOUS
<1> USE DEF disk, data, markers, process, history
<1>1. CASE Open \/ CreateCleanShutdownMarker \/ Closed \/ Crash
  <2>1. clean' = FALSE \/ phase' \in {"closing", "down"}
    BY <1>1 DEF Open, CreateCleanShutdownMarker, Closed, Crash, Gone
  <2> QED
    BY <2>1 DEF MarkedAtEnd
<1>2. CASE Refusing
  <2>1. phase \notin {"closing", "down"}
    BY <1>2 DEF Refusing, OpenManifestFails, ReadManifestFails, BuildFails, ValidateFails,
       StructureInvalid, Inconsistent, RecoveryFails
  <2>2. clean' = clean
    BY <1>2, RefusingIsRefused DEF Refused
  <2> QED
    BY <2>1, <2>2 DEF MarkedAtEnd
<1>3. CASE \/ OpenManifest \/ ReadManifest \/ Validate \/ CheckRecoveryNeeded
           \/ InitializeRecoveryEnvironment \/ CleanupRecoveryState \/ FinishLSMTreeRecovery
           \/ \E f \in Family : BuildFamily(f)
  BY <1>3 DEF OpenManifest, ReadManifest, Validate, CheckRecoveryNeeded,
     InitializeRecoveryEnvironment, CleanupRecoveryState, FinishLSMTreeRecovery, BuildFamily,
     MarkedAtEnd
<1>4. CASE \/ Close \/ SyncFails \/ SyncEnds \/ ShutdownEnds \/ PersistFails
           \/ CreateFails \/ SyncManifest \/ Finish \/ UNCHANGED vars
  BY <1>4 DEF Close, SyncFails, SyncEnds, ShutdownEnds, PersistFails, CreateFails,
     SyncManifest, Finish, vars, MarkedAtEnd
<1>5. CASE \/ \E n \in Names : CreateColumnFamily(n)
           \/ \E f \in Family : \/ DropColumnFamily(f) \/ Flush(f) \/ SyncFamily(f)
                                \/ ShutdownFamily(f) \/ TruncateLogs(f)
                                \/ \E w \in Writes : Commit(f, w)
  BY <1>5 DEF CreateColumnFamily, DropColumnFamily, Flush, SyncFamily, ShutdownFamily,
     TruncateLogs, Commit, MarkedAtEnd
<1> QED
  BY <1>1, <1>2, <1>3, <1>4, <1>5 DEF Next, Refusing

(* With the marker set, no family's log gets what its tables lack.         *)
LEMMA TablesKept ==
    ASSUME IInv, [Next]_vars, phase \in {"closing", "down"}
    PROVE  \A d \in Family : InTables(d) => InTables(d)'
<1> TypeOK /\ OwedAreCommitted
  BY DEF IInv
<1> USE DEF disk, data, markers, process, history
<1>1. CASE \E n \in Names : CreateColumnFamily(n)
  <2> PICK n \in Names : CreateColumnFamily(n)
    BY <1>1
  <2>1. PICK f \in Family : Replayed(f)
    BY NewFamily DEF CreateColumnFamily
  <2>2. owed' = owed
    BY DEF CreateColumnFamily
  <2> QED
    BY <2>1, <2>2, ReplayKeeps DEF InTables
<1>2. CASE \E f \in Family, w \in Writes : Commit(f, w)
  <2> PICK f \in Family, w \in Writes : Commit(f, w)
    BY <1>2
  <2>1. \A d \in Family : wal'[d] \subseteq wal[d] \cup {w} /\ sst'[d] = sst[d]
    BY DEF Commit, Dir, TypeOK
  <2>2. w \notin owed /\ owed' = owed
    BY DEF Commit, OwedAreCommitted
  <2> QED
    BY <2>1, <2>2 DEF InTables
<1>3. UNCHANGED <<wal, sst, owed>> \/ (\E n \in Names : CreateColumnFamily(n))
         \/ \E f \in Family, w \in Writes : Commit(f, w)
  BY RefusingIsRefused DEF Next, vars, Open, OpenManifest, OpenManifestFails, ReadManifest,
     ReadManifestFails, BuildFails, Validate, ValidateFails, CheckRecoveryNeeded,
     InitializeRecoveryEnvironment, CleanupRecoveryState, FinishLSMTreeRecovery,
     StructureInvalid, Inconsistent, RecoveryFails, CreateFails, SyncManifest, Finish,
     BuildFamily, DropColumnFamily, Flush, SyncFamily, ShutdownFamily, TruncateLogs,
     Close, SyncFails, SyncEnds, ShutdownEnds, PersistFails, CreateCleanShutdownMarker,
     Closed, Crash, Gone
<1> QED
  BY <1>1, <1>2, <1>3 DEF InTables

(* What the MANIFEST tells of changes only by the record under way.        *)
LEMMA DescribedNext ==
    ASSUME TypeOK, ToldInv, [Next]_vars
    PROVE  \/ Described' \subseteq Described
           \/ /\ op # Nothing /\ op.kind = "create"
              /\ Described' \subseteq Described \cup {op.of}
<1> USE DEF disk, data, markers, process, history
<1>1. CASE SyncManifest
  BY <1>1, RecordsApplied, AppliedIs DEF SyncManifest
<1>2. CASE Crash
  BY <1>2, CrashTells, AppliedIs
<1>3. manifest' = manifest \/ SyncManifest \/ Crash
  BY RefusingIsRefused DEF Next, vars, Open, OpenManifest, OpenManifestFails, ReadManifest,
     ReadManifestFails, BuildFails, Validate, ValidateFails, CheckRecoveryNeeded,
     InitializeRecoveryEnvironment, CleanupRecoveryState, FinishLSMTreeRecovery,
     StructureInvalid, Inconsistent, RecoveryFails, CreateColumnFamily, CreateFails, Finish,
     BuildFamily, DropColumnFamily, Flush, SyncFamily, ShutdownFamily, TruncateLogs, Commit,
     Close, SyncFails, SyncEnds, ShutdownEnds, PersistFails, CreateCleanShutdownMarker,
     Closed, Refusing, Refused
<1>4. CASE manifest' = manifest
  BY <1>4 DEF Described
<1> QED
  BY <1>1, <1>2, <1>3, <1>4

LEMMA CleanStep == IInv /\ ToldInv /\ MarkedAtEnd /\ CleanIsTrue /\ [Next]_vars => CleanIsTrue'
<1> SUFFICES ASSUME IInv, ToldInv, MarkedAtEnd, CleanIsTrue, [Next]_vars, clean', refusal' = "none",
                    NEW f \in Described' \cup {Default}
             PROVE  InTables(f)'
  BY DEF CleanIsTrue, InTables, Dir
<1> TypeOK /\ EnteredEmpty
  BY DEF IInv
<1> USE DEF disk, data, markers, process, history
<1>1. f \in Family
  <2>1. Described \subseteq Family /\ (op # Nothing => op.of \in Family)
    BY DescribedType DEF TypeOK, Record
  <2>2. Default \in Family
    BY NamesAssumption, BoundsAssumption DEF Default, Family
  <2> QED
    BY <2>1, <2>2, DescribedNext
<1>2. CASE CreateCleanShutdownMarker
  <2>1. /\ UNCHANGED <<wal, sst, owed, manifest>> /\ synced /\ phase = "truncating" /\ todo = {}
        /\ refusal = "none"
    BY <1>2 DEF CreateCleanShutdownMarker
  <2>2. Described' = Described
    BY <2>1 DEF Described
  <2>3. \A g \in families : InTables(g)
    BY <2>1 DEF IInv, PassedInTables, Closing
  <2>4. op # Nothing /\ op.kind = "create" => InTables(op.of)
    BY DEF EnteredEmpty, InTables
  <2>5. Serving
    BY <2>1 DEF Serving
  <2>6. f \in families \/ (op # Nothing /\ op.kind = "create" /\ f = op.of)
    BY <2>2, <2>5 DEF ToldInv, Serves, ServedWithOp
  <2> QED
    BY <2>1, <2>3, <2>4, <2>6 DEF InTables
<1>3. CASE ~CreateCleanShutdownMarker
  <2>1. clean /\ refusal = "none"
    <3>1. UNCHANGED <<clean, refusal>> \/ Open \/ Refusing
      BY <1>3, MarkerMoves
    <3>2. ~Open
      BY DEF Open
    <3>3. ~Refusing
      BY RefusingIsRefused DEF Refused
    <3> QED
      BY <3>1, <3>2, <3>3
  <2>2. \A g \in Described \cup {Default} : InTables(g)
    BY <2>1 DEF CleanIsTrue, InTables, Dir
  <2>3. op # Nothing /\ op.kind = "create" => InTables(op.of)
    BY DEF EnteredEmpty, InTables
  <2>4. InTables(f)
    BY <2>2, <2>3, DescribedNext
  <2> QED
    BY <1>1, <2>1, <2>4, TablesKept DEF MarkedAtEnd
<1> QED
  BY <1>2, <1>3

(***************************************************************************)
(* A CLEAN_SHUTDOWN is true, for any number of families, writes, failures  *)
(* and crashes: what was committed before Close to a family the MANIFEST   *)
(* tells of is in its tables (Close, CreateCleanShutdownMarker).           *)
(***************************************************************************)
THEOREM MarkerIsTrue == Spec => []CleanIsTrue
<1>1. Init => IInv /\ MarkedAtEnd /\ CleanIsTrue
  <2>1. Init => IInv
    BY OwedInit
  <2> QED
    BY <2>1 DEF Init, MarkedAtEnd, CleanIsTrue
<1>2. IInv => TypeOK
  BY DEF IInv
<1> QED
  BY <1>1, <1>2, OwedStep, ToldInit, ToldStep, MarkerStep, CleanStep, PTL DEF Spec
=============================================================================
