----------------------------- MODULE WalProofs -----------------------------
(* Theorems about the log, for all sets of transactions and keys. *)
EXTENDS WalProps, TLAPS

(* A record is written somewhere, or even safe from a crash. *)
Bound(f) == IF f = CurrentFile THEN synced ELSE Len(logs[f])
Safe(r) == \E f \in DOMAIN logs : \E i \in 1 .. Bound(f) : logs[f][i] = r
Written(r) ==
    \E f \in DOMAIN logs : \E i \in 1 .. Len(logs[f]) : logs[f][i] = r

(***************************************************************************)
(* What each phase of a session makes of the writer.                       *)
(***************************************************************************)
WriterOK ==
    /\ phase \in {"replay", "sweep", "number", "open", "shutdown", "sequence"}
          /\ switching = Nobody => current # 0
    /\ phase \in {"down", "refused", "truncate"} => current = 0
    /\ switching # Nobody =>
          /\ phase = "open" /\ current = 0 /\ synced = 0
          /\ pc[switching] = "logging"
    /\ current # 0 => nextFile = current + 1
    /\ phase \in {"replay", "sweep", "number", "open"} =>
          nextFile # 0 /\ \A f \in WalFiles : f[2] < nextFile
    /\ phase = "sweep" => CurrentFile \notin doomed
    /\ phase # "open" => \A t \in Txns : pc[t] \notin Busy

Inv1 == TypeOK /\ WriterOK

(* A file is created, or its content is replaced. *)
LEMMA WithType ==
    ASSUME LogsTyped, NEW f \in Files, NEW s \in Seq(Record \cup {Torn}),
           logs' = With(f, s)
    PROVE  /\ DOMAIN logs' = DOMAIN logs \cup {f}
           /\ logs'[f] = s
           /\ \A g \in DOMAIN logs \ {f} : logs'[g] = logs[g]
           /\ LogsTyped'
  BY DEF LogsTyped, With

(* A file is deleted. *)
LEMMA WithoutType ==
    ASSUME LogsTyped, NEW f, logs' = Without(f)
    PROVE  /\ DOMAIN logs' = DOMAIN logs \ {f}
           /\ \A g \in DOMAIN logs' : logs'[g] = logs[g]
           /\ LogsTyped'
  BY DEF LogsTyped, Without, Restrict

(* What a crash leaves of a file. *)
LEMMA RemainsKeeps ==
    ASSUME NEW file \in Seq(Record \cup {Torn}), NEW n \in Nat, n <= Len(file),
           NEW g \in Remains(file, n)
    PROVE  /\ g \in Seq(Record \cup {Torn})
           /\ n <= Len(g)
           /\ \A j \in 1 .. n : g[j] = file[j]
           /\ \A j \in 1 .. Len(g) :
                 g[j] = Torn \/ (j \in 1 .. Len(file) /\ g[j] = file[j])
<1>1. PICK i \in n .. Len(file) :
          g = SubSeq(file, 1, i) \/ g = Append(SubSeq(file, 1, i), Torn)
  BY DEF Remains
<1> DEFINE s == SubSeq(file, 1, i)
<1>2. /\ s \in Seq(Record \cup {Torn})
      /\ Len(s) = i
      /\ \A j \in 1 .. i : s[j] = file[j]
  BY <1>1
<1>3. CASE g = s
  BY <1>1, <1>2, <1>3
<1>4. CASE g = Append(s, Torn)
  BY <1>1, <1>2, <1>4
<1> QED
  BY <1>1, <1>3, <1>4

(* Names of files. *)
LEMMA FileNames ==
    ASSUME NEW n \in Nat, n # 0
    PROVE  /\ <<"wal", n>> \in Files /\ <<"archive", n>> \in Files
           /\ <<"wal", n>>[2] = n /\ <<"archive", n>>[2] = n
  BY DEF Files

(***************************************************************************)
(* The first state.                                                        *)
(***************************************************************************)
LEMMA FirstState == Init => Inv1
<1> SUFFICES ASSUME Init PROVE Inv1
  OBVIOUS
<1>1. LogsTyped
  BY DEF Init, LogsTyped
<1>2. ProcessTyped
  <2>1. /\ tables \subseteq Record /\ lastSequence \in Nat /\ onDisk \subseteq Nat
        /\ doomed \subseteq Files /\ volatile \subseteq Record
    BY DEF Init
  <2>2. broken \in BOOLEAN
    BY DEF Init
  <2> QED
    BY <2>1, <2>2 DEF Init, ProcessTyped
<1>3. TxnsTyped
  BY DEF Init, TxnsTyped
<1>4. HistoryTyped
  <2>1. acked \in Seq(SUBSET Record) /\ doubted \subseteq Txns
    BY DEF Init
  <2>2. forgotten \in BOOLEAN
    BY DEF Init
  <2> QED
    BY <2>1, <2>2 DEF Init, HistoryTyped
<1>5. CurrentTyped
  BY DEF Init, CurrentTyped
<1>6. WriterOK
  BY DEF Init, WriterOK, Busy
<1> QED
  BY <1>1, <1>2, <1>3, <1>4, <1>5, <1>6 DEF Inv1, TypeOK

(* The records of the log, and those of a transaction. *)
LEMMA LoggedTyped ==
    ASSUME LogsTyped
    PROVE  Logged \subseteq Record /\ Numbers(Logged) \subseteq Nat
<1>1. ASSUME NEW r, r \in Logged PROVE r \in Record
  <2>1. PICK f \in DOMAIN logs : r \in Range(logs[f])
    BY <1>1 DEF Logged
  <2>2. logs[f] \in Seq(Record \cup {Torn})
    BY DEF LogsTyped
  <2>3. PICK i \in DOMAIN logs[f] : r = logs[f][i]
    BY <2>1 DEF Range
  <2>4. r \in Record \cup {Torn}
    BY <2>2, <2>3
  <2>5. r # Torn
    BY <1>1 DEF Logged
  <2> QED
    BY <2>4, <2>5
<1>2. \A r \in Record : r.seq \in Nat
  BY DEF Record
<1> QED
  BY <1>1, <1>2 DEF Numbers

(* The number and the records of a transaction. *)
LEMMA RecordsTyped ==
    ASSUME TxnsTyped, NEW t \in Txns
    PROVE  /\ seq[t] \in Nat /\ RecordsOf(t) \subseteq Record
           /\ \A k \in Keys : RecordOf(t, k) \in Record
  BY TouchedAssumption DEF TxnsTyped, RecordsOf, RecordOf, Record

(* Scalars and sets of the process. *)
LEMMA ProcessTypedKept == Inv1 /\ [Next]_vars => ProcessTyped'
<1> SUFFICES ASSUME Inv1, [Next]_vars PROVE ProcessTyped'
  OBVIOUS
<1>1. CASE Initialize
  <2>1. \A f \in WalFiles : f[2] \in Nat
    BY DEF Inv1, TypeOK, LogsTyped, WalFiles, Files
  <2>2. current' \in Nat /\ nextFile' \in Nat /\ phase' \in {"replay", "number"}
    BY <1>1, <2>1 DEF Initialize
  <2> QED
    BY <1>1, <2>2 DEF Initialize, Inv1, TypeOK, ProcessTyped
<1>2. CASE Replay
  <2>1. walSequence' \in Nat
    BY <1>2, LoggedTyped DEF Replay, Inv1, TypeOK, ProcessTyped
  <2>2. tables' \subseteq Record /\ doomed' \subseteq Files
    BY <1>2, LoggedTyped DEF Replay, Inv1, TypeOK, ProcessTyped, LogsTyped
  <2> QED
    BY <1>2, <2>1, <2>2 DEF Replay, Inv1, TypeOK, ProcessTyped, writer
<1>3. CASE ReplayStops
  BY <1>3
     DEF ReplayStops, Inv1, TypeOK, ProcessTyped, disk, writer, process, vars,
         Busy
<1>4. CASE RecoveryFails
  BY <1>4
     DEF RecoveryFails, Inv1, TypeOK, ProcessTyped, disk, writer, process,
         vars, Busy
<1>5. CASE Sweep
  BY <1>5
     DEF Sweep, Inv1, TypeOK, ProcessTyped, disk, writer, process, vars, Busy
<1>6. CASE TakeUpNumbers
  BY <1>6
     DEF TakeUpNumbers, Inv1, TypeOK, ProcessTyped, disk, writer, process,
         vars, Busy
<1>7. CASE Flush
  BY <1>7
     DEF Flush, Inv1, TypeOK, ProcessTyped, disk, writer, process, vars, Busy
<1>8. CASE Close
  <2>1. CurrentFile \in DOMAIN logs
    BY <1>8 DEF Close, Inv1, TypeOK, WriterOK, ProcessTyped, CurrentTyped, Busy
  <2>2. synced' \in Nat
    BY <1>8, <2>1 DEF Close, Inv1, TypeOK, ProcessTyped, LogsTyped
  <2>3. broken' \in BOOLEAN
    BY <1>8 DEF Close, Inv1, TypeOK, ProcessTyped
  <2>4. tables' \subseteq Record /\ volatile' \subseteq Record
    BY <1>8 DEF Close, Inv1, TypeOK, ProcessTyped
  <2> QED
    BY <1>8, <2>2, <2>3, <2>4 DEF Close, Inv1, TypeOK, ProcessTyped
<1>9. CASE TruncateLogs
  BY <1>9
     DEF TruncateLogs, Inv1, TypeOK, ProcessTyped, disk, writer, process,
         vars, Busy
<1>10. ASSUME NEW t \in Txns, Prepare(t) PROVE ProcessTyped'
  BY <1>10
     DEF Prepare, Inv1, TypeOK, ProcessTyped, disk, writer, process, vars, Busy
<1>11. ASSUME NEW t \in Txns, Archive(t) PROVE ProcessTyped'
  BY <1>11
     DEF Archive, Inv1, TypeOK, ProcessTyped, disk, writer, process, vars, Busy
<1>12. ASSUME NEW t \in Txns, GiveUpFile(t) PROVE ProcessTyped'
  BY <1>12
     DEF GiveUpFile, Inv1, TypeOK, ProcessTyped, disk, writer, process, vars,
         Busy
<1>13. ASSUME NEW t \in Txns, LogFails(t) PROVE ProcessTyped'
  BY <1>13
     DEF LogFails, Inv1, TypeOK, ProcessTyped, disk, writer, process, vars,
         Busy
<1>14. ASSUME NEW t \in Txns, SyncLog(t) PROVE ProcessTyped'
  BY <1>14
     DEF SyncLog, Inv1, TypeOK, ProcessTyped, disk, writer, process, vars, Busy
<1>15. ASSUME NEW t \in Txns, Mark(t) PROVE ProcessTyped'
  BY <1>15, RecordsTyped DEF Mark, Inv1, TypeOK, ProcessTyped, disk, writer
<1>16. ASSUME NEW t \in Txns, NEW k \in Keys, Log(t, k) PROVE ProcessTyped'
  BY <1>16, RecordsTyped DEF Log, Inv1, TypeOK, ProcessTyped, writer
<1>17. ASSUME NEW t \in Txns, NEW k \in Keys, LogInNewFile(t, k) PROVE ProcessTyped'
  BY <1>17, RecordsTyped DEF LogInNewFile, Inv1, TypeOK, ProcessTyped
<1>18. CASE EmptySequence \/ Shutdown
  <2>1. CASE EmptySequence
    BY <2>1 DEF EmptySequence, Inv1, TypeOK, ProcessTyped, writer
  <2>2. CASE Shutdown
    <3>1. lastSequence' \in Nat
      BY <2>2 DEF Shutdown, Inv1, TypeOK, ProcessTyped
    <3>2. onDisk' \subseteq Nat
      BY <2>2, <3>1 DEF Shutdown, Inv1, TypeOK, ProcessTyped
    <3>3. doomed' \subseteq Files
      BY <2>2 DEF Shutdown, Inv1, TypeOK, LogsTyped
    <3> QED
      BY <2>2, <3>1, <3>2, <3>3 DEF Shutdown, Inv1, TypeOK, ProcessTyped
  <2> QED
    BY <1>18, <2>1, <2>2
<1>19. CASE Exit
  BY <1>19 DEF Exit, Vanish, Inv1, TypeOK, ProcessTyped, disk
<1>20. CASE Crash
  BY <1>20 DEF Crash, Vanish, Inv1, TypeOK, ProcessTyped
<1>21. CASE UNCHANGED vars
  BY <1>21 DEF vars, Inv1, TypeOK, ProcessTyped, disk, writer, process, Busy
<1> QED
  BY <1>1, <1>2, <1>3, <1>4, <1>5, <1>6, <1>7, <1>8, <1>9, <1>10, <1>11,
     <1>12, <1>13, <1>14, <1>15, <1>16, <1>17, <1>18, <1>19, <1>20, <1>21
     DEF Next

(* The transactions keep their types. *)
LEMMA TxnsTypedKept == Inv1 /\ [Next]_vars => TxnsTyped'
<1> SUFFICES ASSUME Inv1, [Next]_vars PROVE TxnsTyped'
  OBVIOUS
<1>1. CASE Initialize \/ Replay \/ ReplayStops \/ RecoveryFails
  BY <1>1
     DEF Initialize, Replay, ReplayStops, RecoveryFails, Inv1, TypeOK,
         TxnsTyped, txns, vars, Busy
<1>2. CASE Sweep \/ TakeUpNumbers \/ Flush \/ Close
  BY <1>2
     DEF Sweep, TakeUpNumbers, Flush, Close, Inv1, TypeOK, TxnsTyped, txns,
         vars, Busy
<1>3. CASE EmptySequence \/ Shutdown \/ TruncateLogs
  BY <1>3
     DEF EmptySequence, Shutdown, TruncateLogs, Inv1, TypeOK, TxnsTyped, txns,
         vars, Busy
<1>4. ASSUME NEW t \in Txns, Archive(t) \/ GiveUpFile(t) \/ LogFails(t) \/ SyncLog(t)
      PROVE  TxnsTyped'
  BY <1>4
     DEF Archive, GiveUpFile, LogFails, SyncLog, Inv1, TypeOK, TxnsTyped,
         txns, vars, Busy
<1>5. ASSUME NEW t \in Txns, Mark(t) PROVE TxnsTyped'
  BY <1>5 DEF Mark, Inv1, TypeOK, TxnsTyped, txns, vars, Busy
<1>6. ASSUME NEW t \in Txns, NEW k \in Keys, Log(t, k) \/ LogInNewFile(t, k)
      PROVE  TxnsTyped'
  BY <1>6 DEF Log, LogInNewFile, Inv1, TypeOK, TxnsTyped, txns, vars, Busy
<1>7. ASSUME NEW t \in Txns, Prepare(t) PROVE TxnsTyped'
  <2>1. TouchedKeys[t] \in SUBSET Keys
    BY TouchedAssumption
  <2>2. snapshot + 1 \in Nat
    BY DEF Inv1, TypeOK, ProcessTyped
  <2> QED
    BY <1>7, <2>1, <2>2 DEF Prepare, Inv1, TypeOK, TxnsTyped, Busy
<1>8. CASE Exit \/ Crash
  BY <1>8 DEF Exit, Crash, Vanish, Inv1, TypeOK, TxnsTyped, Busy
<1>9. CASE UNCHANGED vars
  BY <1>9 DEF vars, Inv1, TypeOK, TxnsTyped, txns, Busy
<1> QED
  BY <1>1, <1>2, <1>3, <1>4, <1>5, <1>6, <1>7, <1>8, <1>9 DEF Next

(* So does the history. *)
LEMMA HistoryTypedKept == Inv1 /\ [Next]_vars => HistoryTyped'
<1> SUFFICES ASSUME Inv1, [Next]_vars PROVE HistoryTyped'
  OBVIOUS
<1>1. CASE Initialize \/ Replay \/ ReplayStops \/ RecoveryFails \/ Sweep
  BY <1>1
     DEF Initialize, Replay, ReplayStops, RecoveryFails, Sweep, Inv1, TypeOK,
         HistoryTyped, history, vars
<1>2. CASE TakeUpNumbers \/ Flush \/ Close \/ EmptySequence \/ Shutdown \/ TruncateLogs
  BY <1>2
     DEF TakeUpNumbers, Flush, Close, EmptySequence, Shutdown, TruncateLogs,
         Inv1, TypeOK, ProcessTyped, HistoryTyped, history, vars
<1>3. CASE Exit \/ Crash
  BY <1>3 DEF Exit, Crash, Inv1, TypeOK, HistoryTyped, history, vars
<1>4. ASSUME NEW t \in Txns, Prepare(t) \/ Archive(t) \/ GiveUpFile(t) \/ LogFails(t) \/ SyncLog(t)
      PROVE  HistoryTyped'
  BY <1>4
     DEF Prepare, Archive, GiveUpFile, LogFails, SyncLog, Inv1, TypeOK,
         HistoryTyped, history, vars
<1>5. ASSUME NEW t \in Txns, NEW k \in Keys, Log(t, k) \/ LogInNewFile(t, k)
      PROVE  HistoryTyped'
  BY <1>5 DEF Log, LogInNewFile, Inv1, TypeOK, HistoryTyped, history, vars
<1>6. ASSUME NEW t \in Txns, Mark(t) PROVE HistoryTyped'
  BY <1>6, RecordsTyped DEF Mark, Inv1, TypeOK, HistoryTyped
<1>7. CASE UNCHANGED vars
  BY <1>7 DEF vars, Inv1, TypeOK, HistoryTyped, history
<1> QED
  BY <1>1, <1>2, <1>3, <1>4, <1>5, <1>6, <1>7 DEF Next

(***************************************************************************)
(* The writer while there is one.                                          *)
(***************************************************************************)
LEMMA CurrentFacts ==
    ASSUME Inv1, current # 0
    PROVE  /\ CurrentFile \in DOMAIN logs /\ CurrentFile \in Files
           /\ logs[CurrentFile] \in Seq(Record \cup {Torn})
           /\ Len(logs[CurrentFile]) \in Nat
           /\ synced \in Nat /\ synced <= Len(logs[CurrentFile])
           /\ current \in Nat /\ nextFile = current + 1
           /\ switching = Nobody
<1>1. CurrentFile \in DOMAIN logs /\ synced <= Len(logs[CurrentFile])
  BY DEF Inv1, TypeOK, CurrentTyped
<1>2. logs[CurrentFile] \in Seq(Record \cup {Torn}) /\ CurrentFile \in Files
  BY <1>1 DEF Inv1, TypeOK, LogsTyped
<1>3. synced \in Nat /\ current \in Nat
  BY DEF Inv1, TypeOK, ProcessTyped
<1>4. nextFile = current + 1 /\ switching = Nobody
  BY DEF Inv1, WriterOK
<1> QED
  BY <1>1, <1>2, <1>3, <1>4

(* A commit is under way only while the database is open. *)
LEMMA BusyFacts ==
    ASSUME Inv1, NEW t \in Txns, pc[t] \in Busy
    PROVE  phase = "open" /\ (switching = Nobody => current # 0)
  BY DEF Inv1, WriterOK

(* A file of the log has a name and a length. *)
LEMMA LengthTyped ==
    ASSUME LogsTyped, NEW f \in DOMAIN logs
    PROVE  f \in Files /\ Len(logs[f]) \in Nat
  BY DEF LogsTyped

(***************************************************************************)
(* The ways in which the files change, and what becomes of their records.  *)
(* The current file loses its tail when its writer goes.                   *)
(***************************************************************************)
LEMMA CutFile ==
    ASSUME Inv1, current # 0, current' = 0,
           NEW file \in Remains(logs[CurrentFile], synced),
           logs' = With(CurrentFile, file)
    PROVE  /\ LogsTyped' /\ DOMAIN logs' = DOMAIN logs
           /\ \A f \in DOMAIN logs \ {CurrentFile} : logs'[f] = logs[f]
           /\ \A r : Safe(r) => Safe(r)'
           /\ \A r : r # Torn /\ Written(r)' => Written(r)
<1>1. /\ CurrentFile \in DOMAIN logs /\ CurrentFile \in Files
      /\ logs[CurrentFile] \in Seq(Record \cup {Torn})
      /\ synced \in Nat /\ synced <= Len(logs[CurrentFile])
  BY CurrentFacts
<1>2. /\ file \in Seq(Record \cup {Torn})
      /\ synced <= Len(file)
      /\ \A j \in 1 .. synced : file[j] = logs[CurrentFile][j]
      /\ \A j \in 1 .. Len(file) :
            \/ file[j] = Torn
            \/ j \in 1 .. Len(logs[CurrentFile]) /\ file[j] = logs[CurrentFile][j]
  BY <1>1, RemainsKeeps
<1>3. LogsTyped
  BY DEF Inv1, TypeOK
<1>4. /\ DOMAIN logs' = DOMAIN logs /\ logs'[CurrentFile] = file
      /\ \A g \in DOMAIN logs \ {CurrentFile} : logs'[g] = logs[g]
      /\ LogsTyped'
  BY <1>1, <1>2, <1>3, WithType
<1>5. CurrentFile' \notin DOMAIN logs
  BY <1>3 DEF CurrentFile, LogsTyped, Files
<1>6. ASSUME NEW r, Safe(r) PROVE Safe(r)'
  <2>1. PICK f \in DOMAIN logs : \E i \in 1 .. Bound(f) : logs[f][i] = r
    BY <1>6 DEF Safe
  <2>2. PICK i \in 1 .. Bound(f) : logs[f][i] = r
    BY <2>1
  <2>3. Bound(f)' = Len(logs'[f])
    BY <1>5 DEF Bound
  <2>4. Len(logs[f]) \in Nat /\ Len(file) \in Nat
    BY <1>2, <1>3, LengthTyped
  <2>5. CASE f = CurrentFile
    <3>1. i \in 1 .. Len(file) /\ file[i] = r
      BY <1>1, <1>2, <2>2, <2>4, <2>5 DEF Bound
    <3> QED
      BY <1>4, <2>3, <2>5, <3>1 DEF Safe
  <2>6. CASE f # CurrentFile
    <3>1. logs'[f] = logs[f] /\ i \in 1 .. Len(logs[f])
      BY <1>4, <2>2, <2>6 DEF Bound
    <3> QED
      BY <1>4, <2>2, <2>3, <3>1 DEF Safe
  <2> QED
    BY <2>5, <2>6
<1>7. ASSUME NEW r, r # Torn, Written(r)' PROVE Written(r)
  BY <1>1, <1>2, <1>4, <1>7 DEF Written
<1> QED
  BY <1>4, <1>6, <1>7

(* A record is added to the current file. *)
LEMMA AppendToFile ==
    ASSUME Inv1, current # 0, NEW r0 \in Record,
           logs' = With(CurrentFile, Append(logs[CurrentFile], r0)),
           current' = current, synced' = synced
    PROVE  /\ LogsTyped' /\ CurrentTyped' /\ DOMAIN logs' = DOMAIN logs
           /\ \A f \in DOMAIN logs \ {CurrentFile} : logs'[f] = logs[f]
           /\ \A r : Safe(r) => Safe(r)'
           /\ \A r : Written(r) => Written(r)'
           /\ \A r : Written(r)' => Written(r) \/ r = r0
           /\ Written(r0)'
<1> DEFINE old == logs[CurrentFile]
           new == Append(old, r0)
<1>1. /\ CurrentFile \in DOMAIN logs /\ CurrentFile \in Files
      /\ old \in Seq(Record \cup {Torn}) /\ Len(old) \in Nat
      /\ synced \in Nat /\ synced <= Len(old)
  BY CurrentFacts
<1>2. /\ new \in Seq(Record \cup {Torn}) /\ Len(new) = Len(old) + 1
      /\ \A j \in 1 .. Len(old) : new[j] = old[j]
      /\ new[Len(old) + 1] = r0
  BY <1>1
<1> HIDE DEF new
<1>3. LogsTyped /\ logs' = With(CurrentFile, new)
  BY DEF Inv1, TypeOK, new
<1>4. /\ DOMAIN logs' = DOMAIN logs /\ logs'[CurrentFile] = new
      /\ \A g \in DOMAIN logs \ {CurrentFile} : logs'[g] = logs[g]
      /\ LogsTyped'
  BY <1>1, <1>2, <1>3, WithType
<1>5. CurrentFile' = CurrentFile
  BY DEF CurrentFile
<1>6. CurrentTyped'
  BY <1>1, <1>2, <1>4, <1>5 DEF CurrentTyped
<1>7. \A f \in DOMAIN logs : Len(logs[f]) \in Nat
  BY <1>3, LengthTyped
<1>8. \A f \in DOMAIN logs : \A i \in 1 .. Len(logs[f]) :
          i \in 1 .. Len(logs'[f]) /\ logs'[f][i] = logs[f][i]
  BY <1>1, <1>2, <1>4, <1>7
<1>9. ASSUME NEW r, Safe(r) PROVE Safe(r)'
  <2>0. PICK f \in DOMAIN logs : \E i \in 1 .. Bound(f) : logs[f][i] = r
    BY <1>9 DEF Safe
  <2>1. PICK i \in 1 .. Bound(f) : logs[f][i] = r
    BY <2>0
  <2>2. i \in 1 .. Len(logs[f])
    BY <1>1, <1>7, <2>1 DEF Bound
  <2>3. i \in 1 .. Bound(f)'
    BY <1>4, <1>5, <2>1 DEF Bound
  <2> QED
    BY <1>4, <1>8, <2>1, <2>2, <2>3 DEF Safe
<1>10. ASSUME NEW r, Written(r) PROVE Written(r)'
  BY <1>4, <1>8, <1>10 DEF Written
<1>11. ASSUME NEW r, Written(r)' PROVE Written(r) \/ r = r0
  <2>0. PICK f \in DOMAIN logs : \E i \in 1 .. Len(logs'[f]) : logs'[f][i] = r
    BY <1>4, <1>11 DEF Written
  <2>1. PICK i \in 1 .. Len(logs'[f]) : logs'[f][i] = r
    BY <2>0
  <2>2. CASE f = CurrentFile
    <3>1. i \in 1 .. Len(old) \/ i = Len(old) + 1
      BY <1>1, <1>2, <1>4, <2>1, <2>2
    <3> QED
      BY <1>1, <1>2, <1>4, <2>1, <2>2, <3>1 DEF Written
  <2>3. CASE f # CurrentFile
    BY <1>4, <2>1, <2>3 DEF Written
  <2> QED
    BY <2>2, <2>3
<1>12. Written(r0)'
  <2>1. Len(old) + 1 \in 1 .. Len(logs'[CurrentFile])
    BY <1>1, <1>2, <1>4
  <2> QED
    BY <1>1, <1>2, <1>4, <2>1 DEF Written
<1> QED
  BY <1>4, <1>6, <1>9, <1>10, <1>11, <1>12

(* The next file is created, empty or with its first record. *)
LEMMA CreateFile ==
    ASSUME Inv1, current = 0, NEW n \in Nat, n # 0, current' = n,
           <<"wal", n>> \notin DOMAIN logs, synced' = 0,
           NEW s \in Seq(Record \cup {Torn}), logs' = With(<<"wal", n>>, s)
    PROVE  /\ LogsTyped' /\ CurrentTyped'
           /\ DOMAIN logs' = DOMAIN logs \cup {<<"wal", n>>}
           /\ \A f \in DOMAIN logs : logs'[f] = logs[f]
           /\ \A r : Safe(r) => Safe(r)'
           /\ \A r : Written(r) => Written(r)'
           /\ \A r : Written(r)' => Written(r) \/ \E i \in 1 .. Len(s) : s[i] = r
           /\ \A i \in 1 .. Len(s) : Written(s[i])'
<1> DEFINE new == <<"wal", n>>
<1>1. LogsTyped /\ new \in Files
  BY FileNames DEF Inv1, TypeOK
<1>2. /\ DOMAIN logs' = DOMAIN logs \cup {new} /\ logs'[new] = s
      /\ \A g \in DOMAIN logs \ {new} : logs'[g] = logs[g]
      /\ LogsTyped'
  BY <1>1, WithType
<1>3. CurrentFile' = new
  BY DEF CurrentFile
<1>4. Len(s) \in Nat
  OBVIOUS
<1>5. CurrentTyped'
  BY <1>2, <1>3, <1>4 DEF CurrentTyped
<1>6. CurrentFile \notin DOMAIN logs
  BY <1>1 DEF LogsTyped, Files, CurrentFile
<1>7. ASSUME NEW r, Safe(r) PROVE Safe(r)'
  <2>0. PICK f \in DOMAIN logs : \E i \in 1 .. Bound(f) : logs[f][i] = r
    BY <1>7 DEF Safe
  <2>1. PICK i \in 1 .. Bound(f) : logs[f][i] = r
    BY <2>0
  <2>2. Bound(f)' = Bound(f) /\ logs'[f] = logs[f]
    BY <1>2, <1>3, <1>6 DEF Bound
  <2> QED
    BY <1>2, <2>1, <2>2 DEF Safe
<1>8. ASSUME NEW r, Written(r) PROVE Written(r)'
  BY <1>2, <1>8 DEF Written
<1>9. ASSUME NEW r, Written(r)'
      PROVE  Written(r) \/ \E i \in 1 .. Len(s) : s[i] = r
  BY <1>2, <1>9 DEF Written
<1>10. ASSUME NEW i \in 1 .. Len(s) PROVE Written(s[i])'
  BY <1>2, <1>10 DEF Written
<1> QED
  BY <1>2, <1>5, <1>7, <1>8, <1>9, <1>10

(* The current file moves to the archive, over a file of the same name. *)
LEMMA ArchiveFile ==
    ASSUME Inv1, current # 0, NEW t, Archive(t)
    PROVE  /\ LogsTyped' /\ CurrentTyped' /\ <<"archive", current>> \in Files
           /\ DOMAIN logs' = (DOMAIN logs \ {CurrentFile}) \cup {<<"archive", current>>}
           /\ logs'[<<"archive", current>>] = logs[CurrentFile]
           /\ \A f \in DOMAIN logs \ {CurrentFile, <<"archive", current>>} :
                 logs'[f] = logs[f]
           /\ \A r : Safe(r) => Safe(r)' \/ \E i \in 1 .. Len(logs[<<"archive", current>>]) :
                 <<"archive", current>> \in DOMAIN logs
                 /\ logs[<<"archive", current>>][i] = r
           /\ \A r : Written(r) => Written(r)' \/ \E i \in 1 .. Len(logs[<<"archive", current>>]) :
                 <<"archive", current>> \in DOMAIN logs
                 /\ logs[<<"archive", current>>][i] = r
           /\ \A r : Written(r)' => Written(r)
<1> DEFINE arch == <<"archive", current>>
<1>1. /\ CurrentFile \in DOMAIN logs /\ current \in Nat
      /\ logs[CurrentFile] \in Seq(Record \cup {Torn})
      /\ synced \in Nat /\ synced <= Len(logs[CurrentFile])
      /\ Len(logs[CurrentFile]) \in Nat
  BY CurrentFacts
<1>2. arch \in Files /\ arch # CurrentFile
  BY <1>1, FileNames DEF CurrentFile
<1>3. LogsTyped /\ CurrentTyped'
  BY DEF Inv1, TypeOK, Archive, CurrentTyped
<1>4. /\ DOMAIN logs' = (DOMAIN logs \ {CurrentFile}) \cup {arch}
      /\ logs'[arch] = logs[CurrentFile]
      /\ \A f \in DOMAIN logs \ {CurrentFile, arch} : logs'[f] = logs[f]
  BY DEF Archive
<1>5. LogsTyped'
  BY <1>1, <1>2, <1>3, <1>4 DEF LogsTyped
<1>6. \A f \in DOMAIN logs' : Bound(f)' = Len(logs'[f])
  <2>1. CurrentFile' \notin Files
    BY DEF CurrentFile, Archive, Files
  <2> QED
    BY <1>5, <2>1 DEF Bound, LogsTyped
<1>7. ASSUME NEW r, Written(r)
      PROVE  \/ \E f \in DOMAIN logs' : \E i \in 1 .. Len(logs'[f]) : logs'[f][i] = r
             \/ arch \in DOMAIN logs /\ \E i \in 1 .. Len(logs[arch]) : logs[arch][i] = r
  <2>1. PICK f \in DOMAIN logs : \E i \in 1 .. Len(logs[f]) : logs[f][i] = r
    BY <1>7 DEF Written
  <2>2. CASE f = CurrentFile
    BY <1>4, <2>1, <2>2
  <2>3. CASE f = arch
    BY <2>1, <2>3
  <2>4. CASE f \notin {CurrentFile, arch}
    BY <1>4, <2>1, <2>4
  <2> QED
    BY <2>2, <2>3, <2>4
<1>8. ASSUME NEW r, Safe(r) PROVE Written(r)
  <2>1. \A f \in DOMAIN logs : \A i \in 1 .. Bound(f) : i \in 1 .. Len(logs[f])
    BY <1>1 DEF Bound
  <2> QED
    BY <1>8, <2>1 DEF Safe, Written
<1>9. ASSUME NEW r, Written(r)' PROVE Written(r)
  <2>1. PICK f \in DOMAIN logs' : \E i \in 1 .. Len(logs'[f]) : logs'[f][i] = r
    BY <1>9 DEF Written
  <2>2. CASE f = arch
    BY <1>1, <1>4, <2>1, <2>2 DEF Written
  <2>3. CASE f # arch
    BY <1>4, <2>1, <2>3 DEF Written
  <2> QED
    BY <2>2, <2>3
<1>10. \A r : Written(r) =>
          Written(r)' \/ \E i \in 1 .. Len(logs[arch]) :
                            arch \in DOMAIN logs /\ logs[arch][i] = r
  BY <1>7 DEF Written
<1>11. \A r : Safe(r) =>
          Safe(r)' \/ \E i \in 1 .. Len(logs[arch]) :
                         arch \in DOMAIN logs /\ logs[arch][i] = r
  BY <1>6, <1>7, <1>8 DEF Safe
<1> QED
  BY <1>2, <1>3, <1>4, <1>5, <1>9, <1>10, <1>11

(* A file is deleted that nobody writes. *)
LEMMA DeleteFile ==
    ASSUME Inv1, NEW f, f # CurrentFile \/ current = 0, logs' = Without(f),
           current' = current, synced' = synced
    PROVE  /\ LogsTyped' /\ CurrentTyped' /\ DOMAIN logs' = DOMAIN logs \ {f}
           /\ \A g \in DOMAIN logs' : logs'[g] = logs[g]
           /\ \A r : Written(r)' => Written(r)
<1>1. /\ DOMAIN logs' = DOMAIN logs \ {f} /\ LogsTyped'
      /\ \A g \in DOMAIN logs' : logs'[g] = logs[g]
  BY WithoutType DEF Inv1, TypeOK
<1>2. CurrentTyped'
  BY <1>1, CurrentFacts DEF CurrentTyped, CurrentFile
<1>3. ASSUME NEW r, Written(r)' PROVE Written(r)
  BY <1>1, <1>3 DEF Written
<1> QED
  BY <1>1, <1>2, <1>3

(***************************************************************************)
(* The files and the writer keep their types.                              *)
(***************************************************************************)
LEMMA InitializeFacts ==
    ASSUME Inv1, Initialize
    PROVE  /\ current = 0
           /\ \E n \in Nat :
                 /\ \A f \in WalFiles : f[2] \in Nat /\ f[2] <= n
                 /\ current' = n + 1 /\ nextFile' = n + 2 /\ synced' = 0
                 /\ logs' = With(<<"wal", n + 1>>, <<>>)
                 /\ <<"wal", n + 1>> \notin DOMAIN logs
                 /\ IF WalFiles = {} THEN phase' = "number" ELSE phase' = "replay"
<1>1. PICK n \in {f[2] : f \in WalFiles} \cup {0} :
          /\ \A f \in WalFiles : f[2] <= n
          /\ current' = n + 1 /\ nextFile' = n + 2
          /\ logs' = With(<<"wal", n + 1>>, <<>>)
          /\ phase' = IF n > 0 THEN "replay" ELSE "number"
  BY DEF Initialize
<1>2. \A f \in WalFiles : f[2] \in Nat /\ f[2] # 0
  BY DEF Inv1, TypeOK, LogsTyped, WalFiles, Files
<1>3. n \in Nat
  BY <1>2
<1>4. <<"wal", n + 1>> \notin DOMAIN logs
  <2>1. SUFFICES ASSUME <<"wal", n + 1>> \in DOMAIN logs PROVE FALSE
    OBVIOUS
  <2>2. <<"wal", n + 1>> \in WalFiles
    BY <2>1 DEF WalFiles
  <2>3. n + 1 <= n
    BY <1>1, <2>2
  <2> QED
    BY <1>3, <2>3
<1>5. n > 0 <=> WalFiles # {}
  <2>1. CASE WalFiles = {}
    BY <2>1
  <2>2. CASE WalFiles # {}
    <3>1. PICK f \in WalFiles : TRUE
      BY <2>2
    <3>2. f[2] > 0 /\ f[2] <= n
      BY <1>1, <1>2
    <3> QED
      BY <1>2, <1>3, <2>2, <3>2
  <2> QED
    BY <2>1, <2>2
<1>6. IF WalFiles = {} THEN phase' = "number" ELSE phase' = "replay"
  BY <1>1, <1>5
<1>7. current = 0 /\ synced' = 0
  BY DEF Initialize, Inv1, WriterOK
<1> QED
  BY <1>1, <1>2, <1>3, <1>4, <1>6, <1>7

(* A crash may cut the current file and deletes none. *)
LEMMA CrashFacts ==
    ASSUME Inv1, Crash
    PROVE  LogsTyped' /\ current' = 0 /\ DOMAIN logs' = DOMAIN logs
<1>1. CASE current = 0
  BY <1>1 DEF Crash, Vanish, Inv1, TypeOK, LogsTyped
<1>2. CASE current # 0
  BY <1>2, CutFile DEF Crash, Vanish
<1> QED
  BY <1>1, <1>2

(* The files keep their types, and the writer has its file. *)
LEMMA FilesTypedKept == Inv1 /\ [Next]_vars => (LogsTyped /\ CurrentTyped)'
<1> SUFFICES ASSUME Inv1, [Next]_vars PROVE (LogsTyped /\ CurrentTyped)'
  OBVIOUS
<1>1. CASE Initialize
  <2>1. PICK n \in Nat :
            /\ current' = n + 1 /\ synced' = 0
            /\ logs' = With(<<"wal", n + 1>>, <<>>)
            /\ <<"wal", n + 1>> \notin DOMAIN logs
    BY <1>1, InitializeFacts
  <2>2. current = 0 /\ n + 1 \in Nat /\ n + 1 # 0
    BY <1>1, InitializeFacts
  <2>3. <<>> \in Seq(Record \cup {Torn})
    OBVIOUS
  <2> QED
    BY <2>1, <2>2, <2>3, CreateFile
<1>2. CASE \/ Replay \/ ReplayStops \/ RecoveryFails \/ TakeUpNumbers \/ Flush
           \/ EmptySequence
           \/ \E t \in Txns : Prepare(t) \/ LogFails(t) \/ Mark(t)
  BY <1>2
     DEF Replay, ReplayStops, RecoveryFails, TakeUpNumbers, Prepare, LogFails,
         Mark, Flush, EmptySequence, Inv1, TypeOK, LogsTyped, CurrentTyped, CurrentFile,
         disk, writer, vars
<1>3. CASE Sweep
  <2>1. CASE doomed = {}
    BY <1>3, <2>1
       DEF Sweep, Inv1, TypeOK, LogsTyped, CurrentTyped, CurrentFile, writer
  <2>2. CASE doomed # {}
    <3>1. PICK f \in doomed : logs' = Without(f)
      BY <1>3, <2>2 DEF Sweep
    <3>2. f # CurrentFile
      BY <1>3 DEF Sweep, Inv1, WriterOK
    <3> QED
      BY <1>3, <3>1, <3>2, DeleteFile DEF Sweep, writer
  <2> QED
    BY <2>1, <2>2
<1>4. ASSUME NEW t \in Txns, Archive(t) PROVE (LogsTyped /\ CurrentTyped)'
  <2>1. current # 0
    BY <1>4, BusyFacts DEF Archive, CanLog, Busy
  <2> QED
    BY <1>4, <2>1, ArchiveFile
<1>5. ASSUME NEW t \in Txns, GiveUpFile(t) PROVE (LogsTyped /\ CurrentTyped)'
  <2>1. current # 0
    BY <1>5, BusyFacts DEF GiveUpFile, CanLog, Busy
  <2> QED
    BY <1>5, <2>1, CutFile DEF GiveUpFile, CurrentTyped
<1>6. ASSUME NEW t \in Txns, SyncLog(t) PROVE (LogsTyped /\ CurrentTyped)'
  <2>1. current # 0
    BY <1>6, BusyFacts DEF SyncLog, Busy
  <2> QED
    BY <1>6, <2>1, CurrentFacts
       DEF SyncLog, Inv1, TypeOK, LogsTyped, CurrentTyped, CurrentFile, disk
<1>7. ASSUME NEW t \in Txns, NEW k \in Keys, Log(t, k) PROVE (LogsTyped /\ CurrentTyped)'
  <2>1. current # 0
    BY <1>7, BusyFacts DEF Log, CanLog, Busy
  <2>2. RecordOf(t, k) \in Record
    BY RecordsTyped DEF Inv1, TypeOK
  <2> QED
    BY <1>7, <2>1, <2>2, AppendToFile DEF Log, writer
<1>8. ASSUME NEW t \in Txns, NEW k \in Keys, LogInNewFile(t, k) PROVE (LogsTyped /\ CurrentTyped)'
  <2>1. /\ current = 0 /\ synced = 0 /\ nextFile # 0 /\ nextFile \in Nat
        /\ \A f \in WalFiles : f[2] < nextFile
    BY <1>8, SentinelAssumption
       DEF LogInNewFile, Inv1, WriterOK, TypeOK, ProcessTyped
  <2>2. <<"wal", nextFile>> \notin DOMAIN logs
    BY <2>1 DEF WalFiles
  <2>3. <<RecordOf(t, k)>> \in Seq(Record \cup {Torn})
    BY RecordsTyped DEF Inv1, TypeOK
  <2> QED
    BY <1>8, <2>1, <2>2, <2>3, CreateFile DEF LogInNewFile
<1>9. CASE Close
  <2>1. CASE current # 0
    BY <1>9, <2>1, CurrentFacts
       DEF Close, Inv1, TypeOK, LogsTyped, CurrentTyped, CurrentFile
  <2>2. CASE current = 0
    BY <1>9, <2>2 DEF Close, Inv1, TypeOK, LogsTyped, CurrentTyped
  <2> QED
    BY <2>1, <2>2
<1>10. CASE Shutdown
  <2>1. current # 0
    BY <1>10 DEF Shutdown, Inv1, WriterOK
  <2> QED
    BY <1>10, <2>1, CutFile DEF Shutdown, CurrentTyped
<1>11. CASE TruncateLogs
  <2>1. current = 0
    BY <1>11 DEF TruncateLogs, Inv1, WriterOK
  <2> QED
    BY <1>11, <2>1, DeleteFile DEF TruncateLogs, writer
<1>12. CASE Exit
  BY <1>12 DEF Exit, Vanish, Inv1, TypeOK, LogsTyped, CurrentTyped, disk
<1>13. CASE Crash
  <2>1. LogsTyped' /\ current' = 0
    BY <1>13, CrashFacts
  <2> QED
    BY <2>1 DEF CurrentTyped
<1>14. CASE UNCHANGED vars
  BY <1>14
     DEF vars, Inv1, TypeOK, LogsTyped, CurrentTyped, CurrentFile, disk, writer
<1> QED
  BY <1>1, <1>2, <1>3, <1>4, <1>5, <1>6, <1>7, <1>8, <1>9, <1>10, <1>11,
     <1>12, <1>13, <1>14
     DEF Next

(* wal/ gets no new file. *)
LEMMA WalFilesShrink ==
    ASSUME Inv1, DOMAIN logs' \subseteq DOMAIN logs \/ \A f \in DOMAIN logs' :
               f \in DOMAIN logs \/ f[1] = "archive"
    PROVE  WalFiles' \subseteq WalFiles
  BY DEF WalFiles

(* The writer stays what the phase makes of it. *)
LEMMA WriterKept == Inv1 /\ [Next]_vars => WriterOK'
<1> SUFFICES ASSUME Inv1, [Next]_vars PROVE WriterOK'
  OBVIOUS
<1>1. CASE Initialize
  <2>1. PICK n \in Nat :
            /\ \A f \in WalFiles : f[2] \in Nat /\ f[2] <= n
            /\ current' = n + 1 /\ nextFile' = n + 2
            /\ logs' = With(<<"wal", n + 1>>, <<>>)
            /\ phase' \in {"number", "replay"}
    BY <1>1, InitializeFacts
  <2>2. \A f \in WalFiles' : f[2] < nextFile'
    <3>1. WalFiles' \subseteq WalFiles \cup {<<"wal", n + 1>>}
      BY <2>1 DEF WalFiles, With
    <3> QED
      BY <2>1, <3>1
  <2>3. \A t \in Txns : pc'[t] \notin Busy
    BY <1>1 DEF Initialize, Inv1, WriterOK, txns
  <2> QED
    BY <1>1, <2>1, <2>2, <2>3 DEF Initialize, WriterOK
<1>2. CASE \/ Replay \/ ReplayStops \/ RecoveryFails \/ TakeUpNumbers \/ Flush
           \/ EmptySequence
  BY <1>2
     DEF Replay, ReplayStops, RecoveryFails, TakeUpNumbers, Flush, EmptySequence, Inv1,
         WriterOK, TypeOK, TxnsTyped, WalFiles, CurrentFile, Busy, disk,
         writer, process, txns, vars
<1>3. CASE Sweep
  <2>1. /\ DOMAIN logs' \subseteq DOMAIN logs /\ doomed' \subseteq doomed
        /\ phase' \in {"sweep", "number"}
    BY <1>3 DEF Sweep, Without, Restrict
  <2>2. WalFiles' \subseteq WalFiles
    BY <2>1, WalFilesShrink
  <2> QED
    BY <1>3, <2>1, <2>2 DEF Sweep, Inv1, WriterOK, CurrentFile, writer, txns
<1>4. ASSUME NEW t \in Txns, Prepare(t) PROVE WriterOK'
  <2>1. phase = "open" /\ pc[t] = "idle" /\ pc' = [pc EXCEPT ![t] = "logging"]
    BY <1>4 DEF Prepare
  <2>2. switching # Nobody => pc'[switching] = "logging"
    BY <2>1, SentinelAssumption
       DEF Inv1, WriterOK, TypeOK, TxnsTyped, ProcessTyped
  <2> QED
    BY <1>4, <2>1, <2>2 DEF Prepare, Inv1, WriterOK, WalFiles, disk, writer
<1>5. ASSUME NEW t \in Txns, Archive(t) PROVE WriterOK'
  <2>1. phase = "open" /\ current # 0
    BY <1>5, BusyFacts DEF Archive, CanLog, Busy
  <2>2. WalFiles' \subseteq WalFiles
    BY <1>5, WalFilesShrink DEF Archive
  <2>3. pc[t] = "logging"
    BY <1>5 DEF Archive, CanLog
  <2> QED
    BY <1>5, <2>1, <2>2, <2>3, SentinelAssumption
       DEF Archive, Inv1, WriterOK, process, txns
<1>6. ASSUME NEW t \in Txns, GiveUpFile(t) PROVE WriterOK'
  <2>1. phase = "open" /\ current # 0
    BY <1>6, BusyFacts DEF GiveUpFile, CanLog, Busy
  <2>2. DOMAIN logs' = DOMAIN logs
    BY <1>6, <2>1, CutFile DEF GiveUpFile
  <2>3. pc[t] = "logging" /\ WalFiles' \subseteq WalFiles
    BY <1>6, <2>2, WalFilesShrink DEF GiveUpFile, CanLog
  <2> QED
    BY <1>6, <2>1, <2>3, SentinelAssumption
       DEF GiveUpFile, Inv1, WriterOK, process, txns
<1>7. ASSUME NEW t \in Txns, LogFails(t) \/ SyncLog(t)
      PROVE  WriterOK'
  <2>1. phase = "open"
    BY <1>7, BusyFacts DEF LogFails, SyncLog, Busy
  <2> QED
    BY <1>7, <2>1
       DEF LogFails, SyncLog, Inv1, WriterOK, WalFiles, disk, process
<1>8. ASSUME NEW t \in Txns, Mark(t) PROVE WriterOK'
  <2>1. phase = "open" /\ pc[t] = "synced" /\ pc' = [pc EXCEPT ![t] = "committed"]
    BY <1>8, BusyFacts DEF Mark, Busy
  <2>2. switching # Nobody => pc'[switching] = "logging"
    BY <2>1, SentinelAssumption
       DEF Inv1, WriterOK, TypeOK, TxnsTyped, ProcessTyped
  <2> QED
    BY <1>8, <2>1, <2>2 DEF Mark, Inv1, WriterOK, WalFiles, disk, writer
<1>9. ASSUME NEW t \in Txns, NEW k \in Keys, Log(t, k) PROVE WriterOK'
  <2>1. phase = "open" /\ current # 0
    BY <1>9, BusyFacts DEF Log, CanLog, Busy
  <2>2. WalFiles' \subseteq WalFiles
    BY <1>9, <2>1, CurrentFacts, WalFilesShrink DEF Log, With
  <2> QED
    BY <1>9, <2>1, <2>2 DEF Log, Inv1, WriterOK, writer, CanLog
<1>10. ASSUME NEW t \in Txns, NEW k \in Keys, LogInNewFile(t, k) PROVE WriterOK'
  <2>1. phase = "open" /\ nextFile # 0 /\ nextFile \in Nat
        /\ \A f \in WalFiles : f[2] < nextFile
    BY <1>10, SentinelAssumption
       DEF LogInNewFile, Inv1, WriterOK, TypeOK, ProcessTyped
  <2>2. \A f \in WalFiles : f[2] \in Nat
    BY DEF Inv1, TypeOK, LogsTyped, WalFiles, Files
  <2>3. WalFiles' \subseteq WalFiles \cup {<<"wal", nextFile>>}
    BY <1>10 DEF LogInNewFile, WalFiles, With
  <2>4. \A f \in WalFiles' : f[2] < nextFile'
    BY <1>10, <2>1, <2>2, <2>3 DEF LogInNewFile
  <2> QED
    BY <1>10, <2>1, <2>4 DEF LogInNewFile, WriterOK
<1>11. CASE Close
  <2>1. phase = "open" /\ \A t \in Txns : pc[t] \notin Busy
    BY <1>11 DEF Close
  <2>2. switching = Nobody
    BY <2>1 DEF Inv1, WriterOK, TypeOK, ProcessTyped, Busy
  <2> QED
    BY <1>11, <2>1, <2>2 DEF Close, Inv1, WriterOK, txns
<1>12. CASE Shutdown
  <2>1. \A t \in Txns : pc'[t] \notin Busy
    BY <1>12 DEF Shutdown, Inv1, WriterOK, txns
  <2>2. switching' = Nobody
    BY <1>12 DEF Shutdown, Inv1, WriterOK
  <2> QED
    BY <1>12, <2>1, <2>2 DEF Shutdown, WriterOK
<1>13. CASE TruncateLogs
  BY <1>13 DEF TruncateLogs, Inv1, WriterOK, writer, txns
<1>14. CASE Exit \/ Crash
  BY <1>14 DEF Exit, Crash, Vanish, Inv1, WriterOK, TypeOK, TxnsTyped, Busy
<1>15. CASE UNCHANGED vars
  BY <1>15
     DEF vars, Inv1, WriterOK, TypeOK, TxnsTyped, WalFiles, CurrentFile, Busy,
         disk, writer, process, txns
<1> QED
  BY <1>1, <1>2, <1>3, <1>4, <1>5, <1>6, <1>7, <1>8, <1>9, <1>10, <1>11,
     <1>12, <1>13, <1>14, <1>15
     DEF Next

(* Types and writer together are inductive. *)
LEMMA Inv1Kept == Inv1 /\ [Next]_vars => Inv1'
  BY FilesTypedKept, ProcessTypedKept, TxnsTypedKept, HistoryTypedKept,
     WriterKept
     DEF Inv1, TypeOK

(***************************************************************************)
(* Every state of the log, its files and the process has its type.         *)
(***************************************************************************)
THEOREM LogTypes == Spec => []TypeOK
<1>1. Inv1 => TypeOK
  BY DEF Inv1
<1> QED
  BY <1>1, FirstState, Inv1Kept, PTL DEF Spec

(***************************************************************************)
(* From here on: what the log owes to the commits that returned OK.        *)
(***************************************************************************)
InFile(f, r) ==
    f \in DOMAIN logs /\ \E i \in 1 .. Len(logs[f]) : logs[f][i] = r

(* The files do not change; the count of synced records only grows. *)
LEMMA LogsStay ==
    ASSUME Inv1, UNCHANGED logs,
           \/ current' = current /\ synced' = synced
           \/ current' = 0
           \/ current # 0 /\ current' = current /\ synced' = Len(logs[CurrentFile])
    PROVE  /\ \A r : Safe(r) => Safe(r)'
           /\ \A r : Written(r)' <=> Written(r)
<1>1. \A f \in DOMAIN logs : f \in Files /\ Len(logs[f]) \in Nat
  BY LengthTyped DEF Inv1, TypeOK
<1>2. \A f \in DOMAIN logs : \A i \in 1 .. Bound(f) : i \in 1 .. Bound(f)'
  <2>1. CASE current' = current /\ synced' = synced
    BY <2>1 DEF Bound, CurrentFile
  <2>2. CASE current' = 0
    <3>1. \A f \in DOMAIN logs : Bound(f)' = Len(logs[f])
      BY <1>1, <2>2 DEF Bound, CurrentFile, Files
    <3>2. CASE current = 0
      BY <1>1, <3>1, <3>2 DEF Bound, CurrentFile, Files
    <3>3. CASE current # 0
      BY <1>1, <3>1, <3>3, CurrentFacts DEF Bound
    <3> QED
      BY <3>2, <3>3
  <2>3. CASE current # 0 /\ current' = current /\ synced' = Len(logs[CurrentFile])
    <3>1. CurrentFile' = CurrentFile
      BY <2>3 DEF CurrentFile
    <3> QED
      BY <1>1, <2>3, <3>1, CurrentFacts DEF Bound
  <2> QED
    BY <2>1, <2>2, <2>3
<1>3. ASSUME NEW r, Safe(r) PROVE Safe(r)'
  BY <1>2, <1>3 DEF Safe
<1>4. \A r : Written(r)' <=> Written(r)
  BY DEF Written
<1> QED
  BY <1>3, <1>4

(* Only two actions put a record into the log. *)
LoggedBy(r) ==
    \E t \in Txns, k \in Keys :
        (Log(t, k) \/ LogInNewFile(t, k)) /\ r = RecordOf(t, k)
(* A switch overwrites an archived file. *)
Overwritten(r) == \E t \in Txns : Archive(t) /\ InFile(<<"archive", current>>, r)

StepOnLogs ==
    /\ \A r : Safe(r) => Safe(r)' \/ phase \in {"sweep", "truncate"} \/ Overwritten(r)
    /\ \A r : Written(r) => \/ Written(r)' \/ Overwritten(r)
                            \/ phase \in {"sweep", "truncate"}
                            \/ \E t \in Txns : GiveUpFile(t)
                            \/ Crash \/ Shutdown
    /\ \A r : r # Torn /\ Written(r)' => Written(r) \/ LoggedBy(r)

(* What a step does to the records of the log. *)
LEMMA LogsStep == Inv1 /\ [Next]_vars => StepOnLogs
<1> SUFFICES ASSUME Inv1, [Next]_vars PROVE StepOnLogs
  OBVIOUS
<1>1. CASE Initialize
  <2> DEFINE s == <<>>
  <2>1. PICK n \in Nat :
            /\ current' = n + 1 /\ synced' = 0
            /\ logs' = With(<<"wal", n + 1>>, s)
            /\ <<"wal", n + 1>> \notin DOMAIN logs
    BY <1>1, InitializeFacts
  <2>2. current = 0 /\ n + 1 \in Nat /\ n + 1 # 0
    BY <1>1, InitializeFacts
  <2>3. s \in Seq(Record \cup {Torn}) /\ 1 .. Len(s) = {}
    OBVIOUS
  <2> HIDE DEF s
  <2>4. /\ \A r : Safe(r) => Safe(r)'
        /\ \A r : Written(r) => Written(r)'
        /\ \A r : Written(r)' => Written(r) \/ \E i \in 1 .. Len(s) : s[i] = r
    BY <2>1, <2>2, <2>3, CreateFile
  <2> QED
    BY <2>3, <2>4 DEF StepOnLogs
<1>2. CASE \/ Replay \/ TakeUpNumbers \/ Flush \/ EmptySequence
           \/ \E t \in Txns : Prepare(t) \/ LogFails(t) \/ Mark(t)
  <2>1. UNCHANGED logs /\ current' = current /\ synced' = synced
    BY <1>2
       DEF Replay, TakeUpNumbers, Prepare, LogFails, Mark, Flush, EmptySequence,
           disk, writer, vars
  <2> QED
    BY <2>1, LogsStay DEF StepOnLogs
<1>3. CASE ReplayStops \/ RecoveryFails
  <2>1. UNCHANGED logs /\ current' = 0
    BY <1>3 DEF ReplayStops, RecoveryFails, disk, writer, vars
  <2> QED
    BY <2>1, LogsStay DEF StepOnLogs
<1>4. CASE Sweep
  <2>1. CASE doomed = {}
    <3>1. UNCHANGED logs /\ current' = current /\ synced' = synced
      BY <1>4, <2>1 DEF Sweep, writer
    <3> QED
      BY <3>1, LogsStay DEF StepOnLogs
  <2>2. CASE doomed # {}
    <3>1. PICK f \in doomed : logs' = Without(f)
      BY <1>4, <2>2 DEF Sweep
    <3>2. f # CurrentFile /\ current' = current /\ synced' = synced
          /\ phase = "sweep"
      BY <1>4 DEF Sweep, Inv1, WriterOK, writer
    <3> QED
      BY <3>1, <3>2, DeleteFile DEF StepOnLogs
  <2> QED
    BY <2>1, <2>2
<1>5. ASSUME NEW t \in Txns, Archive(t) PROVE StepOnLogs
  <2>1. current # 0
    BY <1>5, BusyFacts DEF Archive, CanLog, Busy
  <2>2. \A r : Written(r) => Written(r)' \/ InFile(<<"archive", current>>, r)
    BY <1>5, <2>1, ArchiveFile DEF InFile
  <2>3. \A r : Safe(r) => Safe(r)' \/ InFile(<<"archive", current>>, r)
    BY <1>5, <2>1, ArchiveFile DEF InFile
  <2>4. \A r : Written(r)' => Written(r)
    BY <1>5, <2>1, ArchiveFile
  <2> QED
    BY <1>5, <2>2, <2>3, <2>4 DEF StepOnLogs, Overwritten
<1>6. ASSUME NEW t \in Txns, GiveUpFile(t) PROVE StepOnLogs
  <2>1. current # 0
    BY <1>6, BusyFacts DEF GiveUpFile, CanLog, Busy
  <2>2. PICK file \in Remains(logs[CurrentFile], synced) :
            logs' = With(CurrentFile, file)
    BY <1>6 DEF GiveUpFile
  <2>3. current' = 0
    BY <1>6 DEF GiveUpFile
  <2> QED
    BY <1>6, <2>1, <2>2, <2>3, CutFile DEF StepOnLogs
<1>7. ASSUME NEW t \in Txns, SyncLog(t) PROVE StepOnLogs
  <2>1. current # 0
    BY <1>7, BusyFacts DEF SyncLog, Busy
  <2>2. UNCHANGED logs /\ current' = current /\ synced' = Len(logs[CurrentFile])
    BY <1>7 DEF SyncLog, disk
  <2> QED
    BY <2>1, <2>2, LogsStay DEF StepOnLogs
<1>8. ASSUME NEW t \in Txns, NEW k \in Keys, Log(t, k) PROVE StepOnLogs
  <2>1. current # 0
    BY <1>8, BusyFacts DEF Log, CanLog, Busy
  <2>2. RecordOf(t, k) \in Record
    BY RecordsTyped DEF Inv1, TypeOK
  <2>3. /\ logs' = With(CurrentFile, Append(logs[CurrentFile], RecordOf(t, k)))
        /\ current' = current /\ synced' = synced
    BY <1>8 DEF Log, writer
  <2>4. /\ \A r : Safe(r) => Safe(r)'
        /\ \A r : Written(r) => Written(r)'
        /\ \A r : Written(r)' => Written(r) \/ r = RecordOf(t, k)
    BY <2>1, <2>2, <2>3, AppendToFile
  <2> QED
    BY <1>8, <2>4 DEF StepOnLogs, LoggedBy
<1>9. ASSUME NEW t \in Txns, NEW k \in Keys, LogInNewFile(t, k) PROVE StepOnLogs
  <2> DEFINE s == <<RecordOf(t, k)>>
  <2>1. /\ current = 0 /\ synced = 0 /\ nextFile # 0 /\ nextFile \in Nat
        /\ \A f \in WalFiles : f[2] < nextFile
    BY <1>9, SentinelAssumption
       DEF LogInNewFile, Inv1, WriterOK, TypeOK, ProcessTyped
  <2>2. <<"wal", nextFile>> \notin DOMAIN logs
    BY <2>1 DEF WalFiles
  <2>3. s \in Seq(Record \cup {Torn}) /\ \A i \in 1 .. Len(s) : s[i] = RecordOf(t, k)
    BY RecordsTyped DEF Inv1, TypeOK
  <2>4. current' = nextFile /\ synced' = 0 /\ logs' = With(<<"wal", nextFile>>, s)
    BY <1>9, <2>1 DEF LogInNewFile
  <2> HIDE DEF s
  <2>5. /\ \A r : Safe(r) => Safe(r)'
        /\ \A r : Written(r) => Written(r)'
        /\ \A r : Written(r)' => Written(r) \/ \E i \in 1 .. Len(s) : s[i] = r
    BY <2>1, <2>2, <2>3, <2>4, CreateFile
  <2> QED
    BY <1>9, <2>3, <2>5 DEF StepOnLogs, LoggedBy
<1>10. CASE Close
  <2>1. current # 0
    BY <1>10 DEF Close, Inv1, WriterOK, TypeOK, ProcessTyped, Busy
  <2>2. /\ UNCHANGED logs /\ current' = current
        /\ synced' = synced \/ synced' = Len(logs[CurrentFile])
    BY <1>10 DEF Close
  <2> QED
    BY <2>1, <2>2, LogsStay DEF StepOnLogs
<1>11. CASE Shutdown
  <2>1. current # 0 /\ current' = 0
    BY <1>11 DEF Shutdown, Inv1, WriterOK
  <2>2. PICK file \in Remains(logs[CurrentFile], synced) :
            logs' = With(CurrentFile, file)
    BY <1>11 DEF Shutdown
  <2> QED
    BY <1>11, <2>1, <2>2, CutFile DEF StepOnLogs
<1>12. CASE TruncateLogs
  <2>1. current = 0 /\ phase = "truncate" /\ current' = current /\ synced' = synced
    BY <1>12 DEF TruncateLogs, Inv1, WriterOK, writer
  <2>2. PICK f \in doomed : logs' = Without(f)
    BY <1>12 DEF TruncateLogs
  <2> QED
    BY <2>1, <2>2, DeleteFile DEF StepOnLogs
<1>13. CASE Exit
  <2>1. UNCHANGED logs /\ current' = 0
    BY <1>13 DEF Exit, Vanish, disk, writer, vars
  <2> QED
    BY <2>1, LogsStay DEF StepOnLogs
<1>14. CASE Crash
  <2>1. CASE current = 0
    <3>1. UNCHANGED logs /\ current' = 0
      BY <1>14, <2>1 DEF Crash, Vanish
    <3> QED
      BY <3>1, LogsStay DEF StepOnLogs
  <2>2. CASE current # 0
    <3>1. PICK file \in Remains(logs[CurrentFile], synced) :
              logs' = With(CurrentFile, file)
      BY <1>14, <2>2 DEF Crash
    <3>2. current' = 0
      BY <1>14 DEF Crash, Vanish
    <3> QED
      BY <1>14, <2>2, <3>1, <3>2, CutFile DEF StepOnLogs
  <2> QED
    BY <2>1, <2>2
<1>15. CASE UNCHANGED vars
  <2>1. UNCHANGED logs /\ current' = current /\ synced' = synced
    BY <1>15 DEF vars, disk, writer, vars
  <2> QED
    BY <2>1, LogsStay DEF StepOnLogs
<1> QED
  BY <1>1, <1>2, <1>3, <1>4, <1>5, <1>6, <1>7, <1>8, <1>9, <1>10, <1>11,
     <1>12, <1>13, <1>14, <1>15
     DEF Next

(***************************************************************************)
(* The records of commits that returned OK and are in no doubt; those of   *)
(* transactions that will become so if nothing fails; and, of both, the    *)
(* records for which there is only the log.                                *)
(***************************************************************************)
Owed == {r \in Acked : r.txn \notin doubted}
IsUnderWay(r) ==
    \E t \in Txns \ doubted :
        pc[t] \in Busy /\ \E k \in TouchedKeys[t] \ todo[t] : r = RecordOf(t, k)
Pending(r) == (r \in Owed /\ r \notin tables) \/ IsUnderWay(r)

BusyWritten ==
    \A t \in Txns \ doubted :
        /\ pc[t] = "logging" =>
              \A k \in TouchedKeys[t] \ todo[t] : Written(RecordOf(t, k))
        /\ pc[t] = "synced" => \A k \in TouchedKeys[t] : Safe(RecordOf(t, k))
SyncedDone == \A t \in Txns : pc[t] = "synced" => todo[t] = {}
(* What a transaction has yet to log is nowhere in the log. *)
Fresh ==
    \A r \in Record : Written(r) =>
        pc[r.txn] # "idle" /\ (pc[r.txn] = "logging" => r.key \notin todo[r.txn])
OwedSafe == \A r \in Owed : r \in tables \/ Safe(r)
OwedStored ==
    /\ phase \in {"sweep", "number", "shutdown", "sequence", "truncate"} => Owed \subseteq tables
    /\ phase = "open" => Owed \subseteq tables \cup volatile
(***************************************************************************)
(* The name of an archived file that will not be given again: while the    *)
(* process is down a file with a higher number is in wal/.                 *)
(***************************************************************************)
Old(f) ==
    /\ phase = "open" => f[2] < nextFile /\ f[2] # current
    /\ phase \in {"down", "refused", "replay"} => \E g \in WalFiles : f[2] < g[2]
ArchiveOld ==
    \A f \in DOMAIN logs : \A r \in Record :
        f[1] = "archive" /\ InFile(f, r) /\ Pending(r) => Old(f)
DownFound ==
    phase \in {"down", "refused"} /\ ~(Owed \subseteq tables) => WalFiles # {}

Inv2 == /\ BusyWritten /\ SyncedDone /\ Fresh
        /\ OwedSafe /\ OwedStored /\ ArchiveOld /\ DownFound
Inv == Inv1 /\ Inv2

(* What is owed are records. *)
LEMMA OwedTyped ==
    ASSUME HistoryTyped
    PROVE  Owed \subseteq Record
<1>1. ASSUME NEW r, r \in Acked PROVE r \in Record
  <2>1. PICK i \in DOMAIN acked : r \in acked[i]
    BY <1>1 DEF Acked, Range
  <2> QED
    BY <2>1 DEF HistoryTyped
<1> QED
  BY <1>1 DEF Owed

(* What is written are records that a replay finds. *)
LEMMA WrittenTyped ==
    ASSUME LogsTyped, NEW r, r # Torn, Written(r)
    PROVE  r \in Record /\ r \in Logged
<1>1. PICK f \in DOMAIN logs : \E i \in 1 .. Len(logs[f]) : logs[f][i] = r
  BY DEF Written
<1>2. r \in Range(logs[f])
  BY <1>1 DEF LogsTyped, Range
<1>3. r \in Logged
  BY <1>2 DEF Logged
<1> QED
  BY <1>3, LoggedTyped

(* A record is never taken for a torn one. *)
LEMMA RecordNotTorn == \A r \in Record : r # Torn
  BY SentinelAssumption DEF Record

(* What is safe is written. *)
LEMMA SafeWritten ==
    ASSUME Inv1, NEW r, Safe(r)
    PROVE  Written(r)
<1>1. \A f \in DOMAIN logs : \A i \in 1 .. Bound(f) : i \in 1 .. Len(logs[f])
  <2>1. \A f \in DOMAIN logs : Len(logs[f]) \in Nat
    BY LengthTyped DEF Inv1, TypeOK
  <2>2. CASE current = 0
    BY <2>1, <2>2, LengthTyped DEF Bound, CurrentFile, Inv1, TypeOK, Files
  <2>3. CASE current # 0
    BY <2>1, <2>3, CurrentFacts DEF Bound
  <2> QED
    BY <2>2, <2>3
<1> QED
  BY <1>1 DEF Safe, Written

(* The last of a sequence of sets joins their union. *)
LEMMA AckedAppended ==
    ASSUME HistoryTyped, NEW S \in SUBSET Record, acked' = Append(acked, S)
    PROVE  Acked' = Acked \cup S
<1>1. /\ DOMAIN acked' = DOMAIN acked \cup {Len(acked) + 1}
      /\ \A i \in DOMAIN acked : acked'[i] = acked[i]
      /\ acked'[Len(acked) + 1] = S
  BY DEF HistoryTyped
<1>2. Range(acked') = Range(acked) \cup {S}
  BY <1>1 DEF Range
<1> QED
  BY <1>2 DEF Acked

(* What is owed grows only when a transaction is marked committed. *)
OwedBack(r) == \/ r \in Owed
               \/ \E t \in Txns : Mark(t) /\ t \notin doubted /\ r \in RecordsOf(t)

OwedGrows == (\A r : r \in Owed' => OwedBack(r)) /\ tables \subseteq tables'

(* Owed records come from Mark alone, and tables lose nothing. *)
LEMMA OwedStep == Inv1 /\ [Next]_vars => OwedGrows
<1> SUFFICES ASSUME Inv1, [Next]_vars PROVE OwedGrows
  OBVIOUS
<1>1. CASE \/ Initialize \/ Replay \/ ReplayStops \/ RecoveryFails \/ Sweep
           \/ TakeUpNumbers \/ Flush \/ Close \/ EmptySequence \/ Shutdown \/ TruncateLogs
           \/ \E t \in Txns : Prepare(t) \/ Archive(t) \/ GiveUpFile(t)
              \/ LogFails(t) \/ SyncLog(t) \/ \E k \in Keys : Log(t, k)
              \/ LogInNewFile(t, k)
  BY <1>1
     DEF Initialize, Replay, ReplayStops, RecoveryFails, Sweep, TakeUpNumbers,
         Prepare, Archive, GiveUpFile, LogFails, SyncLog, Log, LogInNewFile,
         Flush, Close, EmptySequence, Shutdown, TruncateLogs, OwedGrows, OwedBack, Owed,
         Acked, history, disk, writer, process, vars
<1>2. ASSUME NEW t \in Txns, Mark(t) PROVE OwedGrows
  <2>1. Acked' = Acked \cup RecordsOf(t)
    BY <1>2, AckedAppended, RecordsTyped DEF Mark, Inv1, TypeOK
  <2>2. \A r \in RecordsOf(t) : r.txn = t
    BY DEF RecordsOf, RecordOf
  <2> QED
    BY <1>2, <2>1, <2>2 DEF Mark, OwedGrows, OwedBack, Owed, disk
<1>3. CASE Exit
  BY <1>3 DEF Exit, Vanish, OwedGrows, OwedBack, Owed, Acked, history, disk
<1>4. CASE Crash
  BY <1>4 DEF Crash, Vanish, OwedGrows, OwedBack, Owed, Acked
<1>5. CASE UNCHANGED vars
  BY <1>5
     DEF vars, OwedGrows, OwedBack, Owed, Acked, history, disk, writer, process
<1> QED
  BY <1>1, <1>2, <1>3, <1>4, <1>5 DEF Next

(* Only a record that is logged comes under way. *)
UnderWayGrows ==
    \A r : IsUnderWay(r)' => IsUnderWay(r) \/ LoggedBy(r)

(* Of the step of any action. *)
LEMMA UnderWayStep == Inv1 /\ [Next]_vars => UnderWayGrows
<1> SUFFICES ASSUME Inv1, [Next]_vars PROVE UnderWayGrows
  OBVIOUS
<1>1. CASE \/ Initialize \/ Replay \/ ReplayStops \/ RecoveryFails \/ Sweep
           \/ TakeUpNumbers \/ Flush \/ Close \/ EmptySequence \/ Shutdown \/ TruncateLogs
           \/ \E t \in Txns : Archive(t) \/ GiveUpFile(t)
  BY <1>1
     DEF Initialize, Replay, ReplayStops, RecoveryFails, Sweep, TakeUpNumbers,
         Archive, GiveUpFile, Flush, Close, EmptySequence, Shutdown, TruncateLogs,
         UnderWayGrows, IsUnderWay, RecordOf, txns, history, vars
<1>2. ASSUME NEW t \in Txns, Prepare(t) PROVE UnderWayGrows
  <2>1. /\ todo' = [todo EXCEPT ![t] = TouchedKeys[t]]
        /\ pc' = [pc EXCEPT ![t] = "logging"]
        /\ seq' = [seq EXCEPT ![t] = snapshot + 1] /\ doubted' = doubted
    BY <1>2 DEF Prepare, history
  <2>2. TxnsTyped
    BY DEF Inv1, TypeOK
  <2> QED
    BY <2>1, <2>2 DEF UnderWayGrows, IsUnderWay, RecordOf, TxnsTyped
<1>3. ASSUME NEW t \in Txns, LogFails(t) PROVE UnderWayGrows
  <2>1. /\ todo' = [todo EXCEPT ![t] = {}] /\ pc' = [pc EXCEPT ![t] = "aborted"]
        /\ UNCHANGED <<seq, doubted>>
    BY <1>3 DEF LogFails, history
  <2>2. TxnsTyped
    BY DEF Inv1, TypeOK
  <2> QED
    BY <2>1, <2>2 DEF UnderWayGrows, IsUnderWay, RecordOf, TxnsTyped, Busy
<1>4. ASSUME NEW t \in Txns, SyncLog(t) PROVE UnderWayGrows
  <2>1. /\ pc[t] = "logging" /\ pc' = [pc EXCEPT ![t] = "synced"]
        /\ UNCHANGED <<seq, todo, doubted>>
    BY <1>4 DEF SyncLog, history
  <2>2. TxnsTyped
    BY DEF Inv1, TypeOK
  <2> QED
    BY <2>1, <2>2 DEF UnderWayGrows, IsUnderWay, RecordOf, TxnsTyped, Busy
<1>5. ASSUME NEW t \in Txns, Mark(t) PROVE UnderWayGrows
  <2>1. /\ pc' = [pc EXCEPT ![t] = "committed"]
        /\ UNCHANGED <<seq, todo, doubted>>
    BY <1>5 DEF Mark
  <2>2. TxnsTyped
    BY DEF Inv1, TypeOK
  <2> QED
    BY <2>1, <2>2 DEF UnderWayGrows, IsUnderWay, RecordOf, TxnsTyped, Busy
<1>6. ASSUME NEW t \in Txns, NEW k \in Keys, Log(t, k) \/ LogInNewFile(t, k)
      PROVE  UnderWayGrows
  <2>1. /\ todo' = [todo EXCEPT ![t] = @ \ {k}]
        /\ UNCHANGED <<pc, seq, doubted>>
    BY <1>6 DEF Log, LogInNewFile, history
  <2>2. TxnsTyped
    BY DEF Inv1, TypeOK
  <2>3. \A u \in Txns, j \in Keys : j \in todo[u] => j \in todo'[u] \/ (u = t /\ j = k)
    BY <2>1, <2>2 DEF TxnsTyped
  <2>4. TouchedKeys \in [Txns -> SUBSET Keys]
    BY TouchedAssumption
  <2>5. LoggedBy(RecordOf(t, k))
    BY <1>6 DEF LoggedBy
  <2> QED
    BY <2>1, <2>3, <2>4, <2>5 DEF UnderWayGrows, IsUnderWay, RecordOf
<1>7. CASE Exit \/ Crash
  BY <1>7
     DEF Exit, Crash, Vanish, UnderWayGrows, IsUnderWay, Busy, Inv1, TypeOK,
         TxnsTyped
<1>8. CASE UNCHANGED vars
  BY <1>8 DEF vars, UnderWayGrows, IsUnderWay, RecordOf, txns, history
<1> QED
  BY <1>1, <1>2, <1>3, <1>4, <1>5, <1>6, <1>7, <1>8 DEF Next

(* A record becomes pending only when it is logged. *)
LEMMA PendingStep ==
    ASSUME Inv1, SyncedDone, [Next]_vars, NEW r, Pending(r)'
    PROVE  Pending(r) \/ LoggedBy(r)
<1>1. CASE IsUnderWay(r)'
  BY <1>1, UnderWayStep DEF UnderWayGrows, Pending
<1>2. CASE r \in Owed' /\ r \notin tables'
  <2>1. OwedBack(r) /\ r \notin tables
    BY <1>2, OwedStep DEF OwedGrows
  <2>2. CASE r \in Owed
    BY <2>1, <2>2 DEF Pending
  <2>3. ASSUME NEW t \in Txns, Mark(t), t \notin doubted, r \in RecordsOf(t)
        PROVE  IsUnderWay(r)
    <3>1. pc[t] = "synced" /\ todo[t] = {}
      BY <2>3 DEF Mark, SyncedDone
    <3> QED
      BY <2>3, <3>1 DEF IsUnderWay, RecordsOf, Busy
  <2> QED
    BY <2>1, <2>2, <2>3 DEF OwedBack, Pending
<1> QED
  BY <1>1, <1>2 DEF Pending

(* What a step does to a transaction. *)
TxnMoves(u) ==
    /\ pc[u] # "idle" => pc'[u] # "idle" /\ seq'[u] = seq[u]
    /\ pc'[u] = "logging" /\ pc[u] # "idle" =>
          /\ pc[u] = "logging" /\ todo'[u] \subseteq todo[u]
          /\ \A k \in todo[u] \ todo'[u] : Log(u, k) \/ LogInNewFile(u, k)
    /\ pc'[u] = "logging" /\ pc[u] = "idle" => todo'[u] = TouchedKeys[u]
    /\ pc'[u] = "synced" =>
          (pc[u] = "synced" /\ todo'[u] \subseteq todo[u]) \/ SyncLog(u)

(* Every step moves every transaction this way. *)
LEMMA TxnStep == Inv1 /\ [Next]_vars => (\A u \in Txns : TxnMoves(u))
<1> SUFFICES ASSUME Inv1, [Next]_vars PROVE (\A u \in Txns : TxnMoves(u))
  OBVIOUS
<1>1. CASE \/ Initialize \/ Replay \/ ReplayStops \/ RecoveryFails \/ Sweep
           \/ TakeUpNumbers \/ Flush \/ Close \/ EmptySequence \/ Shutdown \/ TruncateLogs
           \/ \E t \in Txns : Archive(t) \/ GiveUpFile(t)
  <2>1. UNCHANGED <<pc, seq, todo>>
    BY <1>1
       DEF Initialize, Replay, ReplayStops, RecoveryFails, Sweep,
           TakeUpNumbers, Archive, GiveUpFile, Flush, Close, EmptySequence, Shutdown,
           TruncateLogs, txns, vars
  <2> QED
    BY <2>1 DEF TxnMoves
<1>2. ASSUME NEW t \in Txns, Prepare(t) PROVE (\A u \in Txns : TxnMoves(u))
  <2>1. /\ pc[t] = "idle" /\ pc' = [pc EXCEPT ![t] = "logging"]
        /\ todo' = [todo EXCEPT ![t] = TouchedKeys[t]]
        /\ seq' = [seq EXCEPT ![t] = snapshot + 1]
    BY <1>2 DEF Prepare, CanLog
  <2>2. TxnsTyped
    BY DEF Inv1, TypeOK
  <2> QED
    BY <1>2, <2>1, <2>2 DEF TxnMoves, TxnsTyped
<1>3. ASSUME NEW t \in Txns, LogFails(t) PROVE (\A u \in Txns : TxnMoves(u))
  <2>1. /\ pc' = [pc EXCEPT ![t] = "aborted"]
        /\ todo' = [todo EXCEPT ![t] = {}] /\ seq' = seq
    BY <1>3 DEF LogFails, CanLog
  <2>2. TxnsTyped
    BY DEF Inv1, TypeOK
  <2> QED
    BY <1>3, <2>1, <2>2 DEF TxnMoves, TxnsTyped
<1>4. ASSUME NEW t \in Txns, SyncLog(t) PROVE (\A u \in Txns : TxnMoves(u))
  <2>1. pc' = [pc EXCEPT ![t] = "synced"] /\ UNCHANGED <<seq, todo>>
    BY <1>4 DEF SyncLog, CanLog
  <2>2. TxnsTyped
    BY DEF Inv1, TypeOK
  <2> QED
    BY <1>4, <2>1, <2>2 DEF TxnMoves, TxnsTyped
<1>5. ASSUME NEW t \in Txns, Mark(t) PROVE (\A u \in Txns : TxnMoves(u))
  <2>1. pc' = [pc EXCEPT ![t] = "committed"] /\ UNCHANGED <<seq, todo>>
    BY <1>5 DEF Mark, CanLog
  <2>2. TxnsTyped
    BY DEF Inv1, TypeOK
  <2> QED
    BY <1>5, <2>1, <2>2 DEF TxnMoves, TxnsTyped
<1>6. ASSUME NEW t \in Txns, NEW k \in Keys, Log(t, k) \/ LogInNewFile(t, k)
      PROVE  (\A u \in Txns : TxnMoves(u))
  <2>1. /\ todo' = [todo EXCEPT ![t] = @ \ {k}] /\ UNCHANGED <<pc, seq>>
    BY <1>6 DEF Log, LogInNewFile
  <2>2. TxnsTyped
    BY DEF Inv1, TypeOK
  <2>3. \A u \in Txns : /\ todo'[u] \subseteq todo[u]
                       /\ \A j \in todo[u] \ todo'[u] : u = t /\ j = k
    BY <2>1, <2>2 DEF TxnsTyped
  <2> QED
    BY <1>6, <2>1, <2>3 DEF TxnMoves
<1>7. CASE Exit \/ Crash
  BY <1>7 DEF Exit, Crash, Vanish, TxnMoves, Busy, Inv1, TypeOK, TxnsTyped
<1>8. CASE UNCHANGED vars
  <2>1. UNCHANGED <<pc, seq, todo>>
    BY <1>8 DEF vars, txns, vars
  <2> QED
    BY <2>1 DEF TxnMoves
<1> QED
  BY <1>1, <1>2, <1>3, <1>4, <1>5, <1>6, <1>7, <1>8 DEF Next

(* A synced transaction has logged everything. *)
LEMMA SyncedDoneKept == Inv1 /\ SyncedDone /\ [Next]_vars => SyncedDone'
<1> SUFFICES ASSUME Inv1, SyncedDone, [Next]_vars, NEW t \in Txns, pc'[t] = "synced"
             PROVE  todo'[t] = {}
  BY DEF SyncedDone
<1>1. TxnMoves(t)
  BY TxnStep
<1>2. CASE SyncLog(t)
  BY <1>2 DEF SyncLog
<1>3. CASE pc[t] = "synced" /\ todo'[t] \subseteq todo[t]
  BY <1>3 DEF SyncedDone
<1> QED
  BY <1>1, <1>2, <1>3 DEF TxnMoves

(* Keys still to be logged have no record in the log. *)
LEMMA FreshKept == Inv1 /\ Fresh /\ [Next]_vars => Fresh'
<1> SUFFICES ASSUME Inv1, Fresh, [Next]_vars, NEW r \in Record, Written(r)'
             PROVE  /\ pc'[r.txn] # "idle"
                    /\ pc'[r.txn] = "logging" => r.key \notin todo'[r.txn]
  BY DEF Fresh
<1>1. r.txn \in Txns /\ TxnMoves(r.txn)
  BY TxnStep DEF Record
<1>2. Written(r) \/ LoggedBy(r)
  BY LogsStep, RecordNotTorn DEF StepOnLogs
<1>3. CASE Written(r)
  BY <1>1, <1>3 DEF Fresh, TxnMoves
<1>4. ASSUME NEW t \in Txns, NEW k \in Keys, Log(t, k) \/ LogInNewFile(t, k),
             r = RecordOf(t, k)
      PROVE  pc'[t] = "logging" /\ k \notin todo'[t] /\ r.txn = t /\ r.key = k
  <2>1. pc[t] = "logging"
    BY <1>4, SentinelAssumption DEF Log, LogInNewFile, CanLog, Inv1, WriterOK
  <2>2. pc' = pc /\ todo' = [todo EXCEPT ![t] = @ \ {k}]
    BY <1>4 DEF Log, LogInNewFile
  <2> QED
    BY <1>4, <2>1, <2>2 DEF RecordOf, Inv1, TypeOK, TxnsTyped
<1> QED
  BY <1>2, <1>3, <1>4 DEF LoggedBy

(* No switch overwrites a file with a pending record. *)
LEMMA NotOverwritten ==
    ASSUME Inv1, ArchiveOld, NEW r \in Record, Pending(r)
    PROVE  ~Overwritten(r)
<1> SUFFICES ASSUME NEW t \in Txns, Archive(t), InFile(<<"archive", current>>, r)
             PROVE  FALSE
  BY DEF Overwritten
<1>1. phase = "open"
  BY BusyFacts DEF Archive, CanLog, Busy
<1> DEFINE f == <<"archive", current>>
<1>2. f \in DOMAIN logs /\ f[1] = "archive" /\ f[2] = current
  BY DEF InFile
<1>3. f[2] # current
  BY <1>1, <1>2 DEF ArchiveOld, Old
<1> QED
  BY <1>2, <1>3

(* A logged record is written. *)
LEMMA LoggedWritten ==
    ASSUME Inv1, NEW t \in Txns, NEW k \in Keys, Log(t, k) \/ LogInNewFile(t, k)
    PROVE  Written(RecordOf(t, k))'
<1>1. RecordOf(t, k)' = RecordOf(t, k)
  BY DEF Log, LogInNewFile, RecordOf
<1>2. RecordOf(t, k) \in Record
  BY RecordsTyped DEF Inv1, TypeOK
<1>3. CASE Log(t, k)
  <2>1. current # 0
    BY <1>3, BusyFacts DEF Log, CanLog, Busy
  <2>2. /\ logs' = With(CurrentFile, Append(logs[CurrentFile], RecordOf(t, k)))
        /\ current' = current /\ synced' = synced
    BY <1>3 DEF Log, writer
  <2>3. PICK r0 \in Record : r0 = RecordOf(t, k)
    BY <1>2
  <2>4. Written(r0)'
    BY <2>1, <2>2, <2>3, AppendToFile
  <2> QED
    BY <1>1, <2>3, <2>4 DEF Written
<1>4. CASE LogInNewFile(t, k)
  <2>1. logs' = With(<<"wal", nextFile>>, <<RecordOf(t, k)>>)
    BY <1>4 DEF LogInNewFile
  <2>2. /\ <<"wal", nextFile>> \in DOMAIN logs'
        /\ logs'[<<"wal", nextFile>>] = <<RecordOf(t, k)>>
    BY <2>1 DEF With
  <2> QED
    BY <1>1, <2>2 DEF Written
<1> QED
  BY <1>3, <1>4

(* A sync makes safe what is written. *)
LEMMA SyncMakesSafe ==
    ASSUME Inv1, NEW t \in Txns, SyncLog(t), NEW r, Written(r)
    PROVE  Safe(r)'
<1>1. current # 0
  BY BusyFacts DEF SyncLog, Busy
<1>2. logs' = logs /\ current' = current /\ synced' = Len(logs[CurrentFile])
  BY DEF SyncLog, disk
<1>3. \A f \in DOMAIN logs : Bound(f)' = Len(logs[f])
  BY <1>2 DEF Bound, CurrentFile
<1> QED
  BY <1>2, <1>3 DEF Written, Safe

(* Doubts are never withdrawn. *)
LEMMA DoubtStep == Inv1 /\ [Next]_vars => (doubted \subseteq doubted')
<1> SUFFICES ASSUME Inv1, [Next]_vars PROVE (doubted \subseteq doubted')
  OBVIOUS
<1>1. CASE \/ Initialize \/ Replay \/ ReplayStops \/ RecoveryFails \/ Sweep
           \/ TakeUpNumbers \/ Flush \/ Close \/ EmptySequence \/ Shutdown \/ TruncateLogs
           \/ Exit \/ Crash
           \/ \E t \in Txns : Prepare(t) \/ Archive(t) \/ GiveUpFile(t)
              \/ LogFails(t) \/ SyncLog(t) \/ Mark(t)
              \/ \E k \in Keys : Log(t, k) \/ LogInNewFile(t, k)
  BY <1>1
     DEF Initialize, Replay, ReplayStops, RecoveryFails, Sweep, TakeUpNumbers,
         Prepare, Archive, GiveUpFile, LogFails, SyncLog, Mark, Log,
         LogInNewFile, Flush, Close, EmptySequence, Shutdown, TruncateLogs, Exit, Crash,
         history, vars
<1>2. CASE UNCHANGED vars
  BY <1>2 DEF vars, history
<1> QED
  BY <1>1, <1>2 DEF Next

(* Commits under way keep what they have logged. *)
LEMMA BusyWrittenKept ==
    Inv1 /\ Inv2 /\ [Next]_vars => BusyWritten'
<1> SUFFICES ASSUME Inv1, Inv2, [Next]_vars, NEW t \in Txns, t \notin doubted'
             PROVE  /\ pc'[t] = "logging" =>
                          \A k \in TouchedKeys[t] \ todo'[t] : Written(RecordOf(t, k))'
                    /\ pc'[t] = "synced" =>
                          \A k \in TouchedKeys[t] : Safe(RecordOf(t, k))'
  BY DEF BusyWritten
<1>1. TxnMoves(t)
  BY TxnStep
<1>2. StepOnLogs
  BY LogsStep
<1>3. TxnsTyped /\ TouchedKeys \in [Txns -> SUBSET Keys]
  BY TouchedAssumption DEF Inv1, TypeOK
<1>4. doubted \subseteq doubted'
  BY DoubtStep
<1>5. pc'[t] \in Busy => ~Crash /\ ~Shutdown
  BY <1>3 DEF Crash, Shutdown, Vanish, txns, Inv1, WriterOK, TxnsTyped, Busy
<1>6. ASSUME pc'[t] = "logging", NEW k \in TouchedKeys[t] \ todo'[t]
      PROVE  Written(RecordOf(t, k))'
  <2>1. pc[t] # "idle"
    BY <1>1, <1>6 DEF TxnMoves
  <2>2. pc[t] = "logging" /\ todo'[t] \subseteq todo[t] /\ seq'[t] = seq[t]
    BY <1>1, <1>6, <2>1 DEF TxnMoves
  <2>3. RecordOf(t, k)' = RecordOf(t, k) /\ k \in Keys
    BY <1>3, <2>2 DEF RecordOf
  <2>4. CASE k \notin todo[t]
    <3>1. Written(RecordOf(t, k))
      BY <1>4, <2>2, <2>4 DEF Inv2, BusyWritten
    <3>2. RecordOf(t, k) \in Record /\ Pending(RecordOf(t, k))
      BY <1>3, <1>4, <2>2, <2>3, <2>4, RecordsTyped
         DEF Pending, IsUnderWay, Busy
    <3>3. ~Overwritten(RecordOf(t, k))
      BY <3>2, NotOverwritten DEF Inv2
    <3>4. phase = "open"
      BY <2>2, BusyFacts DEF Busy
    <3>5. ~\E u \in Txns : GiveUpFile(u)
      BY <2>2 DEF GiveUpFile
    <3>6. Written(RecordOf(t, k)) => Written(RecordOf(t, k))'
      BY <1>2, <1>5, <1>6, <2>3, <3>3, <3>4, <3>5 DEF StepOnLogs, Busy
    <3> QED
      BY <3>1, <3>6
  <2>5. CASE k \in todo[t]
    <3>1. Log(t, k) \/ LogInNewFile(t, k)
      BY <1>1, <1>6, <2>1, <2>5 DEF TxnMoves
    <3> QED
      BY <2>3, <3>1, LoggedWritten
  <2> QED
    BY <2>4, <2>5
<1>7. ASSUME pc'[t] = "synced", NEW k \in TouchedKeys[t]
      PROVE  Safe(RecordOf(t, k))'
  <2>1. CASE SyncLog(t)
    <3>1. pc[t] = "logging" /\ todo[t] = {} /\ seq' = seq
      BY <2>1 DEF SyncLog
    <3>2. Written(RecordOf(t, k))
      BY <1>4, <3>1 DEF Inv2, BusyWritten
    <3>3. Written(RecordOf(t, k)) => Safe(RecordOf(t, k))'
      BY <2>1, <3>1, SyncMakesSafe DEF RecordOf
    <3> QED
      BY <3>2, <3>3
  <2>2. CASE pc[t] = "synced"
    <3>1. Safe(RecordOf(t, k)) /\ todo[t] = {} /\ seq'[t] = seq[t]
      BY <1>1, <1>4, <2>2 DEF Inv2, BusyWritten, SyncedDone, TxnMoves
    <3>2. RecordOf(t, k) \in Record /\ Pending(RecordOf(t, k))
      BY <1>3, <1>4, <2>2, <3>1, RecordsTyped DEF Pending, IsUnderWay, Busy
    <3>3. ~Overwritten(RecordOf(t, k)) /\ phase = "open"
      BY <2>2, <3>2, NotOverwritten, BusyFacts DEF Inv2, Busy
    <3>4. RecordOf(t, k)' = RecordOf(t, k)
      BY <3>1 DEF RecordOf
    <3> QED
      BY <1>2, <3>1, <3>3, <3>4 DEF StepOnLogs
  <2> QED
    BY <1>1, <1>7, <2>1, <2>2 DEF TxnMoves
<1> QED
  BY <1>6, <1>7

(* Owed records stay in a table or safe. *)
LEMMA OwedSafeKept == Inv1 /\ Inv2 /\ [Next]_vars => OwedSafe'
<1> SUFFICES ASSUME Inv1, Inv2, [Next]_vars, NEW r, r \in Owed', r \notin tables'
             PROVE  Safe(r)'
  BY DEF OwedSafe
<1>1. StepOnLogs /\ OwedBack(r) /\ r \notin tables
  BY LogsStep, OwedStep DEF OwedGrows
<1>2. CASE r \in Owed
  <2>1. r \in Record /\ Safe(r) /\ Pending(r)
    BY <1>1, <1>2, OwedTyped DEF Inv1, TypeOK, Inv2, OwedSafe, Pending
  <2>2. ~Overwritten(r)
    BY <2>1, NotOverwritten DEF Inv2
  <2>3. phase \notin {"sweep", "truncate"}
    BY <1>1, <1>2 DEF Inv2, OwedStored
  <2> QED
    BY <1>1, <2>1, <2>2, <2>3 DEF StepOnLogs
<1>3. ASSUME NEW t \in Txns, Mark(t), t \notin doubted, r \in RecordsOf(t)
      PROVE  Safe(r)'
  <2>1. pc[t] = "synced" /\ UNCHANGED logs /\ current' = current /\ synced' = synced
    BY <1>3 DEF Mark, disk, writer
  <2>2. Safe(r)
    BY <1>3, <2>1 DEF RecordsOf, Inv2, BusyWritten
  <2> QED
    BY <2>1, <2>2, LogsStay
<1> QED
  BY <1>1, <1>2, <1>3 DEF OwedBack

(* Before log files are deleted, what is owed is in tables. *)
LEMMA OwedStoredKept == Inv /\ [Next]_vars => OwedStored'
<1> SUFFICES ASSUME Inv, [Next]_vars PROVE OwedStored'
  OBVIOUS
<1>1. CASE Initialize
  <2>1. Owed' = Owed /\ tables' = tables
    BY <1>1 DEF Initialize, Owed, Acked
  <2>2. phase' = "replay" \/ (phase' = "number" /\ WalFiles = {})
    BY <1>1, InitializeFacts DEF Inv
  <2>3. WalFiles = {} => Owed \subseteq tables
    BY <1>1 DEF Initialize, Inv, Inv2, DownFound
  <2> QED
    BY <2>1, <2>2, <2>3 DEF OwedStored
<1>2. CASE Replay
  <2>1. Owed' = Owed /\ tables' = tables \cup Logged /\ phase' = "sweep"
    BY <1>2 DEF Replay, Owed, Acked, history
  <2>2. ASSUME NEW r, r \in Owed PROVE r \in tables \cup Logged
    <3>1. r # Torn /\ (r \in tables \/ Safe(r))
      BY <2>2, OwedTyped, RecordNotTorn DEF Inv, Inv1, TypeOK, Inv2, OwedSafe
    <3> QED
      BY <3>1, SafeWritten, WrittenTyped DEF Inv, Inv1, TypeOK
  <2> QED
    BY <2>1, <2>2 DEF OwedStored
<1>3. CASE \/ ReplayStops \/ RecoveryFails \/ Sweep \/ TakeUpNumbers
           \/ Flush \/ Close \/ EmptySequence \/ Shutdown \/ TruncateLogs
           \/ \E t \in Txns : Prepare(t) \/ Archive(t) \/ GiveUpFile(t)
              \/ LogFails(t) \/ SyncLog(t) \/ \E k \in Keys : Log(t, k)
              \/ LogInNewFile(t, k)
  <2>1. CASE ReplayStops \/ RecoveryFails \/ Sweep \/ TakeUpNumbers
    BY <2>1 DEF ReplayStops, RecoveryFails, Sweep, TakeUpNumbers, Inv, Inv1, Inv2,
                OwedStored, Owed, Acked, history, disk, writer, process, vars
  <2>2. CASE Flush \/ Close \/ EmptySequence \/ Shutdown \/ TruncateLogs
    BY <2>2 DEF Flush, Close, EmptySequence, Shutdown, TruncateLogs, Inv, Inv1, Inv2,
                OwedStored, Owed, Acked, history, disk, writer, process, vars
  <2>3. ASSUME NEW t \in Txns,
               \/ Prepare(t) \/ Archive(t) \/ GiveUpFile(t) \/ LogFails(t) \/ SyncLog(t)
               \/ \E k \in Keys : Log(t, k) \/ LogInNewFile(t, k)
        PROVE  OwedStored'
    BY <2>3 DEF Prepare, Archive, GiveUpFile, LogFails, SyncLog, Log, LogInNewFile,
                Inv, Inv1, Inv2, OwedStored, Owed, Acked, history, disk, writer, process, vars
  <2> QED BY <1>3, <2>1, <2>2, <2>3
<1>4. ASSUME NEW t \in Txns, Mark(t) PROVE OwedStored'
  <2>1. Acked' = Acked \cup RecordsOf(t)
    BY <1>4, AckedAppended, RecordsTyped DEF Mark, Inv, Inv1, TypeOK
  <2>2. /\ phase' = phase /\ tables' = tables /\ doubted' = doubted
        /\ volatile' = volatile \cup RecordsOf(t) /\ pc[t] = "synced"
    BY <1>4 DEF Mark, disk
  <2>3. phase = "open"
    BY <2>2, BusyFacts DEF Inv, Busy
  <2> QED
    BY <2>1, <2>2, <2>3 DEF Inv, Inv2, OwedStored, Owed
<1>5. CASE Exit \/ Crash
  BY <1>5 DEF Exit, Crash, Vanish, OwedStored
<1>6. CASE UNCHANGED vars
  BY <1>6
     DEF vars, Inv, Inv1, Inv2, OwedStored, Owed, Acked, history, disk,
         writer, process
<1> QED
  BY <1>1, <1>2, <1>3, <1>4, <1>5, <1>6 DEF Next

(* Only a switch brings records into the archive. *)
ArchiveGrows ==
    \A f \in DOMAIN logs', r \in Record :
        f[1] = "archive" /\ InFile(f, r)' =>
            \/ InFile(f, r)
            \/ \E t \in Txns : Archive(t) /\ f = <<"archive", current>>

(* Of the step of any action. *)
LEMMA ArchiveBack == Inv1 /\ [Next]_vars => ArchiveGrows
<1> SUFFICES ASSUME Inv1, [Next]_vars PROVE ArchiveGrows
  OBVIOUS
<1>1. CASE Initialize
  BY <1>1 DEF Initialize, ArchiveGrows, InFile, With, CurrentFile
<1>2. CASE Shutdown
  BY <1>2 DEF Shutdown, ArchiveGrows, InFile, With, CurrentFile
<1>3. CASE Crash
  BY <1>3 DEF Crash, ArchiveGrows, InFile, With, CurrentFile
<1>4. ASSUME NEW t \in Txns, GiveUpFile(t) PROVE ArchiveGrows
  BY <1>4 DEF GiveUpFile, ArchiveGrows, InFile, With, CurrentFile
<1>5. ASSUME NEW t \in Txns, NEW k \in Keys, Log(t, k) PROVE ArchiveGrows
  BY <1>5 DEF Log, ArchiveGrows, InFile, With, CurrentFile
<1>6. ASSUME NEW t \in Txns, NEW k \in Keys, LogInNewFile(t, k) PROVE ArchiveGrows
  BY <1>6 DEF LogInNewFile, ArchiveGrows, InFile, With, CurrentFile
<1>7. CASE \/ Replay \/ ReplayStops \/ RecoveryFails \/ TakeUpNumbers
           \/ Flush \/ Close \/ EmptySequence \/ Exit
           \/ \E t \in Txns : Prepare(t) \/ LogFails(t) \/ SyncLog(t)
              \/ Mark(t)
  <2>1. UNCHANGED logs
    BY <1>7
       DEF Replay, ReplayStops, RecoveryFails, TakeUpNumbers, Prepare,
           LogFails, SyncLog, Mark, Flush, Close, EmptySequence, Exit, disk, vars
  <2> QED
    BY <2>1 DEF ArchiveGrows, InFile
<1>8. CASE Sweep
  BY <1>8 DEF Sweep, ArchiveGrows, InFile, Without, Restrict
<1>9. CASE TruncateLogs
  BY <1>9 DEF TruncateLogs, ArchiveGrows, InFile, Without, Restrict
<1>10. ASSUME NEW t \in Txns, Archive(t) PROVE ArchiveGrows
  BY <1>10 DEF Archive, ArchiveGrows, InFile
<1>11. CASE UNCHANGED vars
  <2>1. UNCHANGED logs
    BY <1>11 DEF vars, disk, vars
  <2> QED
    BY <2>1 DEF ArchiveGrows, InFile
<1> QED
  BY <1>1, <1>2, <1>3, <1>4, <1>5, <1>6, <1>7, <1>8, <1>9, <1>10, <1>11
     DEF Next

(* The step may be a crash, but not one between the steps of a switch. *)
LEMMA OldKept ==
    ASSUME Inv, [Next]_vars, ~CrashInSwitch, NEW f \in Files, f[1] = "archive",
           Old(f), phase \in {"open", "down", "refused", "replay"}
    PROVE  Old(f)'
<1> USE DEF Inv
<1>1. CASE Initialize
  <2>1. phase' \in {"replay", "number"} /\ WalFiles \subseteq WalFiles'
    BY <1>1, InitializeFacts DEF Inv, WalFiles, With
  <2>2. phase \in {"down", "refused"}
    BY <1>1 DEF Initialize
  <2> QED
    BY <2>1, <2>2 DEF Old
<1>2. CASE Replay \/ Sweep \/ Close \/ EmptySequence \/ Shutdown \/ TruncateLogs
  BY <1>2 DEF Replay, Sweep, Close, EmptySequence, Shutdown, TruncateLogs, Old
<1>3. CASE ReplayStops \/ RecoveryFails
  BY <1>3 DEF ReplayStops, RecoveryFails, Old, WalFiles, disk
<1>4. CASE TakeUpNumbers
  BY <1>4 DEF TakeUpNumbers, Old, Inv
<1>5. CASE \/ Flush
           \/ \E t \in Txns : Prepare(t) \/ LogFails(t) \/ SyncLog(t)
              \/ Mark(t)
  <2>1. UNCHANGED <<phase, nextFile, current>> /\ WalFiles' = WalFiles
    BY <1>5
       DEF Prepare, LogFails, SyncLog, Mark, Flush, WalFiles, disk, writer,
           process, vars
  <2> QED
    BY <2>1 DEF Old
<1>6. ASSUME NEW t \in Txns, Archive(t) \/ GiveUpFile(t)
      PROVE  Old(f)'
  <2>1. phase' = phase /\ nextFile' = nextFile /\ current' = 0 /\ phase = "open"
    BY <1>6, BusyFacts DEF Archive, GiveUpFile, CanLog, Busy, Inv, process
  <2> QED
    BY <2>1 DEF Old, Files
<1>7. ASSUME NEW t \in Txns, NEW k \in Keys, Log(t, k) PROVE Old(f)'
  <2>1. UNCHANGED <<phase, nextFile, current>> /\ phase = "open"
    BY <1>7, BusyFacts DEF Log, CanLog, Busy, Inv, writer
  <2> QED
    BY <2>1 DEF Old
<1>8. ASSUME NEW t \in Txns, NEW k \in Keys, LogInNewFile(t, k) PROVE Old(f)'
  <2>1. /\ phase' = phase /\ phase = "open" /\ nextFile \in Nat
        /\ nextFile' = nextFile + 1 /\ current' = nextFile
    BY <1>8, SentinelAssumption
       DEF LogInNewFile, Inv, Inv1, WriterOK, TypeOK, ProcessTyped
  <2> QED
    BY <2>1 DEF Old, Files
<1>9. CASE Exit
  BY <1>9 DEF Exit
<1>10. CASE Crash
  <2>1. DOMAIN logs' = DOMAIN logs /\ WalFiles' = WalFiles
    BY <1>10, CrashFacts DEF Inv, WalFiles
  <2>2. CASE phase = "replay"
    BY <1>10, <2>1, <2>2 DEF Crash, Vanish, Old
  <2>3. CASE phase = "open"
    <3>1. switching = Nobody /\ current # 0
      BY <1>10, <2>3 DEF Crash, Inv, Inv1, WriterOK
    <3>2. CurrentFile \in WalFiles /\ nextFile = current + 1 /\ current \in Nat
      BY <3>1, CurrentFacts DEF Inv, WalFiles, CurrentFile
    <3>3. f[2] < current
      BY <2>3, <3>2 DEF Old, Files
    <3>4. \E g \in WalFiles' : f[2] < g[2]
      BY <2>1, <3>2, <3>3 DEF CurrentFile
    <3> QED
      BY <1>10, <3>4 DEF Crash, Vanish, Old
  <2>4. CASE phase \in {"down", "refused"}
    BY <1>10, <2>1, <2>4 DEF Crash, Vanish, Old
  <2> QED
    BY <1>10, <2>2, <2>3, <2>4 DEF Crash
<1>11. CASE UNCHANGED vars
  <2>1. UNCHANGED <<phase, nextFile, current>> /\ WalFiles' = WalFiles
    BY <1>11 DEF vars, WalFiles, disk, writer, process, vars
  <2> QED
    BY <2>1 DEF Old
<1> QED
  BY <1>1, <1>2, <1>3, <1>4, <1>5, <1>6, <1>7, <1>8, <1>9, <1>10, <1>11
     DEF Next

(* Archived files with pending records keep names of their own. *)
LEMMA ArchiveOldKept == Inv /\ ~CrashInSwitch /\ [Next]_vars => ArchiveOld'
<1> SUFFICES ASSUME Inv, ~CrashInSwitch, [Next]_vars,
                    NEW f \in DOMAIN logs', NEW r \in Record,
                    f[1] = "archive", InFile(f, r)', Pending(r)'
             PROVE  Old(f)'
  BY DEF ArchiveOld
<1>1. /\ Inv1 /\ SyncedDone /\ Fresh /\ OwedStored /\ ArchiveOld
      /\ LogsTyped /\ LogsTyped'
  BY FilesTypedKept DEF Inv, Inv1, Inv2, TypeOK
<1>2. f \in Files
  BY <1>1 DEF LogsTyped
<1>3. InFile(f, r) \/ \E t \in Txns : Archive(t) /\ f = <<"archive", current>>
  BY <1>1, ArchiveBack DEF ArchiveGrows
<1>4. Pending(r) \/ LoggedBy(r)
  BY <1>1, PendingStep
<1>5. ASSUME NEW t \in Txns, Archive(t), f = <<"archive", current>> PROVE Old(f)'
  <2>1. phase = "open" /\ current # 0
    BY <1>1, <1>5, BusyFacts DEF Archive, CanLog, Busy
  <2>2. nextFile = current + 1 /\ current \in Nat
    BY <1>1, <2>1, CurrentFacts
  <2>3. phase' = phase /\ nextFile' = nextFile /\ current' = 0 /\ f[2] = current
    BY <1>5 DEF Archive, process
  <2> QED
    BY <2>1, <2>2, <2>3 DEF Old
<1>6. ASSUME InFile(f, r), Pending(r) PROVE Old(f)'
  <2>1. Old(f)
    BY <1>1, <1>6 DEF ArchiveOld, InFile
  <2>2. phase \in {"open", "down", "refused", "replay"}
    <3>1. CASE IsUnderWay(r)
      BY <1>1, <3>1, BusyFacts DEF IsUnderWay
    <3>2. CASE r \in Owed /\ r \notin tables
      BY <1>1, <3>2 DEF OwedStored, Inv1, TypeOK, ProcessTyped
    <3> QED
      BY <1>6, <3>1, <3>2 DEF Pending
  <2> QED
    BY <1>2, <2>1, <2>2, OldKept
<1>7. ASSUME InFile(f, r), LoggedBy(r) PROVE FALSE
  <2>1. PICK t \in Txns, k \in Keys :
            (Log(t, k) \/ LogInNewFile(t, k)) /\ r = RecordOf(t, k)
    BY <1>7 DEF LoggedBy
  <2>2. pc[t] = "logging" /\ k \in todo[t]
    BY <1>1, <2>1, SentinelAssumption
       DEF Log, LogInNewFile, CanLog, Inv1, WriterOK
  <2>3. Written(r)
    BY <1>7 DEF InFile, Written
  <2>4. r.txn = t /\ r.key = k
    BY <2>1 DEF RecordOf
  <2> QED
    BY <1>1, <2>2, <2>3, <2>4 DEF Fresh
<1> QED
  BY <1>3, <1>4, <1>5, <1>6, <1>7

(* A process that goes down with debts leaves a file in wal/. *)
LEMMA DownFoundKept == Inv /\ ~CrashInSwitch /\ [Next]_vars => DownFound'
<1> SUFFICES ASSUME Inv, ~CrashInSwitch, [Next]_vars PROVE DownFound'
  OBVIOUS
<1>1. CASE Initialize \/ Replay \/ Sweep \/ TakeUpNumbers \/ Close \/ EmptySequence \/ Shutdown
  BY <1>1
     DEF Initialize, Replay, Sweep, TakeUpNumbers, Close, EmptySequence, Shutdown, DownFound
<1>2. CASE ReplayStops \/ RecoveryFails
  <2>1. phase = "replay" /\ switching = Nobody /\ current # 0
    BY <1>2
       DEF ReplayStops, RecoveryFails, Inv, Inv1, WriterOK, TypeOK,
           ProcessTyped
  <2>2. CurrentFile \in WalFiles
    BY <2>1, CurrentFacts DEF Inv, WalFiles, CurrentFile
  <2>3. WalFiles' = WalFiles
    BY <1>2 DEF ReplayStops, RecoveryFails, WalFiles, disk
  <2> QED
    BY <2>2, <2>3 DEF DownFound
<1>3. CASE \/ Flush \/ TruncateLogs
           \/ \E t \in Txns : Prepare(t)
  BY <1>3 DEF Prepare, Flush, TruncateLogs, DownFound, process
<1>4. CASE \/ \E t \in Txns : Archive(t) \/ GiveUpFile(t) \/ LogFails(t)
              \/ SyncLog(t) \/ Mark(t) \/ \E k \in Keys : Log(t, k)
  <2>1. phase = "open" /\ phase' = phase
    BY <1>4, BusyFacts
       DEF Archive, GiveUpFile, LogFails, SyncLog, Mark, Log, CanLog, Busy,
           Inv, process
  <2> QED
    BY <2>1 DEF DownFound
<1>5. ASSUME NEW t \in Txns, NEW k \in Keys, LogInNewFile(t, k) PROVE DownFound'
  <2>1. phase = "open" /\ phase' = phase
    BY <1>5, SentinelAssumption DEF LogInNewFile, Inv, Inv1, WriterOK
  <2> QED
    BY <2>1 DEF DownFound
<1>6. CASE Exit
  <2>1. Owed \subseteq tables
    BY <1>6 DEF Exit, Inv, Inv2, OwedStored
  <2>2. Owed' = Owed /\ tables' = tables
    BY <1>6 DEF Exit, Owed, Acked, history, disk
  <2> QED
    BY <2>1, <2>2 DEF DownFound
<1>7. CASE Crash
  <2>1. DOMAIN logs' = DOMAIN logs /\ WalFiles' = WalFiles
    BY <1>7, CrashFacts DEF Inv, WalFiles
  <2>2. Owed' = Owed /\ tables' = tables
    BY <1>7 DEF Crash, Owed, Acked
  <2>3. CASE current # 0
    <3>1. CurrentFile \in WalFiles
      BY <2>3, CurrentFacts DEF Inv, WalFiles, CurrentFile
    <3> QED
      BY <2>1, <3>1 DEF DownFound
  <2>4. CASE current = 0
    <3>1. switching = Nobody
      BY <1>7 DEF Crash
    <3>2. phase \in {"truncate", "down", "refused"}
      BY <1>7, <2>4, <3>1 DEF Crash, Inv, Inv1, WriterOK, TypeOK, ProcessTyped
    <3>3. CASE phase = "truncate"
      <4>1. Owed \subseteq tables
        BY <3>3 DEF Inv, Inv2, OwedStored
      <4> QED
        BY <2>2, <4>1 DEF DownFound
    <3>4. CASE phase # "truncate"
      BY <2>1, <2>2, <3>2, <3>4 DEF DownFound, Inv, Inv2
    <3> QED
      BY <3>3, <3>4
  <2> QED
    BY <2>3, <2>4
<1>8. CASE UNCHANGED vars
  <2>1. UNCHANGED <<logs, tables, phase, acked, doubted>>
    BY <1>8 DEF vars, disk, process, history
  <2>2. Owed' = Owed /\ WalFiles' = WalFiles
    BY <2>1 DEF Owed, Acked, WalFiles
  <2> QED
    BY <2>1, <2>2 DEF DownFound, Inv, Inv2
<1> QED
  BY <1>1, <1>2, <1>3, <1>4, <1>5, <1>6, <1>7, <1>8 DEF Next

(* Nothing is owed at first. *)
LEMMA FirstStateOwes == Init => Inv2
<1> SUFFICES ASSUME Init PROVE Inv2
  OBVIOUS
<1>1. DOMAIN logs = {} /\ \A r : ~Written(r)
  BY DEF Init, Written
<1>2. Acked = {}
  <2>1. DOMAIN acked = {}
    BY DEF Init
  <2> QED
    BY <2>1 DEF Acked, Range
<1>3. BusyWritten /\ SyncedDone
  BY DEF Init, BusyWritten, SyncedDone
<1>4. Fresh /\ ArchiveOld
  BY <1>1 DEF Fresh, ArchiveOld
<1>5. OwedSafe /\ OwedStored /\ DownFound
  BY <1>2 DEF Owed, OwedSafe, OwedStored, DownFound
<1> QED
  BY <1>3, <1>4, <1>5 DEF Inv2

(* The whole invariant is inductive. *)
LEMMA InvKept == Inv /\ ~CrashInSwitch /\ [Next]_vars => Inv'
<1> SUFFICES ASSUME Inv, ~CrashInSwitch, [Next]_vars PROVE Inv'
  OBVIOUS
<1>1. Inv1 /\ Inv2 /\ SyncedDone /\ Fresh
  BY DEF Inv, Inv2
<1>2. Inv1'
  BY <1>1, Inv1Kept
<1>3. BusyWritten' /\ SyncedDone' /\ Fresh' /\ OwedSafe'
  BY <1>1, BusyWrittenKept, SyncedDoneKept, FreshKept, OwedSafeKept
<1>4. OwedStored' /\ ArchiveOld' /\ DownFound'
  BY OwedStoredKept, ArchiveOldKept, DownFoundKept
<1> QED
  BY <1>2, <1>3, <1>4 DEF Inv, Inv2

(* It implies the property. *)
LEMMA InvSurvives == Inv => AckedSurvives
<1> SUFFICES ASSUME Inv, NEW r \in Acked, r.txn \notin doubted, r \notin tables
             PROVE  /\ \E f \in DOMAIN logs : r \in Settled(f)
                    /\ phase \in {"down", "refused"} => WalFiles # {}
  BY DEF AckedSurvives
<1>1. r \in Owed /\ Safe(r)
  BY DEF Owed, Inv, Inv2, OwedSafe
<1>2. \E f \in DOMAIN logs : r \in Settled(f)
  BY <1>1 DEF Safe, Settled, Bound
<1>3. phase \in {"down", "refused"} => WalFiles # {}
  BY <1>1 DEF Inv, Inv2, DownFound
<1> QED
  BY <1>2, <1>3

(***************************************************************************)
(* Unless the process dies between archiving a file and creating the next, *)
(* what a commit that returned OK has logged survives rotations, crashes,  *)
(* failed and completed recoveries and clean shutdowns, however many       *)
(* transactions, keys, files and restarts there are; excepted are the      *)
(* commits with a part in a file that was given up unsynced.               *)
(***************************************************************************)
THEOREM CommitsSurvive == ~CrashInSwitch => (Spec => []AckedSurvives)
<1>1. ASSUME ~CrashInSwitch PROVE Inv /\ [Next]_vars => Inv'
  BY <1>1, InvKept
<1>2. Init => Inv
  BY FirstState, FirstStateOwes DEF Inv
<1>3. ASSUME ~CrashInSwitch PROVE Spec => []AckedSurvives
  <2>1. Inv /\ [Next]_vars => Inv'
    BY <1>1, <1>3
  <2> QED
    BY <1>2, <2>1, InvSurvives, PTL DEF Spec
<1> QED
  BY <1>3

(***************************************************************************)
(* From here on: the numbers of the records, until a second crash.         *)
(***************************************************************************)
Stored == tables \cup volatile \cup Logged
Counted(r) == crashes = 0 \/ ~InDoubt(r)
UpTo(n, S) == \A r \in S : Counted(r) => r.seq <= n
HighestKnown == IF walSequence > due THEN walSequence ELSE due

(* A record carries the number of its transaction. *)
SeqsKnown ==
    \A r \in Stored \cup Acked :
        r \in Record /\ r.seq = seq[r.txn] /\ pc[r.txn] # "idle"
VolatileOpen == phase # "open" => volatile = {}
(***************************************************************************)
(* Where each phase has the highest number from, and what it covers.       *)
(***************************************************************************)
NumbersKnown ==
    /\ phase \in {"down", "refused", "replay"} =>
          \A r \in tables : Counted(r) =>
              r.seq <= due \/ \E o \in Logged : r.seq <= o.seq
    /\ phase \in {"down", "refused"} /\ WalFiles = {} =>
          UpTo(due, tables \cup Logged)
    /\ phase \in {"sweep", "number"} => UpTo(HighestKnown, tables \cup Logged)
    /\ phase \in {"open", "shutdown", "sequence"} =>
          /\ UpTo(snapshot, Stored)
          /\ \A t \in Txns : pc[t] \in Busy => seq[t] <= snapshot
    /\ phase = "truncate" => UpTo(due, tables \cup Logged)
(***************************************************************************)
(* Before the first crash what is due covers earlier sessions, and what    *)
(* this session has brought into a table is in the log, in files whose     *)
(* names are not given again.                                              *)
(***************************************************************************)
SessionLogged ==
    /\ phase \notin {"open", "shutdown", "sequence"} =>
          \A r \in tables \cup Logged : r.seq <= due
    /\ phase \in {"open", "shutdown", "sequence"} =>
          \A r \in tables \cup volatile :
              InDoubt(r) \/ r.seq <= due \/ Safe(r)
    /\ phase = "open" =>
          \A f \in DOMAIN logs, r \in Record :
              f[1] = "archive" /\ InFile(f, r) =>
                  r.seq <= due \/ (f[2] < nextFile /\ f[2] # current)

NumbersInv ==
    /\ SeqsKnown /\ VolatileOpen
    /\ Remembered => NumbersKnown
    /\ Remembered /\ crashes = 0 => SessionLogged

(* The log has what is written. *)
LoggedIsWritten ==
    Logged \subseteq Record /\ \A r \in Record : r \in Logged <=> Written(r)

LEMMA LoggedExact == Inv1 => LoggedIsWritten
<1> SUFFICES ASSUME Inv1, NEW r \in Record PROVE r \in Logged <=> Written(r)
  BY LoggedTyped DEF LoggedIsWritten, Inv1, TypeOK
<1>1. LogsTyped /\ r # Torn
  BY RecordNotTorn DEF Inv1, TypeOK
<1>2. ASSUME r \in Logged PROVE Written(r)
  <2>1. PICK f \in DOMAIN logs : r \in Range(logs[f])
    BY <1>2 DEF Logged
  <2>2. logs[f] \in Seq(Record \cup {Torn})
    BY <1>1 DEF LogsTyped
  <2>3. PICK i \in DOMAIN logs[f] : r = logs[f][i]
    BY <2>1 DEF Range
  <2> QED
    BY <2>2, <2>3 DEF Written
<1> QED
  BY <1>1, <1>2, WrittenTyped

(* Who logs a record is committing it. *)
LEMMA LoggerCommits ==
    ASSUME Inv1, NEW r, LoggedBy(r)
    PROVE  /\ r \in Record /\ r.seq = seq[r.txn] /\ pc[r.txn] = "logging"
           /\ phase = "open"
<1>1. PICK t \in Txns, k \in Keys :
          (Log(t, k) \/ LogInNewFile(t, k)) /\ r = RecordOf(t, k)
  BY DEF LoggedBy
<1>2. pc[t] = "logging"
  BY <1>1, SentinelAssumption DEF Log, LogInNewFile, CanLog, Inv1, WriterOK
<1>3. phase = "open"
  BY <1>2, BusyFacts DEF Busy
<1>4. r \in Record
  BY <1>1, RecordsTyped DEF Inv1, TypeOK
<1> QED
  BY <1>1, <1>2, <1>3, <1>4 DEF RecordOf

(* Records come into the log by Log, and beside it only by Mark. *)
MarkedBy(r) == \E t \in Txns : Mark(t) /\ r \in RecordsOf(t)
StoredGrows ==
    /\ Logged \subseteq Record /\ Logged' \subseteq Record
    /\ \A r \in Logged' : r \in Logged \/ LoggedBy(r)
    /\ \A r \in tables' \cup volatile' : r \in Stored \/ MarkedBy(r)
    /\ phase = "open" =>
          \A r \in tables' \cup volatile' : r \in tables \cup volatile \/ MarkedBy(r)
    /\ \A r \in Acked' : r \in Acked \/ MarkedBy(r)

LEMMA StoredStep == Inv1 /\ [Next]_vars => StoredGrows
<1> SUFFICES ASSUME Inv1, [Next]_vars PROVE StoredGrows
  OBVIOUS
<1>1. Inv1' /\ StepOnLogs
  BY Inv1Kept, LogsStep
<1>2. LoggedIsWritten /\ LoggedIsWritten'
  <2>1. Inv1' => LoggedIsWritten'
    BY LoggedExact, PTL
  <2> QED
    BY <1>1, <2>1, LoggedExact
<1>3. Logged \subseteq Record /\ Logged' \subseteq Record
  BY <1>2 DEF LoggedIsWritten
<1>4. \A r \in Logged' : r \in Logged \/ LoggedBy(r)
  BY <1>1, <1>2, <1>3, RecordNotTorn DEF LoggedIsWritten, StepOnLogs
<1>5. ASSUME Acked' = Acked,
             \/ tables' \cup volatile' \subseteq tables \cup volatile
             \/ phase # "open" /\ tables' \cup volatile' \subseteq Stored
      PROVE  StoredGrows
  BY <1>3, <1>4, <1>5 DEF StoredGrows, Stored
<1>6. CASE \/ Initialize \/ ReplayStops \/ RecoveryFails \/ Sweep \/ TakeUpNumbers
           \/ Close \/ EmptySequence \/ Shutdown \/ TruncateLogs
  BY <1>5, <1>6
     DEF Initialize, ReplayStops, RecoveryFails, Sweep, TakeUpNumbers, Close,
         EmptySequence, Shutdown, TruncateLogs, Acked, disk, history
<1>7. CASE Replay \/ Flush \/ Exit \/ Crash
  BY <1>5, <1>7
     DEF Replay, Flush, Exit, Crash, Vanish, Acked, Stored, disk, history
<1>8. ASSUME NEW t \in Txns,
             \/ Prepare(t) \/ Archive(t) \/ GiveUpFile(t) \/ LogFails(t) \/ SyncLog(t)
             \/ \E k \in Keys : Log(t, k) \/ LogInNewFile(t, k)
      PROVE  StoredGrows
  BY <1>5, <1>8
     DEF Prepare, Archive, GiveUpFile, LogFails, SyncLog, Log, LogInNewFile,
         Acked, disk, process, history
<1>9. ASSUME NEW t \in Txns, Mark(t) PROVE StoredGrows
  <2>1. Acked' = Acked \cup RecordsOf(t)
    BY <1>9, AckedAppended, RecordsTyped DEF Mark, Inv1, TypeOK
  <2>2. tables' = tables /\ volatile' = volatile \cup RecordsOf(t)
    BY <1>9 DEF Mark, disk
  <2> QED
    BY <1>3, <1>4, <1>9, <2>1, <2>2 DEF StoredGrows, Stored, MarkedBy
<1>10. CASE UNCHANGED vars
  BY <1>5, <1>10 DEF vars, disk, process, history, Acked
<1> QED
  BY <1>6, <1>7, <1>8, <1>9, <1>10 DEF Next

(* Records keep the number they got. *)
LEMMA SeqsKnownKept == Inv1 /\ SeqsKnown /\ [Next]_vars => SeqsKnown'
<1> SUFFICES ASSUME Inv1, SeqsKnown, [Next]_vars, NEW r, r \in Stored' \cup Acked'
             PROVE  r \in Record /\ r.seq = seq'[r.txn] /\ pc'[r.txn] # "idle"
  BY DEF SeqsKnown
<1>1. StoredGrows
  BY StoredStep
<1>2. r \in Stored \cup Acked \/ LoggedBy(r) \/ MarkedBy(r)
  BY <1>1 DEF StoredGrows, Stored
<1>3. r \in Record /\ r.seq = seq[r.txn] /\ pc[r.txn] # "idle"
  <2>1. CASE r \in Stored \cup Acked
    BY <2>1 DEF SeqsKnown
  <2>2. CASE LoggedBy(r)
    BY <2>2, LoggerCommits
  <2>3. ASSUME NEW t \in Txns, Mark(t), r \in RecordsOf(t)
        PROVE  r \in Record /\ r.seq = seq[r.txn] /\ pc[r.txn] # "idle"
    <3>1. r \in Record
      BY <2>3, RecordsTyped DEF Inv1, TypeOK
    <3> QED
      BY <2>3, <3>1 DEF Mark, RecordsOf, RecordOf
  <2> QED
    BY <1>2, <2>1, <2>2, <2>3 DEF MarkedBy
<1>4. TxnMoves(r.txn)
  BY <1>3, TxnStep DEF Record
<1> QED
  BY <1>3, <1>4 DEF TxnMoves

(* Only an open database has versions in memory; only a crash counts one. *)
VolatileKept ==
    /\ VolatileOpen'
    /\ crashes' = crashes \/ (Crash /\ crashes' = crashes + 1)
    /\ forgotten => forgotten'

LEMMA VolatileStep == Inv1 /\ VolatileOpen /\ [Next]_vars => VolatileKept
<1> SUFFICES ASSUME Inv1, VolatileOpen, [Next]_vars PROVE VolatileKept
  OBVIOUS
<1>1. CASE \/ Initialize \/ Replay \/ ReplayStops \/ RecoveryFails \/ Sweep
           \/ TakeUpNumbers \/ Close \/ EmptySequence \/ Shutdown \/ TruncateLogs
  <2>1. forgotten => forgotten'
    BY <1>1
       DEF Initialize, Replay, ReplayStops, RecoveryFails, Sweep, TakeUpNumbers,
           Close, EmptySequence, Shutdown, TruncateLogs, history
  <2>2. crashes' = crashes
    BY <1>1
       DEF Initialize, Replay, ReplayStops, RecoveryFails, Sweep, TakeUpNumbers,
           Close, EmptySequence, Shutdown, TruncateLogs, history
  <2>3. VolatileOpen'
    BY <1>1
       DEF Initialize, Replay, ReplayStops, RecoveryFails, Sweep, TakeUpNumbers,
           Close, EmptySequence, Shutdown, TruncateLogs, VolatileOpen
  <2> QED
    BY <2>1, <2>2, <2>3 DEF VolatileKept
<1>2. CASE Flush \/ Exit \/ Crash
  <2>1. forgotten' = forgotten
    BY <1>2 DEF Flush, Exit, Crash, history
  <2> QED
    BY <1>2, <2>1 DEF Flush, Exit, Crash, Vanish, VolatileKept, VolatileOpen, history
<1>3. ASSUME NEW t \in Txns,
             \/ Prepare(t) \/ Archive(t) \/ GiveUpFile(t) \/ LogFails(t) \/ SyncLog(t)
             \/ Mark(t) \/ \E k \in Keys : Log(t, k) \/ LogInNewFile(t, k)
      PROVE  VolatileKept
  <2>1. phase' = phase /\ crashes' = crashes /\ forgotten' = forgotten
    BY <1>3
       DEF Prepare, Archive, GiveUpFile, LogFails, SyncLog, Mark, Log,
           LogInNewFile, process, history
  <2>2. CASE Mark(t)
    BY <2>1, <2>2, BusyFacts DEF Mark, Busy, VolatileKept, VolatileOpen
  <2>3. CASE ~Mark(t)
    BY <1>3, <2>1, <2>3
       DEF Prepare, Archive, GiveUpFile, LogFails, SyncLog, Log, LogInNewFile,
           process, VolatileKept, VolatileOpen
  <2> QED
    BY <2>2, <2>3
<1>4. CASE UNCHANGED vars
  BY <1>4 DEF vars, process, history, VolatileKept, VolatileOpen
<1> QED
  BY <1>1, <1>2, <1>3, <1>4 DEF Next

(* The steps of a session that is open and stays so. *)
WorkOn ==
    \/ \E t \in Txns :
         \/ Prepare(t) \/ Archive(t) \/ GiveUpFile(t) \/ LogFails(t)
         \/ SyncLog(t) \/ Mark(t)
         \/ \E k \in Keys : Log(t, k) \/ LogInNewFile(t, k)
    \/ Flush

LEMMA WorkFacts ==
    ASSUME Inv1, WorkOn
    PROVE  /\ phase = "open" /\ phase' = "open"
           /\ UNCHANGED <<crashes, due>>
           /\ snapshot' = snapshot \/ \E t \in Txns : Prepare(t)
           /\ \/ current' = current /\ nextFile' = nextFile
              \/ current' = 0 /\ nextFile' = nextFile
              \/ current' = nextFile /\ nextFile' = nextFile + 1
<1>1. CASE Flush
  BY <1>1 DEF Flush, writer, history
<1>2. ASSUME NEW t \in Txns, \/ Prepare(t) \/ LogFails(t) \/ SyncLog(t) \/ Mark(t)
      PROVE  /\ phase = "open" /\ phase' = phase
             /\ UNCHANGED <<crashes, due, current, nextFile>>
             /\ snapshot' = snapshot \/ Prepare(t)
  <2>1. phase = "open"
    BY <1>2, BusyFacts DEF Prepare, LogFails, SyncLog, Mark, Busy
  <2> QED
    BY <1>2, <2>1 DEF Prepare, LogFails, SyncLog, Mark, disk, writer, process, history
<1>3. ASSUME NEW t \in Txns, Archive(t) \/ GiveUpFile(t)
      PROVE  /\ phase = "open" /\ phase' = phase
             /\ UNCHANGED <<crashes, due, nextFile, snapshot>> /\ current' = 0
  <2>1. phase = "open"
    BY <1>3, BusyFacts DEF Archive, GiveUpFile, CanLog, Busy
  <2> QED
    BY <1>3, <2>1 DEF Archive, GiveUpFile, process, history
<1>4. ASSUME NEW t \in Txns, NEW k \in Keys, Log(t, k) \/ LogInNewFile(t, k)
      PROVE  /\ phase = "open" /\ phase' = phase
             /\ UNCHANGED <<crashes, due, snapshot>>
             /\ \/ current' = current /\ nextFile' = nextFile
                \/ current' = nextFile /\ nextFile' = nextFile + 1
  <2>1. phase = "open"
    BY <1>4, LoggerCommits DEF LoggedBy
  <2> QED
    BY <1>4, <2>1 DEF Log, LogInNewFile, writer, history
<1> QED
  BY <1>1, <1>2, <1>3, <1>4 DEF WorkOn

(* What a transaction under way logs or marks has a number it knows of. *)
LEMMA NewIsCovered ==
    ASSUME Inv1, NumbersKnown, NEW r, LoggedBy(r) \/ MarkedBy(r)
    PROVE  r.seq <= snapshot
<1>1. r.txn \in Txns /\ pc[r.txn] \in Busy /\ r.seq = seq[r.txn]
  <2>1. CASE LoggedBy(r)
    BY <2>1, LoggerCommits DEF Record, Busy
  <2>2. CASE MarkedBy(r)
    BY <2>2 DEF MarkedBy, Mark, RecordsOf, RecordOf, Busy
  <2> QED
    BY <2>1, <2>2
<1>2. phase = "open"
  BY <1>1, BusyFacts
<1> QED
  BY <1>1, <1>2 DEF NumbersKnown

(* An open session covers what it does. *)
LEMMA WorkIsCovered ==
    ASSUME Inv1, NumbersKnown, WorkOn
    PROVE  NumbersKnown'
<1>1. /\ phase = "open" /\ phase' = "open" /\ crashes' = crashes
      /\ snapshot' = snapshot \/ \E t \in Txns : Prepare(t)
  BY WorkFacts
<1>2. snapshot \in Nat /\ snapshot' \in Nat /\ snapshot <= snapshot'
  BY <1>1 DEF Prepare, Inv1, TypeOK, ProcessTyped
<1>3. [Next]_vars
  BY DEF WorkOn, Next
<1>4. StoredGrows /\ doubted \subseteq doubted'
  BY <1>3, StoredStep, DoubtStep
<1>5. \A r \in Record : r.seq \in Nat
  BY DEF Record
<1>6. ASSUME NEW r \in Stored', Counted(r)' PROVE r.seq <= snapshot'
  <2>1. r.seq <= snapshot
    <3>1. Counted(r)
      BY <1>1, <1>4, <1>6 DEF Counted, InDoubt
    <3>2. CASE r \in Stored
      BY <1>1, <3>1, <3>2 DEF NumbersKnown, UpTo
    <3>3. CASE LoggedBy(r) \/ MarkedBy(r)
      BY <3>3, NewIsCovered
    <3> QED
      BY <1>4, <1>6, <3>2, <3>3 DEF StoredGrows, Stored
  <2>2. r.seq \in Nat
    <3>1. r \in Record \/ r \in tables' \cup volatile'
      BY <1>4, <1>6 DEF StoredGrows, Stored
    <3>2. tables' \cup volatile' \subseteq Record
      BY <1>3, Inv1Kept DEF Inv1, TypeOK, ProcessTyped
    <3> QED
      BY <1>5, <3>1, <3>2
  <2> QED
    BY <1>2, <2>1, <2>2
<1>7. ASSUME NEW t \in Txns, pc'[t] \in Busy PROVE seq'[t] <= snapshot'
  <2>1. TxnMoves(t) /\ pc \in [Txns -> Busy \cup {"idle", "committed", "aborted", "lost"}]
        /\ seq \in [Txns -> Nat]
    BY <1>3, TxnStep DEF Inv1, TypeOK, TxnsTyped
  <2>2. CASE pc[t] = "idle"
    <3>1. \E u \in Txns : Prepare(u) \/ LogFails(u) \/ SyncLog(u) \/ Mark(u)
      <4>1. pc' # pc
        BY <1>7, <2>2 DEF Busy
      <4> QED
        BY <4>1 DEF WorkOn, Archive, GiveUpFile, Log, LogInNewFile, Flush, txns
    <3>2. PICK u \in Txns : Prepare(u) \/ LogFails(u) \/ SyncLog(u) \/ Mark(u)
      BY <3>1
    <3>3. u = t /\ Prepare(t)
      BY <1>7, <2>1, <2>2, <3>2 DEF Prepare, LogFails, SyncLog, Mark, Busy
    <3> QED
      BY <1>2, <2>1, <3>3 DEF Prepare
  <2>3. CASE pc[t] # "idle"
    <3>1. pc[t] \in Busy /\ seq'[t] = seq[t]
      BY <1>7, <2>1, <2>3 DEF TxnMoves, Busy, SyncLog
    <3>2. seq[t] <= snapshot /\ seq[t] \in Nat
      BY <1>1, <2>1, <3>1 DEF NumbersKnown
    <3> QED
      BY <1>2, <3>1, <3>2
  <2> QED
    BY <2>2, <2>3
<1> QED
  BY <1>1, <1>6, <1>7 DEF NumbersKnown, UpTo, Busy

(* Opening and closing leave the number of crashes and the doubts alone,   *)
(* and log nothing; before the replay is done they take nothing away.      *)
LEMMA FrameFacts ==
    ASSUME Inv1, NumbersInv, [Next]_vars, ~Crash, phase # "open" \/ Close
    PROVE  /\ crashes' = crashes
           /\ \A r : Counted(r)' => Counted(r)
           /\ Logged' \subseteq Logged
           /\ phase \in {"down", "refused", "replay"} => Logged' = Logged
           /\ tables \subseteq Record /\ Logged \subseteq Record
           /\ volatile' = {} /\ (Close \/ volatile = {})
           /\ \A t \in Txns : pc'[t] \notin Busy
<1>1. StoredGrows /\ StepOnLogs /\ VolatileKept /\ doubted \subseteq doubted' /\ Inv1'
  BY StoredStep, LogsStep, VolatileStep, DoubtStep, Inv1Kept DEF NumbersInv
<1>2. \A r : ~LoggedBy(r)
  <2>1. CASE phase # "open"
    BY <2>1, LoggerCommits
  <2>2. CASE Close
    BY <2>2, LoggerCommits DEF Close, Record, Busy
  <2> QED
    BY <2>1, <2>2
<1>3. crashes' = crashes /\ Logged' \subseteq Logged
  BY <1>1, <1>2 DEF VolatileKept, StoredGrows
<1>4. ASSUME phase \in {"down", "refused", "replay"} PROVE Logged \subseteq Logged'
  <2>1. \A t \in Txns : ~Archive(t) /\ ~GiveUpFile(t)
    BY <1>4, BusyFacts DEF Archive, GiveUpFile, CanLog, Busy
  <2>2. ~Shutdown
    BY <1>4 DEF Shutdown
  <2>3. \A r \in Record : Written(r) => Written(r)'
    BY <1>1, <1>4, <2>1, <2>2 DEF StepOnLogs, Overwritten
  <2>4. LoggedIsWritten
    BY LoggedExact
  <2>5. LoggedIsWritten'
    <3>1. Inv1' => LoggedIsWritten'
      BY LoggedExact, PTL
    <3> QED
      BY <1>1, <3>1
  <2> QED
    BY <2>3, <2>4, <2>5 DEF LoggedIsWritten
<1>5. \A r : Counted(r)' => Counted(r)
  BY <1>1, <1>3 DEF Counted, InDoubt
<1>6. tables \subseteq Record /\ Logged \subseteq Record
  BY <1>1 DEF StoredGrows, Inv1, TypeOK, ProcessTyped
<1>7. volatile' = {} /\ (Close \/ volatile = {})
  <2>1. CASE Close
    BY <2>1 DEF Close
  <2>2. CASE phase # "open"
    <3>1. volatile = {}
      BY <2>2 DEF NumbersInv, VolatileOpen
    <3>2. \A r : ~MarkedBy(r)
      BY <2>2, BusyFacts DEF MarkedBy, Mark, Busy
    <3>3. ~Flush
      BY <2>2 DEF Flush
    <3>4. volatile' = {} \/ volatile' = volatile
      BY <2>2, <3>3, BusyFacts
         DEF Next, Initialize, Replay, ReplayStops, RecoveryFails, Sweep,
             TakeUpNumbers, Prepare, Archive, GiveUpFile, LogFails, SyncLog,
             Mark, Log, LogInNewFile, CanLog, Close, EmptySequence, Shutdown, TruncateLogs,
             Exit, Crash, Vanish, process, vars, Busy
    <3> QED
      BY <3>1, <3>4
  <2> QED
    BY <2>1, <2>2
<1>8. \A t \in Txns : pc'[t] \notin Busy
  <2>1. \A t \in Txns : pc[t] \notin Busy
    BY DEF Close, Inv1, WriterOK
  <2>2. CASE Close
    BY <2>1, <2>2 DEF Close, txns
  <2>3. CASE Exit
    BY <2>1, <2>3 DEF Exit, Vanish, Busy
  <2>4. CASE phase # "open" /\ ~Exit
    <3>1. pc' = pc
      BY <2>1, <2>4, BusyFacts
         DEF Next, Initialize, Replay, ReplayStops, RecoveryFails, Sweep,
             TakeUpNumbers, Prepare, Archive, GiveUpFile, LogFails, SyncLog,
             Mark, Log, LogInNewFile, CanLog, Flush, Close, EmptySequence, Shutdown,
             TruncateLogs, Crash, txns, vars, Busy
    <3> QED
      BY <2>1, <3>1
  <2> QED
    BY <2>2, <2>3, <2>4
<1> QED
  BY <1>3, <1>4, <1>5, <1>6, <1>7, <1>8

(* The numbers are handed on through an opening and a closing. *)
LEMMA OpeningIsCovered ==
    ASSUME Inv1, NumbersInv, NumbersKnown, [Next]_vars,
           \/ Initialize \/ Replay \/ ReplayStops \/ RecoveryFails
           \/ Sweep \/ TakeUpNumbers,
           ~forgotten'
    PROVE  NumbersKnown'
<1>1. ~Crash /\ phase # "open"
  BY DEF Initialize, Replay, ReplayStops, RecoveryFails, Sweep, TakeUpNumbers,
         Crash, Vanish, history, Inv1, TypeOK, HistoryTyped
<1>2. /\ \A r : Counted(r)' => Counted(r)
      /\ Logged' \subseteq Logged
      /\ phase \in {"down", "refused", "replay"} => Logged' = Logged
      /\ tables \subseteq Record /\ Logged \subseteq Record
      /\ volatile' = {} /\ volatile = {}
      /\ \A t \in Txns : pc'[t] \notin Busy
  BY <1>1, FrameFacts DEF Close
<1>3. /\ walSequence \in Nat /\ lastSequence \in Nat /\ due \in Nat
      /\ \A r \in Record : r.seq \in Nat
  BY DEF Inv1, TypeOK, ProcessTyped, HistoryTyped, Record
<1>4. CASE Initialize
  <2>1. /\ phase \in {"down", "refused"} /\ walSequence' = 0
        /\ UNCHANGED <<tables, due>>
        /\ IF WalFiles = {} THEN phase' = "number" ELSE phase' = "replay"
    BY <1>4, InitializeFacts DEF Initialize, history
  <2>2. CASE WalFiles = {}
    <3>1. \A r \in tables' \cup Logged' : Counted(r)' => r.seq <= due
      BY <1>2, <2>1, <2>2 DEF NumbersKnown, UpTo
    <3>2. HighestKnown' = due
      BY <1>3, <2>1 DEF HighestKnown
    <3> QED
      BY <2>1, <2>2, <3>1, <3>2 DEF NumbersKnown, UpTo
  <2>3. CASE WalFiles # {}
    <3>1. \A r \in tables' : Counted(r)' =>
              r.seq <= due \/ \E o \in Logged' : r.seq <= o.seq
      BY <1>2, <2>1 DEF NumbersKnown
    <3> QED
      BY <2>1, <2>3, <3>1 DEF NumbersKnown
  <2> QED
    BY <2>2, <2>3
<1>5. CASE Replay
  <2>1. /\ phase = "replay" /\ phase' = "sweep" /\ tables' = tables \cup Logged
        /\ UNCHANGED <<due, logs>>
        /\ IF Logged = {} THEN UNCHANGED walSequence
           ELSE \E n \in Numbers(Logged) :
                  walSequence' = n /\ \A m \in Numbers(Logged) : m <= n
    BY <1>5 DEF Replay, history
  <2>2. walSequence' \in Nat
    BY <1>2, <1>3, <2>1 DEF Numbers
  <2>3. \A o \in Logged : o.seq <= walSequence'
    BY <2>1 DEF Numbers
  <2>4. walSequence' <= HighestKnown' /\ due <= HighestKnown'
        /\ HighestKnown' \in Nat
    BY <1>3, <2>1, <2>2 DEF HighestKnown
  <2>5. ASSUME NEW r \in tables \cup Logged, Counted(r)' PROVE r.seq <= HighestKnown'
    <3>1. r.seq <= due \/ r.seq <= walSequence'
      <4>1. CASE r \in Logged
        BY <2>3, <4>1
      <4>2. CASE r \in tables
        <5>1. r.seq <= due \/ \E o \in Logged : r.seq <= o.seq
          BY <1>2, <2>1, <2>5, <4>2 DEF NumbersKnown
        <5>2. r.seq \in Nat /\ \A o \in Logged : o.seq \in Nat
          BY <1>2, <1>3, <4>2
        <5> QED
          BY <2>2, <2>3, <5>1, <5>2
      <4> QED
        BY <2>5, <4>1, <4>2
    <3>2. r.seq \in Nat
      BY <1>2, <1>3
    <3> QED
      BY <1>3, <2>2, <2>4, <3>1, <3>2
  <2>6. \A r \in tables' \cup Logged' : Counted(r)' => r.seq <= HighestKnown'
    BY <1>2, <2>1, <2>5
  <2> QED
    BY <2>1, <2>6 DEF NumbersKnown, UpTo
<1>6. CASE ReplayStops \/ RecoveryFails
  <2>1. /\ phase = "replay" /\ phase' = "refused"
        /\ UNCHANGED <<logs, tables, due>>
    BY <1>6 DEF ReplayStops, RecoveryFails, disk, history
  <2>2. WalFiles' # {}
    <3>1. current # 0
      BY <2>1 DEF Inv1, WriterOK
    <3>2. CurrentFile \in DOMAIN logs
      BY <3>1, CurrentFacts
    <3> QED
      BY <2>1, <3>2 DEF WalFiles, CurrentFile
  <2>3. \A r \in tables' : Counted(r)' =>
            r.seq <= due \/ \E o \in Logged' : r.seq <= o.seq
    BY <1>2, <2>1 DEF NumbersKnown
  <2> QED
    BY <2>1, <2>2, <2>3 DEF NumbersKnown
<1>7. CASE Sweep
  <2>1. /\ phase = "sweep" /\ phase' \in {"sweep", "number"}
        /\ UNCHANGED <<tables, due, walSequence>>
    BY <1>7 DEF Sweep, history
  <2>2. \A r \in tables' \cup Logged' : Counted(r)' => r.seq <= HighestKnown'
    BY <1>2, <2>1 DEF NumbersKnown, UpTo, HighestKnown
  <2> QED
    BY <2>1, <2>2 DEF NumbersKnown, UpTo
<1>8. CASE TakeUpNumbers
  <2>1. /\ phase = "number" /\ phase' = "open" /\ tables' = tables
        /\ snapshot' = IF walSequence > lastSequence THEN walSequence ELSE lastSequence
        /\ ~(walSequence < due /\ lastSequence < due)
    BY <1>8 DEF TakeUpNumbers, Forgets, disk
  <2>2. HighestKnown <= snapshot' /\ HighestKnown \in Nat /\ snapshot' \in Nat
    BY <1>3, <2>1 DEF HighestKnown
  <2>3. ASSUME NEW r \in Stored', Counted(r)' PROVE r.seq <= snapshot'
    <3>1. r \in tables \cup Logged /\ r \in Record
      BY <1>2, <2>1, <2>3 DEF Stored
    <3>2. r.seq <= HighestKnown
      BY <1>2, <2>1, <2>3, <3>1 DEF NumbersKnown, UpTo
    <3> QED
      BY <1>3, <2>2, <3>1, <3>2
  <2> QED
    BY <1>2, <2>1, <2>3 DEF NumbersKnown, UpTo, Busy
<1> QED
  BY <1>4, <1>5, <1>6, <1>7, <1>8

LEMMA ClosingIsCovered ==
    ASSUME Inv1, NumbersInv, NumbersKnown, [Next]_vars,
           Close \/ EmptySequence \/ Shutdown \/ TruncateLogs \/ Exit
    PROVE  NumbersKnown'
<1>1. ~Crash /\ (phase # "open" \/ Close)
  <2>1. Close \/ EmptySequence \/ Shutdown \/ TruncateLogs => ~Crash
    BY DEF Close, EmptySequence, Shutdown, TruncateLogs, Crash, Vanish, history,
           Inv1, TypeOK, HistoryTyped
  <2>2. Exit => ~Crash
    BY DEF Exit, Crash, history, Inv1, TypeOK, HistoryTyped
  <2> QED
    BY <2>1, <2>2 DEF EmptySequence, Shutdown, TruncateLogs, Exit
<1>2. /\ \A r : Counted(r)' => Counted(r)
      /\ Logged' \subseteq Logged
      /\ volatile' = {} /\ (Close \/ volatile = {})
      /\ \A t \in Txns : pc'[t] \notin Busy
  BY <1>1, FrameFacts
<1>3. CASE Close
  <2>1. /\ phase = "open" /\ phase' = "shutdown" /\ snapshot' = snapshot
        /\ tables' = tables \cup volatile
    BY <1>3 DEF Close
  <2>2. \A r \in Stored' : Counted(r)' => r.seq <= snapshot'
    BY <1>2, <2>1 DEF NumbersKnown, UpTo, Stored
  <2> QED
    BY <1>2, <2>1, <2>2 DEF NumbersKnown, UpTo, Busy
<1>4. CASE Shutdown
  <2>1. /\ phase \in {"shutdown", "sequence"} /\ phase' = "truncate"
        /\ due' = snapshot /\ tables' = tables
    BY <1>4 DEF Shutdown
  <2>2. \A r \in tables' \cup Logged' : Counted(r)' => r.seq <= due'
    BY <1>2, <2>1 DEF NumbersKnown, UpTo, Stored
  <2> QED
    BY <2>1, <2>2 DEF NumbersKnown, UpTo
<1>5. CASE TruncateLogs \/ Exit
  <2>1. /\ phase = "truncate" /\ phase' \in {"truncate", "down"}
        /\ UNCHANGED <<tables, due>>
    BY <1>5 DEF TruncateLogs, Exit, Vanish, disk, history
  <2>2. \A r \in tables' \cup Logged' : Counted(r)' => r.seq <= due'
    BY <1>2, <2>1 DEF NumbersKnown, UpTo
  <2> QED
    BY <2>1, <2>2 DEF NumbersKnown, UpTo
<1>6. CASE EmptySequence
  <2>1. /\ phase = "shutdown" /\ phase' = "sequence"
        /\ UNCHANGED <<tables, snapshot>>
    BY <1>6 DEF EmptySequence
  <2>2. \A r \in Stored' : Counted(r)' => r.seq <= snapshot'
    BY <1>2, <2>1 DEF NumbersKnown, UpTo, Stored
  <2> QED
    BY <1>2, <2>1, <2>2 DEF NumbersKnown, UpTo, Busy
<1> QED
  BY <1>3, <1>4, <1>5, <1>6

(* After the first crash the tables are covered by what was due or by the  *)
(* log, and the next opening looks at the log unless it need not.          *)
LEMMA CrashIsCovered ==
    ASSUME Inv1, NumbersInv, ~CrashInSwitch, SessionLogged, [Next]_vars,
           Crash, crashes = 0
    PROVE  NumbersKnown'
<1>1. /\ phase' = "down" /\ crashes' = 1
      /\ UNCHANGED <<tables, due, doubted>> /\ switching = Nobody
  BY DEF Crash, Vanish
<1>2. StoredGrows /\ StepOnLogs /\ Inv1'
  BY StoredStep, LogsStep, Inv1Kept
<1>3. LoggedIsWritten'
  <2>1. Inv1' => LoggedIsWritten'
    BY LoggedExact, PTL
  <2> QED
    BY <1>2, <2>1
<1>4. CASE phase \notin {"open", "shutdown", "sequence"}
  <2>1. ~\E r : LoggedBy(r)
    BY <1>4, LoggerCommits
  <2>2. \A r \in tables' \cup Logged' : r.seq <= due'
    BY <1>1, <1>2, <1>4, <2>1 DEF SessionLogged, StoredGrows
  <2> QED
    BY <1>1, <2>2 DEF NumbersKnown, UpTo
<1>5. CASE phase \in {"open", "shutdown", "sequence"}
  <2>1. WalFiles' # {}
    <3>1. current # 0
      BY <1>1, <1>5 DEF Inv1, WriterOK
    <3>2. CurrentFile \in DOMAIN logs /\ DOMAIN logs' = DOMAIN logs
      BY <3>1, CurrentFacts, CrashFacts
    <3> QED
      BY <3>2 DEF WalFiles, CurrentFile
  <2>2. ASSUME NEW r \in tables', Counted(r)'
        PROVE  r.seq <= due' \/ \E o \in Logged' : r.seq <= o.seq
    <3>1. r \in tables /\ r \in Record /\ ~InDoubt(r)
      BY <1>1, <2>2 DEF Counted, InDoubt, Inv1, TypeOK, ProcessTyped
    <3>2. CASE Safe(r)
      <4>1. ~Overwritten(r)
        BY <1>1, <1>5 DEF Overwritten, Archive, process, Inv1, TypeOK
      <4>2. Safe(r)'
        BY <1>2, <1>5, <3>2, <4>1 DEF StepOnLogs
      <4>3. Safe(r)' => Written(r)'
        <5>1. current' = 0
          BY CrashFacts
        <5>2. \A f \in DOMAIN logs' : Bound(f)' = Len(logs'[f])
          BY <1>2, <5>1 DEF Bound, CurrentFile, Inv1, TypeOK, LogsTyped, Files
        <5> QED
          BY <5>2 DEF Safe, Written
      <4>4. r \in Logged'
        BY <1>3, <3>1, <4>2, <4>3 DEF LoggedIsWritten
      <4> QED
        BY <3>1, <4>4 DEF Record
    <3>3. CASE r.seq <= due
      BY <1>1, <3>3
    <3> QED
      BY <1>5, <3>1, <3>2, <3>3 DEF SessionLogged
  <2> QED
    BY <1>1, <2>1, <2>2 DEF NumbersKnown
<1> QED
  BY <1>4, <1>5

(* An open session keeps what it has brought into a table in its log. *)
LEMMA WorkIsLogged ==
    ASSUME Inv, NumbersInv, SessionLogged, WorkOn
    PROVE  SessionLogged'
<1>1. /\ phase = "open" /\ phase' = "open" /\ due' = due
      /\ \/ current' = current /\ nextFile' = nextFile
         \/ current' = 0 /\ nextFile' = nextFile
         \/ current' = nextFile /\ nextFile' = nextFile + 1
  BY WorkFacts DEF Inv
<1>2. [Next]_vars
  BY DEF WorkOn, Next
<1>3. StoredGrows /\ StepOnLogs /\ doubted \subseteq doubted' /\ ArchiveGrows
  BY <1>2, StoredStep, LogsStep, DoubtStep, ArchiveBack DEF Inv
<1>4. nextFile \in Nat /\ current \in Nat /\ \A f \in DOMAIN logs' : f[2] \in Nat /\ f[2] # 0
  BY <1>2, Inv1Kept DEF Inv, Inv1, TypeOK, ProcessTyped, LogsTyped, Files
<1>5. ASSUME NEW r \in tables' \cup volatile'
      PROVE  InDoubt(r)' \/ r.seq <= due \/ Safe(r)'
  <2>1. CASE r \in tables \cup volatile
    <3>1. r \in Record
      BY <2>1 DEF Inv, Inv1, TypeOK, ProcessTyped
    <3>2. CASE InDoubt(r)
      BY <1>3, <3>2 DEF InDoubt
    <3>3. CASE Safe(r) /\ ~(r.seq <= due)
      <4>1. ~Overwritten(r)
        <5> SUFFICES ASSUME InFile(<<"archive", current>>, r) PROVE FALSE
          BY DEF Overwritten
        <5> DEFINE f == <<"archive", current>>
        <5>1. f \in DOMAIN logs /\ f[1] = "archive" /\ f[2] = current
          BY DEF InFile
        <5>2. f[2] # current
          BY <1>1, <3>1, <3>3, <5>1 DEF SessionLogged
        <5> QED
          BY <5>1, <5>2
      <4> QED
        BY <1>1, <1>3, <3>3, <4>1 DEF StepOnLogs
    <3> QED
      BY <1>1, <2>1, <3>2, <3>3 DEF SessionLogged
  <2>2. ASSUME NEW t \in Txns, Mark(t), r \in RecordsOf(t)
        PROVE  InDoubt(r)' \/ Safe(r)'
    <3>1. pc[t] = "synced" /\ UNCHANGED <<logs, current, synced, doubted>> /\ r.txn = t
      BY <2>2 DEF Mark, disk, writer, RecordsOf, RecordOf
    <3>2. t \in doubted \/ Safe(r)
      BY <2>2, <3>1 DEF Inv, Inv2, BusyWritten, RecordsOf
    <3> QED
      BY <3>1, <3>2, LogsStay DEF Inv, InDoubt
  <2> QED
    BY <1>1, <1>3, <1>5, <2>1, <2>2 DEF StoredGrows, MarkedBy
<1>6. ASSUME NEW f \in DOMAIN logs', NEW r \in Record, f[1] = "archive", InFile(f, r)'
      PROVE  r.seq <= due \/ (f[2] < nextFile' /\ f[2] # current')
  <2>1. CASE InFile(f, r)
    <3>1. r.seq <= due \/ (f[2] < nextFile /\ f[2] # current)
      BY <1>1, <1>6, <2>1 DEF SessionLogged, InFile
    <3> QED
      BY <1>1, <1>4, <3>1
  <2>2. ASSUME NEW t \in Txns, Archive(t), f = <<"archive", current>>
        PROVE  f[2] < nextFile' /\ f[2] # current'
    <3>1. current # 0 /\ current' = 0 /\ nextFile' = nextFile /\ f[2] = current
      BY <1>1, <2>2, BusyFacts DEF Archive, CanLog, Busy, Inv
    <3>2. nextFile = current + 1
      BY <3>1, CurrentFacts DEF Inv
    <3> QED
      BY <1>4, <3>1, <3>2
  <2> QED
    BY <1>3, <1>6, <2>1, <2>2 DEF ArchiveGrows
<1> QED
  BY <1>1, <1>5, <1>6 DEF SessionLogged

(* Before the first crash an opening and a closing leave what is due at    *)
(* what the session before has reached.                                    *)
LEMMA SessionKept ==
    ASSUME Inv, NumbersInv, NumbersKnown, SessionLogged, [Next]_vars,
           crashes' = 0, ~Crash,
           \/ Initialize \/ Replay \/ ReplayStops \/ RecoveryFails \/ Sweep
           \/ TakeUpNumbers \/ Close \/ EmptySequence \/ Shutdown \/ TruncateLogs \/ Exit
    PROVE  SessionLogged'
<1>1. phase # "open" \/ Close
  BY DEF Initialize, Replay, ReplayStops, RecoveryFails, Sweep, TakeUpNumbers,
         EmptySequence, Shutdown, TruncateLogs, Exit
<1>2. /\ crashes = 0 /\ Logged' \subseteq Logged
      /\ tables \subseteq Record /\ Logged \subseteq Record
      /\ volatile' = {} /\ (Close \/ volatile = {})
  BY <1>1, FrameFacts DEF Inv
<1>3. CASE \/ Initialize \/ Replay \/ ReplayStops \/ RecoveryFails \/ Sweep
           \/ TruncateLogs \/ Exit
  <2>1. /\ phase \notin {"open", "shutdown", "sequence"}
        /\ phase' \notin {"open", "shutdown", "sequence"}
        /\ due' = due /\ tables' \subseteq tables \cup Logged
    BY <1>3, InitializeFacts
       DEF Initialize, Replay, ReplayStops, RecoveryFails, Sweep, TruncateLogs,
           Exit, Vanish, disk, history, Inv
  <2> QED
    BY <1>2, <2>1 DEF SessionLogged
<1>4. CASE TakeUpNumbers
  <2>1. /\ phase = "number" /\ phase' = "open"
        /\ UNCHANGED <<due, tables, logs>>
    BY <1>4 DEF TakeUpNumbers, disk
  <2>2. \A r \in tables \cup Logged : r.seq <= due
    BY <2>1 DEF SessionLogged
  <2>3. \A f \in DOMAIN logs', r \in Record : InFile(f, r)' => r \in Logged
    <3>1. LoggedIsWritten
      BY LoggedExact DEF Inv
    <3> QED
      BY <2>1, <3>1 DEF LoggedIsWritten, InFile, Written
  <2> QED
    BY <1>2, <2>1, <2>2, <2>3 DEF SessionLogged
<1>5. CASE Close
  <2>1. /\ phase = "open" /\ phase' = "shutdown"
        /\ UNCHANGED <<due, doubted>>
        /\ tables' = tables \cup volatile
    BY <1>5 DEF Close, history
  <2>2. \A r : ~Overwritten(r)
    BY <2>1 DEF Overwritten, Archive, process
  <2>3. \A r : Safe(r) => Safe(r)'
    BY <2>1, <2>2, LogsStep DEF StepOnLogs, Inv
  <2> QED
    BY <1>2, <2>1, <2>3 DEF SessionLogged, InDoubt
<1>6. CASE Shutdown
  <2>1. /\ phase \in {"shutdown", "sequence"} /\ phase' = "truncate"
        /\ due' = snapshot /\ tables' = tables
    BY <1>6 DEF Shutdown
  <2>2. \A r \in tables' \cup Logged' : r.seq <= due'
    BY <1>2, <2>1 DEF NumbersKnown, UpTo, Counted, Stored
  <2> QED
    BY <2>1, <2>2 DEF SessionLogged
<1>7. CASE EmptySequence
  <2>1. /\ phase = "shutdown" /\ phase' = "sequence"
        /\ UNCHANGED <<due, doubted, tables, logs, current, synced>>
    BY <1>7 DEF EmptySequence, writer, history
  <2>2. \A r : Safe(r) => Safe(r)'
    BY <2>1, LogsStay DEF Inv
  <2> QED
    BY <1>2, <2>1, <2>2 DEF SessionLogged, InDoubt
<1> QED
  BY <1>3, <1>4, <1>5, <1>6, <1>7

(* A step that changes nothing. *)
LEMMA NumbersStand == NumbersInv /\ UNCHANGED vars => NumbersInv'
<1> SUFFICES ASSUME NumbersInv, UNCHANGED vars PROVE NumbersInv'
  OBVIOUS
<1>1. /\ UNCHANGED <<logs, tables, current, nextFile, synced>>
      /\ UNCHANGED <<phase, walSequence, snapshot, volatile, pc, seq>>
      /\ UNCHANGED <<acked, doubted, due, forgotten, crashes>>
  BY DEF vars, disk, writer, process, txns, history
<1>2. SeqsKnown' /\ VolatileOpen'
  BY <1>1 DEF NumbersInv, SeqsKnown, VolatileOpen, Stored, Logged, Acked
<1>3. NumbersKnown => NumbersKnown'
  BY <1>1
     DEF NumbersKnown, UpTo, Counted, InDoubt, HighestKnown, Stored, Logged,
         WalFiles, Busy
<1>4. SessionLogged => SessionLogged'
  <2>1. \A r : Safe(r)' <=> Safe(r)
    BY <1>1 DEF Safe, Bound, CurrentFile
  <2>2. \A f, r : InFile(f, r)' <=> InFile(f, r)
    BY <1>1 DEF InFile
  <2>3. Logged' = Logged
    BY <1>1 DEF Logged
  <2> QED
    BY <1>1, <2>1, <2>2, <2>3 DEF SessionLogged, InDoubt
<1> QED
  BY <1>1, <1>2, <1>3, <1>4 DEF NumbersInv, Remembered

(* The invariant of the numbers is inductive. *)
LEMMA NumbersKept == Inv /\ ~CrashInSwitch /\ NumbersInv /\ [Next]_vars => NumbersInv'
<1> SUFFICES ASSUME Inv, ~CrashInSwitch, NumbersInv, [Next]_vars PROVE NumbersInv'
  OBVIOUS
<1>1. Inv1 /\ crashes \in Nat
  BY DEF Inv, Inv1, TypeOK, HistoryTyped
<1>2. SeqsKnown'
  BY <1>1, SeqsKnownKept DEF NumbersInv
<1>3. VolatileKept
  BY <1>1, VolatileStep DEF NumbersInv
<1>4. CASE Crash
  <2>1. crashes' = crashes + 1
    BY <1>4 DEF Crash
  <2>2. Remembered' => crashes = 0 /\ Remembered
    BY <1>1, <1>3, <2>1 DEF Remembered, VolatileKept
  <2>3. crashes = 0 /\ Remembered => NumbersKnown'
    BY <1>1, <1>4, CrashIsCovered DEF NumbersInv
  <2> QED
    BY <1>1, <1>2, <1>3, <2>1, <2>2, <2>3 DEF NumbersInv, VolatileKept
<1>5. CASE WorkOn
  <2>1. crashes' = crashes /\ (Remembered' => Remembered)
    BY <1>1, <1>3, <1>5, WorkFacts DEF Remembered, VolatileKept
  <2>2. NumbersKnown => NumbersKnown'
    BY <1>1, <1>5, WorkIsCovered
  <2>3. SessionLogged => SessionLogged'
    BY <1>5, WorkIsLogged
  <2> QED
    BY <1>2, <1>3, <2>1, <2>2, <2>3 DEF NumbersInv, VolatileKept
<1>6. CASE /\ ~Crash
           /\ \/ Initialize \/ Replay \/ ReplayStops \/ RecoveryFails \/ Sweep
              \/ TakeUpNumbers \/ Close \/ EmptySequence \/ Shutdown \/ TruncateLogs \/ Exit
  <2>1. crashes' = crashes /\ (Remembered' => Remembered /\ ~forgotten')
    BY <1>3, <1>6 DEF Remembered, VolatileKept
  <2>2. Remembered' => NumbersKnown'
    BY <1>1, <1>6, <2>1, OpeningIsCovered, ClosingIsCovered DEF NumbersInv
  <2>3. Remembered' /\ crashes' = 0 => SessionLogged'
    BY <1>6, <2>1, SessionKept DEF NumbersInv
  <2> QED
    BY <1>2, <1>3, <2>1, <2>2, <2>3 DEF NumbersInv, VolatileKept
<1>7. CASE UNCHANGED vars
  BY <1>7, NumbersStand
<1> QED
  BY <1>4, <1>5, <1>6, <1>7 DEF Next, WorkOn

(* There are no numbers at first. *)
LEMMA FirstNumbers == Init => NumbersInv
<1> SUFFICES ASSUME Init PROVE NumbersInv
  OBVIOUS
<1>1. DOMAIN logs = {} /\ Logged = {} /\ Acked = {}
  <2>1. DOMAIN logs = {} /\ DOMAIN acked = {}
    BY DEF Init
  <2> QED
    BY <2>1 DEF Logged, Acked, Range
<1>2. tables = {} /\ volatile = {} /\ phase = "down"
  BY DEF Init
<1>3. Stored \cup Acked = {}
  BY <1>1, <1>2 DEF Stored
<1> QED
  BY <1>1, <1>2, <1>3
     DEF NumbersInv, SeqsKnown, VolatileOpen, NumbersKnown, SessionLogged, UpTo

(* The property is the invariant for an open database. *)
LEMMA NumbersCovered == Inv /\ NumbersInv => NumbersCover
<1> SUFFICES ASSUME NumbersInv, phase = "open", Remembered, NEW r \in tables,
                    ~InDoubt(r)
             PROVE  r.seq <= snapshot
  BY DEF NumbersCover
<1>1. Counted(r) /\ r \in Stored
  BY DEF Counted, Stored
<1> QED
  BY <1>1 DEF NumbersInv, NumbersKnown, UpTo

(***************************************************************************)
(* Whenever the database is open its numbers cover the tables, until the   *)
(* process has died twice, as long as each opening found the number that   *)
(* was due in LAST_SEQUENCE or the log, and except for commits with a part *)
(* in a file that was given up unsynced (DefaultColumnFamily, Shutdown).   *)
(***************************************************************************)
THEOREM NumbersAreTakenUp == ~CrashInSwitch => (Spec => []NumbersCover)
<1>1. ASSUME ~CrashInSwitch
      PROVE  Inv /\ NumbersInv /\ [Next]_vars => Inv' /\ NumbersInv'
  BY <1>1, InvKept, NumbersKept
<1>2. Init => Inv /\ NumbersInv
  BY FirstState, FirstStateOwes, FirstNumbers DEF Inv
<1>3. ASSUME ~CrashInSwitch PROVE Spec => []NumbersCover
  <2>1. Inv /\ NumbersInv /\ [Next]_vars => Inv' /\ NumbersInv'
    BY <1>1, <1>3
  <2> QED
    BY <1>2, <2>1, NumbersCovered, PTL DEF Spec
<1> QED
  BY <1>3

(***************************************************************************)
(* Who holds a number: a commit under way, or one that left a record.      *)
(***************************************************************************)
Held(t) == pc[t] \in Busy \/ \E r \in Stored : r.txn = t
OneNumber ==
    Remembered =>
        \A t, u \in Txns \ doubted :
            Held(t) /\ Held(u) /\ seq[t] = seq[u] => t = u
(* Commits under way do not touch the same key, and the number of each is  *)
(* above those of the commits of its keys that have returned.              *)
Apart ==
    \A t, u \in Txns :
        pc[t] \in Busy /\ pc[u] \in Busy /\ t # u =>
            TouchedKeys[t] \cap TouchedKeys[u] = {}
Ahead ==
    Remembered =>
        \A t \in Txns, a \in Acked :
            pc[t] \in Busy /\ a.key \in TouchedKeys[t] => InDoubt(a) \/ a.seq < seq[t]

CommitsInv == OneNumber /\ Apart /\ Ahead /\ LaterCommitWins

(* Where commits under way, numbers held and returned commits come from.   *)
CommitSteps ==
    /\ Remembered' => Remembered
    /\ doubted \subseteq doubted'
    /\ \A t \in Txns : pc'[t] \in Busy => pc[t] \in Busy \/ Prepare(t)
    /\ \A t \in Txns : Held(t)' => Held(t) \/ Prepare(t)
    /\ \A t \in Txns : Held(t) => pc[t] # "idle" /\ seq'[t] = seq[t]
    /\ acked' = acked \/ \E t \in Txns : Mark(t)

LEMMA CommitsStep == Inv1 /\ NumbersInv /\ [Next]_vars => CommitSteps
<1> SUFFICES ASSUME Inv1, NumbersInv, [Next]_vars PROVE CommitSteps
  OBVIOUS
<1>1. StoredGrows /\ VolatileKept /\ doubted \subseteq doubted'
      /\ \A t \in Txns : TxnMoves(t)
  BY StoredStep, VolatileStep, DoubtStep, TxnStep DEF NumbersInv
<1>2. Remembered' => Remembered
  BY <1>1 DEF VolatileKept, Remembered, Inv1, TypeOK, HistoryTyped
<1>3. ASSUME NEW t \in Txns, pc'[t] \in Busy PROVE pc[t] \in Busy \/ Prepare(t)
  <2>1. pc \in [Txns -> Busy \cup {"idle", "committed", "aborted", "lost"}]
    BY DEF Inv1, TypeOK, TxnsTyped
  <2>2. CASE pc[t] = "idle"
    <3>1. pc' # pc
      BY <1>3, <2>2 DEF Busy
    <3>2. \/ Exit \/ Crash
          \/ \E u \in Txns : Prepare(u) \/ LogFails(u) \/ SyncLog(u) \/ Mark(u)
      BY <3>1
         DEF Next, Initialize, Replay, ReplayStops, RecoveryFails, Sweep,
             TakeUpNumbers, Archive, GiveUpFile, Log, LogInNewFile, Flush,
             Close, EmptySequence, Shutdown, TruncateLogs, txns, vars
    <3>3. ~(Exit \/ Crash)
      BY <1>3, <2>2 DEF Exit, Crash, Vanish, Busy
    <3>4. PICK u \in Txns : Prepare(u) \/ LogFails(u) \/ SyncLog(u) \/ Mark(u)
      BY <3>2, <3>3
    <3>5. u = t
      BY <1>3, <2>1, <2>2, <3>4 DEF Prepare, LogFails, SyncLog, Mark, Busy
    <3> QED
      BY <2>2, <3>4, <3>5 DEF LogFails, SyncLog, Mark
  <2>3. CASE pc[t] # "idle"
    BY <1>1, <1>3, <2>3 DEF TxnMoves, Busy, SyncLog
  <2> QED
    BY <2>2, <2>3
<1>4. ASSUME NEW t \in Txns, Held(t)' PROVE Held(t) \/ Prepare(t)
  <2>1. CASE pc'[t] \in Busy
    BY <1>3, <2>1 DEF Held
  <2>2. ASSUME NEW r \in Stored', r.txn = t PROVE Held(t)
    <3>1. r \in Stored \/ LoggedBy(r) \/ MarkedBy(r)
      BY <1>1, <2>2 DEF StoredGrows, Stored
    <3>2. CASE LoggedBy(r)
      BY <2>2, <3>2, LoggerCommits DEF Held, Busy
    <3>3. CASE MarkedBy(r)
      BY <2>2, <3>3 DEF MarkedBy, Mark, RecordsOf, RecordOf, Held, Busy
    <3> QED
      BY <2>2, <3>1, <3>2, <3>3 DEF Held
  <2> QED
    BY <1>4, <2>1, <2>2 DEF Held
<1>5. ASSUME NEW t \in Txns, Held(t) PROVE pc[t] # "idle" /\ seq'[t] = seq[t]
  <2>1. pc[t] # "idle"
    BY <1>5 DEF Held, NumbersInv, SeqsKnown, Busy
  <2> QED
    BY <1>1, <2>1 DEF TxnMoves
<1>6. acked' = acked \/ \E t \in Txns : Mark(t)
  BY DEF Next, Initialize, Replay, ReplayStops, RecoveryFails, Sweep,
         TakeUpNumbers, Prepare, Archive, GiveUpFile, LogFails, SyncLog, Log,
         LogInNewFile, Flush, Close, EmptySequence, Shutdown, TruncateLogs, Exit, Crash,
         history, vars
<1> QED
  BY <1>1, <1>2, <1>3, <1>4, <1>5, <1>6 DEF CommitSteps

(* The number a commit draws is above all that are held and not in doubt.  *)
LEMMA NewNumber ==
    ASSUME Inv1, NumbersInv, Remembered, NEW t \in Txns, Prepare(t)
    PROVE  /\ pc[t] = "idle" /\ phase = "open"
           /\ seq'[t] = snapshot + 1 /\ snapshot \in Nat
           /\ \A u \in Txns \ doubted : Held(u) => seq[u] <= snapshot
           /\ \A r \in Stored : ~InDoubt(r) => r.seq <= snapshot
<1>1. pc[t] = "idle" /\ phase = "open" /\ seq' = [seq EXCEPT ![t] = snapshot + 1]
  BY DEF Prepare
<1>2. seq \in [Txns -> Nat] /\ snapshot \in Nat
  BY DEF Inv1, TypeOK, TxnsTyped, ProcessTyped
<1>3. \A r \in Stored : ~InDoubt(r) => r.seq <= snapshot
  BY <1>1 DEF NumbersInv, NumbersKnown, UpTo, Counted
<1>4. ASSUME NEW u \in Txns \ doubted, Held(u) PROVE seq[u] <= snapshot
  <2>1. CASE pc[u] \in Busy
    BY <1>1, <2>1 DEF NumbersInv, NumbersKnown
  <2>2. ASSUME NEW r \in Stored, r.txn = u PROVE seq[u] <= snapshot
    <3>1. r.seq = seq[u] /\ ~InDoubt(r)
      BY <2>2 DEF NumbersInv, SeqsKnown, InDoubt
    <3> QED
      BY <1>3, <2>2, <3>1
  <2> QED
    BY <1>4, <2>1, <2>2 DEF Held
<1> QED
  BY <1>1, <1>2, <1>3, <1>4

LEMMA OneNumberKept == Inv1 /\ NumbersInv /\ OneNumber /\ [Next]_vars => OneNumber'
<1> SUFFICES ASSUME Inv1, NumbersInv, OneNumber, [Next]_vars, Remembered',
                    NEW t \in Txns \ doubted', NEW u \in Txns \ doubted',
                    Held(t)', Held(u)', seq'[t] = seq'[u]
             PROVE  t = u
  BY DEF OneNumber
<1>1. CommitSteps
  BY CommitsStep
<1>2. Remembered /\ t \notin doubted /\ u \notin doubted
  BY <1>1 DEF CommitSteps
<1>3. (Held(t) \/ Prepare(t)) /\ (Held(u) \/ Prepare(u))
  BY <1>1 DEF CommitSteps
<1>4. CASE Held(t) /\ Held(u)
  BY <1>1, <1>2, <1>4 DEF CommitSteps, OneNumber
<1>5. ASSUME NEW x \in Txns \ doubted, NEW y \in Txns \ doubted, Prepare(x), Held(y),
             seq'[x] = seq'[y]
      PROVE  FALSE
  <2>1. seq'[x] = snapshot + 1 /\ seq[y] <= snapshot /\ snapshot \in Nat
    BY <1>2, <1>5, NewNumber
  <2>2. seq'[y] = seq[y] /\ seq[y] \in Nat
    BY <1>1, <1>5 DEF CommitSteps, Inv1, TypeOK, TxnsTyped
  <2>3. seq[y] = snapshot + 1
    BY <1>5, <2>1, <2>2
  <2> QED
    BY <2>1, <2>3
<1>6. CASE Prepare(t) /\ Prepare(u)
  <2>1. /\ pc[t] = "idle" /\ pc[u] = "idle"
        /\ pc' = [pc EXCEPT ![t] = "logging"] /\ pc' = [pc EXCEPT ![u] = "logging"]
    BY <1>6 DEF Prepare
  <2>2. pc \in [Txns -> Busy \cup {"idle", "committed", "aborted", "lost"}]
    BY DEF Inv1, TypeOK, TxnsTyped
  <2> QED
    BY <2>1, <2>2
<1> QED
  BY <1>2, <1>3, <1>4, <1>5, <1>6

LEMMA ApartKept == Inv1 /\ NumbersInv /\ Apart /\ [Next]_vars => Apart'
<1> SUFFICES ASSUME Inv1, NumbersInv, Apart, [Next]_vars,
                    NEW t \in Txns, NEW u \in Txns, t # u,
                    pc'[t] \in Busy, pc'[u] \in Busy
             PROVE  TouchedKeys[t] \cap TouchedKeys[u] = {}
  BY DEF Apart
<1>1. (pc[t] \in Busy \/ Prepare(t)) /\ (pc[u] \in Busy \/ Prepare(u))
  BY CommitsStep DEF CommitSteps
<1>2. CASE pc[t] \in Busy /\ pc[u] \in Busy
  BY <1>2 DEF Apart
<1>3. ASSUME NEW x \in Txns, NEW y \in Txns, x # y, Prepare(x), pc'[y] \in Busy
      PROVE  TouchedKeys[x] \cap TouchedKeys[y] = {}
  <2>1. pc[y] \in Busy
    <3>1. pc' = [pc EXCEPT ![x] = "logging"]
      BY <1>3 DEF Prepare
    <3>2. pc \in [Txns -> Busy \cup {"idle", "committed", "aborted", "lost"}]
      BY DEF Inv1, TypeOK, TxnsTyped
    <3> QED
      BY <1>3, <3>1, <3>2
  <2> QED
    BY <1>3, <2>1 DEF Prepare
<1> QED
  BY <1>1, <1>2, <1>3

LEMMA AheadKept == Inv /\ NumbersInv /\ Apart /\ Ahead /\ [Next]_vars => Ahead'
<1> SUFFICES ASSUME Inv, NumbersInv, Apart, Ahead, [Next]_vars, Remembered',
                    NEW t \in Txns, NEW a \in Acked', pc'[t] \in Busy,
                    a.key \in TouchedKeys[t], ~InDoubt(a)'
             PROVE  a.seq < seq'[t]
  BY DEF Ahead
<1>1. Inv1 /\ CommitSteps /\ StoredGrows
  BY CommitsStep, StoredStep DEF Inv
<1>2. Remembered /\ ~InDoubt(a)
  BY <1>1 DEF CommitSteps, InDoubt
<1>3. pc[t] \in Busy \/ Prepare(t)
  BY <1>1 DEF CommitSteps
<1>4. a \in Acked
  <2> SUFFICES ASSUME NEW u \in Txns, Mark(u), a \in RecordsOf(u) PROVE FALSE
    BY <1>1 DEF StoredGrows, MarkedBy
  <2>1. /\ pc[u] \in Busy /\ pc' = [pc EXCEPT ![u] = "committed"]
        /\ a.key \in TouchedKeys[u]
    BY DEF Mark, RecordsOf, RecordOf, Busy
  <2>2. pc \in [Txns -> Busy \cup {"idle", "committed", "aborted", "lost"}]
    BY <1>1 DEF Inv1, TypeOK, TxnsTyped
  <2>3. t # u /\ pc[t] \in Busy
    BY <2>1, <2>2 DEF Busy
  <2> QED
    BY <2>1, <2>3 DEF Apart
<1>5. CASE pc[t] \in Busy
  <2>1. seq'[t] = seq[t]
    BY <1>1, <1>5 DEF CommitSteps, Held
  <2> QED
    BY <1>2, <1>4, <1>5, <2>1 DEF Ahead
<1>6. CASE Prepare(t)
  <2>1. /\ phase = "open" /\ seq'[t] = snapshot + 1 /\ snapshot \in Nat
        /\ \A r \in Stored : ~InDoubt(r) => r.seq <= snapshot
    BY <1>1, <1>2, <1>6, NewNumber
  <2>2. a \in Owed
    BY <1>2, <1>4 DEF Owed, InDoubt
  <2>3. a \in Stored
    BY <2>1, <2>2 DEF Inv, Inv2, OwedStored, Stored
  <2>4. a.seq \in Nat
    BY <2>3 DEF NumbersInv, SeqsKnown, Record
  <2> QED
    BY <1>2, <2>1, <2>3, <2>4
<1> QED
  BY <1>3, <1>5, <1>6

LEMMA LaterWinsKept ==
    Inv /\ NumbersInv /\ Ahead /\ LaterCommitWins /\ [Next]_vars => LaterCommitWins'
<1> SUFFICES ASSUME Inv, NumbersInv, Ahead, LaterCommitWins, [Next]_vars,
                    Remembered',
                    NEW i \in DOMAIN acked', NEW j \in DOMAIN acked', i < j,
                    NEW a \in acked'[i], NEW b \in acked'[j],
                    a.key = b.key, ~InDoubt(a)'
             PROVE  a.seq < b.seq
  BY DEF LaterCommitWins, InOrderBefore
<1>1. Inv1 /\ CommitSteps
  BY CommitsStep DEF Inv
<1>2. Remembered /\ ~InDoubt(a)
  BY <1>1 DEF CommitSteps, InDoubt
<1>3. ASSUME i \in DOMAIN acked, j \in DOMAIN acked,
             a \in acked[i], b \in acked[j]
      PROVE  a.seq < b.seq
  <2>1. a \in Acked /\ b \in Acked
    BY <1>3 DEF Acked, Range
  <2>2. InOrderBefore(a, b)
    BY <1>3 DEF InOrderBefore
  <2> QED
    BY <1>2, <2>1, <2>2 DEF LaterCommitWins
<1>4. CASE acked' = acked
  BY <1>3, <1>4
<1>5. ASSUME NEW t \in Txns, Mark(t) PROVE a.seq < b.seq
  <2>1. acked' = Append(acked, RecordsOf(t)) /\ acked \in Seq(SUBSET Record)
    BY <1>1, <1>5 DEF Mark, Inv1, TypeOK, HistoryTyped
  <2>2. RecordsOf(t) \in SUBSET Record
    BY <1>1, RecordsTyped DEF Inv1, TypeOK
  <2>3. /\ Len(acked) \in Nat /\ DOMAIN acked = 1 .. Len(acked)
        /\ DOMAIN acked' = 1 .. Len(acked) + 1
        /\ \A n \in DOMAIN acked : acked'[n] = acked[n]
        /\ acked'[Len(acked) + 1] = RecordsOf(t)
    BY <2>1, <2>2
  <2>4. i \in DOMAIN acked /\ a \in acked[i]
    BY <2>3
  <2>5. CASE j \in DOMAIN acked
    BY <1>3, <2>3, <2>4, <2>5
  <2>6. CASE j = Len(acked) + 1
    <3>1. b.key \in TouchedKeys[t] /\ b.seq = seq[t] /\ pc[t] \in Busy
      BY <1>5, <2>3, <2>6 DEF Mark, RecordsOf, RecordOf, Busy
    <3>2. a \in Acked
      BY <2>4 DEF Acked, Range
    <3> QED
      BY <1>2, <3>1, <3>2 DEF Ahead
  <2> QED
    BY <2>3, <2>5, <2>6
<1> QED
  BY <1>1, <1>4, <1>5 DEF CommitSteps

(* What holds of the commits is inductive with what holds of the numbers.  *)
WholeInv == Inv /\ NumbersInv /\ CommitsInv

LEMMA WholeKept == WholeInv /\ ~CrashInSwitch /\ [Next]_vars => WholeInv'
<1> SUFFICES ASSUME WholeInv, ~CrashInSwitch, [Next]_vars PROVE WholeInv'
  OBVIOUS
<1>1. Inv /\ Inv1 /\ NumbersInv /\ OneNumber /\ Apart /\ Ahead /\ LaterCommitWins
  BY DEF WholeInv, CommitsInv, Inv
<1>2. Inv' /\ NumbersInv'
  BY <1>1, InvKept, NumbersKept
<1>3. OneNumber' /\ Apart' /\ Ahead' /\ LaterCommitWins'
  BY <1>1, OneNumberKept, ApartKept, AheadKept, LaterWinsKept
<1> QED
  BY <1>2, <1>3 DEF WholeInv, CommitsInv

LEMMA WholeFirst == Init => WholeInv
<1> SUFFICES ASSUME Init PROVE WholeInv
  OBVIOUS
<1>1. Inv /\ NumbersInv
  BY FirstState, FirstStateOwes, FirstNumbers DEF Inv
<1>2. \A t \in Txns : pc[t] \notin Busy
  BY DEF Init, Busy
<1>3. Stored = {} /\ Acked = {}
  <2>1. DOMAIN logs = {} /\ DOMAIN acked = {} /\ tables = {} /\ volatile = {}
    BY DEF Init
  <2> QED
    BY <2>1 DEF Stored, Logged, Acked, Range
<1>4. OneNumber /\ Apart /\ Ahead /\ LaterCommitWins
  BY <1>2, <1>3 DEF OneNumber, Held, Apart, Ahead, LaterCommitWins
<1> QED
  BY <1>1, <1>4 DEF WholeInv, CommitsInv

(* Records under one number are those of one transaction that held it.     *)
LEMMA RecordsApart == WholeInv => OneCommitPerNumber
<1> SUFFICES ASSUME WholeInv, Remembered,
                    NEW r \in tables \cup Logged, NEW o \in tables \cup Logged,
                    r.seq = o.seq, ~InDoubt(r), ~InDoubt(o)
             PROVE  r.txn = o.txn
  BY DEF OneCommitPerNumber
<1>1. r \in Stored /\ o \in Stored
  BY DEF Stored
<1>2. /\ r \in Record /\ r.seq = seq[r.txn]
      /\ o \in Record /\ o.seq = seq[o.txn]
  BY <1>1 DEF WholeInv, NumbersInv, SeqsKnown
<1>3. r.txn \in Txns \ doubted /\ o.txn \in Txns \ doubted
  BY <1>2 DEF Record, InDoubt
<1>4. Held(r.txn) /\ Held(o.txn)
  BY <1>1 DEF Held
<1> QED
  BY <1>2, <1>3, <1>4 DEF WholeInv, CommitsInv, OneNumber

(***************************************************************************)
(* No two transactions log under one number, in whatever session they ran: *)
(* until the process has died twice, as long as each opening found the     *)
(* number that was due, and except for commits with a part in a file that  *)
(* was given up unsynced (PrepareCommit, Shutdown).                        *)
(***************************************************************************)
THEOREM NumbersAreNotReused == ~CrashInSwitch => (Spec => []OneCommitPerNumber)
<1>1. ASSUME ~CrashInSwitch PROVE Spec => []OneCommitPerNumber
  <2>1. WholeInv /\ [Next]_vars => WholeInv'
    BY <1>1, WholeKept
  <2> QED
    BY <2>1, WholeFirst, RecordsApart, PTL DEF Spec
<1> QED
  BY <1>1

(***************************************************************************)
(* Of two commits of a key the one that returned later has the higher      *)
(* number, also when a restart lies between them, within the same limits.  *)
(***************************************************************************)
THEOREM LaterCommitsWin == ~CrashInSwitch => (Spec => []LaterCommitWins)
<1>1. ASSUME ~CrashInSwitch PROVE Spec => []LaterCommitWins
  <2>1. WholeInv /\ [Next]_vars => WholeInv'
    BY <1>1, WholeKept
  <2>2. WholeInv => LaterCommitWins
    BY DEF WholeInv, CommitsInv
  <2> QED
    BY <2>1, <2>2, WholeFirst, PTL DEF Spec
<1> QED
  BY <1>1
=============================================================================
