------------------------------ MODULE LsmProofs -----------------------------
(***************************************************************************)
(* Proofs about LsmTree, for any keys, kinds of entries, writers, sizes    *)
(* and numbers of crashes and failures: no accepted entry is lost and no   *)
(* committed one forgotten, and a reader that looks first where it should  *)
(* finds the newest versions, of keys that no batch has split.             *)
(***************************************************************************)
EXTENDS LsmProps, FiniteSetTheorems, WellFoundedInduction, TLAPS

Phases == {"closed", "recovering", "replayed", "open", "closing"}
Table == [number : Nat \ {0}, level : {0}, entries : SUBSET Entries, whole : BOOLEAN]
Waiting == UNION {immutables[i] : i \in DOMAIN immutables}
Whole == {f \in files : Opens(f)}

FilesTyped ==
    /\ nextFile \in Nat \ {0}
    /\ files \subseteq Table /\ IsFiniteSet(files)

Typed ==
    /\ phase \in Phases
    /\ mutable \subseteq Entries /\ immutables \in Seq(SUBSET Entries)
    /\ recovered \subseteq log /\ log \subseteq Entries /\ accepted \subseteq Entries
    /\ flushAll \in BOOLEAN /\ broken \in BOOLEAN

(***************************************************************************)
(* What a phase makes of the process.  Compactions register nothing, so    *)
(* that the registered tables are the files that can be opened.            *)
(***************************************************************************)
Registered ==
    IF phase = "closed" THEN tables = {}
    ELSE tables = Whole /\ \A f \in Whole : f.number < nextFile

Session ==
    /\ phase \notin {"open", "closing"} => mutable = {} /\ immutables = <<>>
    /\ phase # "recovering" => recovered = {}
    /\ broken => phase = "closing"

(* What is in the tree is what was accepted, no more and no less.          *)
Stored == accepted = mutable \cup Waiting \cup FileEntries

(***************************************************************************)
(* The log is closed upwards: of a key it has all that was accepted after  *)
(* an entry it has.                                                        *)
(***************************************************************************)
LogClosed ==
    \A f \in log, e \in accepted : e.key = f.key /\ f.seq < e.seq => e \in log

(***************************************************************************)
(* The versions that are to be put are in the log, and those that a writer *)
(* has put were accepted.  So what is marked flushed is in the tree, and   *)
(* an open tree has, or will be given, all of the log.                     *)
(***************************************************************************)
BatchesOK ==
    /\ unflushed \subseteq log
    /\ batch \in [Writers -> SUBSET log] /\ put \in [Writers -> SUBSET accepted]
    /\ pending \in [Writers -> log \cup {NoEntry}]
    /\ \A w \in Writers :
          put[w] \subseteq batch[w] /\ (pending[w] # NoEntry => pending[w] \in Rest(w))
    /\ phase = "open" => log \subseteq unflushed \cup accepted
    /\ phase \notin {"open", "closing"} => unflushed = {}
    /\ phase # "open" => \A w \in Writers : batch[w] = {}

(* The order of the memtables, and of the files.                           *)
MemoryOrdered ==
    /\ \A i \in DOMAIN immutables : /\ Covered(immutables[i], mutable, split)
                                    /\ Covered(FileEntries, immutables[i], split)
    /\ \A i, j \in DOMAIN immutables : i < j => Covered(immutables[i], immutables[j], split)
    /\ Covered(FileEntries, mutable, split)

FilesOrdered ==
    \A t, u \in Whole : t.number < u.number => Covered(t.entries, u.entries, split)

IInv ==
    /\ Typed /\ FilesTyped /\ Registered /\ Session
    /\ Stored /\ LogClosed /\ BatchesOK
    /\ MemoryOrdered /\ FilesOrdered

-----------------------------------------------------------------------------
(* What the operations do to the files and the memtables. *)

LEMMA EntriesTyped == \A e \in Entries : e.seq \in Nat /\ e.key \in Keys /\ e # NoEntry
BY SizesAssumption, NoEntryAssumption DEF Entries

\* A table is written under a number that no file which can be opened has.
LEMMA WrittenEffect ==
    ASSUME FilesTyped, FilesOrdered, \A f \in Whole : f.number < nextFile, split' = split,
           NEW es \in SUBSET Entries, files' = Written(NewTable(es)),
           \A f \in Whole : Covered(f.entries, es, split)
    PROVE  /\ files' \subseteq Table /\ IsFiniteSet(files')
           /\ Whole' = Whole \cup {NewTable(es)}
           /\ FileEntries' = FileEntries \cup es
           /\ FilesOrdered'
<1> DEFINE new == NewTable(es)
<1>1. /\ new \in Table /\ new.number = nextFile /\ new.entries = es /\ new.whole
  BY DEF NewTable, Table, FilesTyped
<1>2. files' = {f \in files : f.number # nextFile} \cup {new}
  BY <1>1 DEF Written
<1>3. IsFiniteSet({f \in files : f.number # nextFile}) 
  BY FS_Subset DEF FilesTyped
<1>4. files' \subseteq Table /\ IsFiniteSet(files')
  BY <1>1, <1>2, <1>3, FS_AddElement DEF FilesTyped
<1>5. \A f \in Whole : f.number \in Nat /\ f.number # nextFile
  BY DEF FilesTyped, Table, Whole
<1> HIDE DEF new
<1>6. Whole' = Whole \cup {new}
  BY <1>1, <1>2, <1>5 DEF Whole, Opens
<1>7. FileEntries' = FileEntries \cup es
  <2>1. FileEntries = UNION {f.entries : f \in Whole}
    BY DEF FileEntries, Whole
  <2>2. FileEntries' = UNION {f.entries : f \in Whole'}
    BY DEF FileEntries, Whole
  <2> QED BY <1>1, <1>6, <2>1, <2>2
<1>8. FilesOrdered'
  <2> SUFFICES ASSUME NEW t \in Whole', NEW u \in Whole', t.number < u.number
               PROVE  Covered(t.entries, u.entries, split)
    BY DEF FilesOrdered
  <2>1. CASE t \in Whole /\ u \in Whole
    BY <2>1 DEF FilesOrdered
  <2>2. CASE t \in Whole /\ u = new
    BY <1>1, <2>2
  <2>3. CASE t = new
    <3>1. nextFile \in Nat
      BY DEF FilesTyped
    <3> QED BY <1>1, <1>5, <1>6, <2>3, <3>1
  <2> QED BY <1>6, <2>1, <2>2, <2>3
<1> QED BY <1>4, <1>6, <1>7, <1>8 DEF new

\* DoFlushMemTable makes a table of the entries, if there are any.
LEMMA FlushEffect ==
    ASSUME FilesTyped, FilesOrdered, Registered, phase # "closed", split' = split,
           NEW es \in SUBSET Entries, DoFlushMemTable(es),
           \A f \in Whole : Covered(f.entries, es, split)
    PROVE  /\ FilesTyped' /\ FilesOrdered'
           /\ FileEntries' = FileEntries \cup es
           /\ tables' = Whole' /\ \A f \in Whole' : f.number < nextFile'
<1>1. CASE es = {}
  BY <1>1 DEF DoFlushMemTable, FilesTyped, FilesOrdered, FileEntries, Whole, Registered
<1>2. CASE es # {}
  <2>1. /\ files' = Written(NewTable(es)) /\ tables' = tables \cup {NewTable(es)}
        /\ nextFile' = nextFile + 1
    BY <1>2 DEF DoFlushMemTable, FlushMemTableToSSTable, NextAfter, NewTable, FilesTyped
  <2>2. /\ files' \subseteq Table /\ IsFiniteSet(files')
        /\ Whole' = Whole \cup {NewTable(es)}
        /\ FileEntries' = FileEntries \cup es
        /\ FilesOrdered'
    BY <2>1, WrittenEffect DEF Registered
  <2>3. \A f \in Whole : f.number < nextFile /\ f.number \in Nat
    BY DEF Registered, Whole, FilesTyped, Table
  <2>4. nextFile \in Nat /\ NewTable(es).number = nextFile
    BY DEF FilesTyped, NewTable
  <2> QED BY <2>1, <2>2, <2>3, <2>4 DEF Registered, FilesTyped
<1> QED BY <1>1, <1>2

\* What disturbs only files that cannot be opened.
LEMMA WholeStays ==
    ASSUME FilesTyped, files' \subseteq Table, Whole' = Whole, FilesOrdered, split' = split
    PROVE  FileEntries' = FileEntries /\ FilesOrdered'
<1>1. FileEntries = UNION {f.entries : f \in Whole} /\ FileEntries' = UNION {f.entries : f \in Whole'}
  BY DEF FileEntries, Whole
<1> QED BY <1>1 DEF FilesOrdered

\* The memtables after a switch, and after the oldest has been taken away.
LEMMA SwitchEffect ==
    ASSUME immutables \in Seq(SUBSET Entries), mutable \in SUBSET Entries,
           immutables' = Append(immutables, mutable),
           \A i \in DOMAIN immutables : Covered(immutables[i], mutable, split),
           \A i, j \in DOMAIN immutables : i < j => Covered(immutables[i], immutables[j], split)
    PROVE  /\ immutables' \in Seq(SUBSET Entries)
           /\ Waiting' = Waiting \cup mutable
           /\ \A i \in DOMAIN immutables' :
                 immutables'[i] = mutable \/ \E j \in DOMAIN immutables : immutables'[i] = immutables[j]
           /\ \A i, j \in DOMAIN immutables' :
                 i < j => Covered(immutables'[i], immutables'[j], split)
<1>1. /\ Len(immutables) \in Nat /\ DOMAIN immutables = 1 .. Len(immutables)
      /\ DOMAIN immutables' = 1 .. Len(immutables) + 1
      /\ immutables'[Len(immutables) + 1] = mutable
      /\ \A i \in DOMAIN immutables : immutables'[i] = immutables[i]
      /\ immutables' \in Seq(SUBSET Entries)
  OBVIOUS
<1>2. Waiting' = Waiting \cup mutable
  <2>1. \A i \in DOMAIN immutables : i \in DOMAIN immutables'
    BY <1>1
  <2>2. \A i \in DOMAIN immutables' : i \in DOMAIN immutables \/ i = Len(immutables) + 1
    BY <1>1
  <2>3. Len(immutables) + 1 \in DOMAIN immutables'
    BY <1>1
  <2> QED BY <1>1, <2>1, <2>2, <2>3 DEF Waiting
<1>3. ASSUME NEW i \in DOMAIN immutables', NEW j \in DOMAIN immutables', i < j
      PROVE  Covered(immutables'[i], immutables'[j], split)
  <2>1. i \in DOMAIN immutables /\ immutables'[i] = immutables[i]
    BY <1>1, <1>3
  <2>2. CASE j \in DOMAIN immutables
    BY <1>1, <1>3, <2>1, <2>2
  <2>3. CASE j = Len(immutables) + 1
    BY <1>1, <2>1, <2>3
  <2> QED BY <1>1, <2>2, <2>3
<1>4. ASSUME NEW i \in DOMAIN immutables'
      PROVE  immutables'[i] = mutable \/ \E j \in DOMAIN immutables : immutables'[i] = immutables[j]
  <2>1. i \in DOMAIN immutables \/ i = Len(immutables) + 1
    BY <1>1
  <2> QED BY <1>1, <2>1
<1> QED BY <1>1, <1>2, <1>3, <1>4

LEMMA TailEffect ==
    ASSUME immutables \in Seq(SUBSET Entries), immutables # <<>>,
           immutables' = Tail(immutables),
           \A i, j \in DOMAIN immutables : i < j => Covered(immutables[i], immutables[j], split)
    PROVE  /\ immutables' \in Seq(SUBSET Entries)
           /\ Waiting = Head(immutables) \cup Waiting'
           /\ Head(immutables) \subseteq Entries
           /\ \A i \in DOMAIN immutables' : Covered(Head(immutables), immutables'[i], split)
           /\ \A i \in DOMAIN immutables' : \E j \in DOMAIN immutables : immutables'[i] = immutables[j]
           /\ \E j \in DOMAIN immutables : Head(immutables) = immutables[j]
           /\ \A i, j \in DOMAIN immutables' :
                 i < j => Covered(immutables'[i], immutables'[j], split)
<1> DEFINE n == Len(immutables)
<1>1. /\ n \in Nat /\ n # 0 /\ DOMAIN immutables = 1 .. n
      /\ DOMAIN immutables' = 1 .. n - 1
      /\ \A i \in 1 .. n - 1 : immutables'[i] = immutables[i + 1]
      /\ immutables' \in Seq(SUBSET Entries) /\ Head(immutables) = immutables[1]
      /\ immutables[1] \subseteq Entries
  OBVIOUS
<1> HIDE DEF n
<1>2. \A i \in 1 .. n : i = 1 \/ (i - 1 \in 1 .. n - 1 /\ immutables'[i - 1] = immutables[i])
  <2> SUFFICES ASSUME NEW i \in 1 .. n, i # 1
               PROVE  i - 1 \in 1 .. n - 1 /\ immutables'[i - 1] = immutables[i]
    OBVIOUS
  <2>1. i - 1 \in 1 .. n - 1 /\ (i - 1) + 1 = i
    BY <1>1
  <2> QED BY <1>1, <2>1
<1>3. \A i \in 1 .. n - 1 : i + 1 \in 1 .. n /\ 1 < i + 1
  BY <1>1
<1>4. 1 \in 1 .. n
  BY <1>1
<1>5. Waiting = immutables[1] \cup Waiting'
  <2>1. ASSUME NEW e \in Waiting, e \notin immutables[1] PROVE e \in Waiting'
    <3>1. PICK i \in 1 .. n : e \in immutables[i]
      BY <1>1 DEF Waiting
    <3>2. i - 1 \in DOMAIN immutables' /\ e \in immutables'[i - 1]
      BY <1>1, <1>2, <2>1, <3>1
    <3> QED BY <3>2 DEF Waiting
  <2>2. Waiting' \subseteq Waiting
    BY <1>1, <1>3 DEF Waiting
  <2>3. immutables[1] \subseteq Waiting
    BY <1>1, <1>4 DEF Waiting
  <2> QED BY <2>1, <2>2, <2>3
<1>6. ASSUME NEW i \in DOMAIN immutables'
      PROVE  /\ Covered(immutables[1], immutables'[i], split)
             /\ \E j \in DOMAIN immutables : immutables'[i] = immutables[j]
  BY <1>1, <1>3, <1>4
<1>7. ASSUME NEW i \in DOMAIN immutables', NEW j \in DOMAIN immutables', i < j
      PROVE  Covered(immutables'[i], immutables'[j], split)
  <2>1. i + 1 < j + 1
    BY <1>1, <1>7
  <2> QED BY <1>1, <1>3, <2>1
<1> QED BY <1>1, <1>4, <1>5, <1>6, <1>7

\* What is in the tree can be ordered.
LEMMA StoredTyped ==
    ASSUME IInv
    PROVE  /\ mutable \subseteq Entries /\ Waiting \subseteq Entries /\ FileEntries \subseteq Entries
           /\ \A e \in accepted \cup log : e.seq \in Nat
BY EntriesTyped DEF IInv, Typed, Stored

-----------------------------------------------------------------------------
(* Commits and writers. *)

\* A larger set of split keys asks for less.
LEMMA CoveredGrows ==
    ASSUME NEW es, NEW fs, NEW u, NEW v, Covered(es, fs, u), u \subseteq v
    PROVE  Covered(es, fs, v)
BY DEF Covered

\* A committed version is newer than all that is in the log and in the tree.
LEMMA CommitKeeps ==
    ASSUME IInv, NEW e \in Entries, Commit(e)
    PROVE  IInv'
<1>1. /\ phase = "open" /\ log' = log \cup {e} /\ unflushed' = unflushed \cup {e}
      /\ \A o \in log \cup accepted : o.key = e.key => o.seq < e.seq
      /\ UNCHANGED <<phase, mutable, immutables, recovered, flushAll, broken, tables,
                     nextFile, files, batch, put, pending, accepted, split>>
  BY DEF Commit, tree, disk, history
<1>2. /\ Typed' /\ FilesTyped' /\ Registered' /\ Session' /\ Stored'
      /\ MemoryOrdered' /\ FilesOrdered'
  BY <1>1 DEF IInv, Typed, FilesTyped, Registered, Session, Stored, MemoryOrdered,
     FilesOrdered, Waiting, Whole, FileEntries
<1>3. LogClosed'
  <2> SUFFICES ASSUME NEW f \in log', NEW a \in accepted', a.key = f.key, f.seq < a.seq
               PROVE  a \in log'
    BY DEF LogClosed
  <2>1. CASE f \in log
    BY <1>1, <2>1 DEF IInv, LogClosed
  <2>2. CASE f = e
    <3>1. a.seq < e.seq /\ a.seq \in Nat /\ e.seq \in Nat
      BY <1>1, <2>2, StoredTyped, EntriesTyped
    <3> QED BY <2>2, <3>1
  <2> QED BY <1>1, <2>1, <2>2
<1>4. BatchesOK'
  <2>1. \A w \in Writers : batch[w] \in SUBSET log' /\ pending[w] \in log' \cup {NoEntry}
    BY <1>1 DEF IInv, BatchesOK
  <2> QED BY <1>1, <2>1 DEF IInv, BatchesOK, Rest
<1> QED BY <1>2, <1>3, <1>4 DEF IInv

\* What is not in order after a write is a key that the write has split.
LEMMA WriteLockedKeeps ==
    ASSUME IInv, NEW w \in Writers, WriteLocked(w)
    PROVE  IInv'
<1> DEFINE e == pending[w]
<1>1. /\ phase = "open" /\ e # NoEntry /\ accepted' = accepted \cup {e}
      /\ pending' = [pending EXCEPT ![w] = NoEntry]
      /\ put' = [put EXCEPT ![w] = @ \cup {e}]
      /\ split' = split \cup {o.key : o \in NewerElsewhere(e)}
      /\ UNCHANGED <<phase, recovered, unflushed, batch, flushAll, broken, tables, nextFile,
                     files, log>>
      /\ \/ immutables' = Append(immutables, mutable) /\ mutable' = {e}
         \/ mutable' = mutable \cup {e} /\ immutables' = immutables
  BY DEF WriteLocked, SwitchMemTable, MemPut, disk
<1>2. e \in log /\ e \in Entries /\ e \in batch[w]
  BY <1>1 DEF IInv, BatchesOK, Typed, Rest
<1> HIDE DEF e
<1>3. /\ split \subseteq split'
      /\ \A o \in accepted : o.key = e.key /\ e.seq < o.seq => o \in mutable' \/ e.key \in split'
  BY <1>1 DEF NewerElsewhere
<1>4. /\ mutable \in SUBSET Entries /\ immutables \in Seq(SUBSET Entries)
      /\ \A i \in DOMAIN immutables : /\ Covered(immutables[i], mutable, split)
                                      /\ Covered(FileEntries, immutables[i], split)
      /\ \A i, j \in DOMAIN immutables : i < j => Covered(immutables[i], immutables[j], split)
      /\ Covered(FileEntries, mutable, split)
  BY DEF IInv, Typed, MemoryOrdered
<1>5. FileEntries' = FileEntries /\ Whole' = Whole
  BY <1>1 DEF FileEntries, Whole
<1>6. /\ mutable \subseteq accepted /\ FileEntries \subseteq accepted
      /\ \A i \in DOMAIN immutables : immutables[i] \subseteq accepted
  BY DEF IInv, Stored, Waiting
<1>7. /\ immutables' \in Seq(SUBSET Entries) /\ mutable' \subseteq Entries
      /\ mutable' \cup Waiting' = mutable \cup Waiting \cup {e}
      /\ MemoryOrdered'
  <2>1. CASE immutables' = Append(immutables, mutable) /\ mutable' = {e}
    <3>1. /\ immutables' \in Seq(SUBSET Entries) /\ Waiting' = Waiting \cup mutable
          /\ \A i \in DOMAIN immutables' :
                immutables'[i] = mutable \/ \E j \in DOMAIN immutables : immutables'[i] = immutables[j]
          /\ \A i, j \in DOMAIN immutables' :
                i < j => Covered(immutables'[i], immutables'[j], split)
      BY <1>4, <2>1, SwitchEffect
    <3>2. ASSUME NEW es \in SUBSET accepted PROVE Covered(es, mutable', split')
      BY <1>3, <2>1 DEF Covered
    <3>3. ASSUME NEW i \in DOMAIN immutables'
          PROVE  /\ Covered(immutables'[i], mutable', split')
                 /\ Covered(FileEntries, immutables'[i], split')
      <4>1. immutables'[i] \subseteq accepted /\ Covered(FileEntries, immutables'[i], split)
        BY <1>4, <1>6, <3>1
      <4> QED BY <1>3, <3>2, <4>1, CoveredGrows
    <3>4. Covered(FileEntries, mutable', split')
      BY <1>6, <3>2
    <3>5. \A i, j \in DOMAIN immutables' :
             i < j => Covered(immutables'[i], immutables'[j], split')
      BY <1>3, <3>1, CoveredGrows
    <3> QED BY <1>2, <1>5, <2>1, <3>1, <3>3, <3>4, <3>5 DEF MemoryOrdered
  <2>2. CASE mutable' = mutable \cup {e} /\ immutables' = immutables
    <3>1. Waiting' = Waiting
      BY <2>2 DEF Waiting
    <3>2. ASSUME NEW es \in SUBSET accepted, Covered(es, mutable, split)
          PROVE  Covered(es, mutable', split')
      BY <1>3, <2>2, <3>2 DEF Covered
    <3>3. ASSUME NEW i \in DOMAIN immutables
          PROVE  /\ Covered(immutables[i], mutable', split')
                 /\ Covered(FileEntries, immutables[i], split')
      BY <1>3, <1>4, <1>6, <3>2, CoveredGrows
    <3>4. Covered(FileEntries, mutable', split')
      BY <1>4, <1>6, <3>2
    <3>5. \A i, j \in DOMAIN immutables : i < j => Covered(immutables[i], immutables[j], split')
      BY <1>3, <1>4, CoveredGrows
    <3> QED BY <1>2, <1>4, <1>5, <2>2, <3>1, <3>3, <3>4, <3>5 DEF MemoryOrdered
  <2> QED BY <1>1, <2>1, <2>2
<1>8. Typed' /\ FilesTyped' /\ Registered' /\ Session'
  BY <1>1, <1>2, <1>5, <1>7 DEF IInv, Typed, FilesTyped, Registered, Session
<1>9. FilesOrdered'
  BY <1>3, <1>5, CoveredGrows DEF IInv, FilesOrdered
<1>10. Stored' /\ LogClosed'
  BY <1>1, <1>2, <1>5, <1>7 DEF IInv, Stored, LogClosed
<1>11. BatchesOK'
  <2>1. /\ batch \in [Writers -> SUBSET log] /\ put \in [Writers -> SUBSET accepted]
        /\ pending \in [Writers -> log \cup {NoEntry}]
    BY DEF IInv, BatchesOK
  <2>2. put' \in [Writers -> SUBSET accepted'] /\ pending' \in [Writers -> log \cup {NoEntry}]
    BY <1>1, <2>1
  <2>3. \A v \in Writers :
           put'[v] \subseteq batch[v] /\ (pending'[v] # NoEntry => pending'[v] \in Rest(v)')
    BY <1>1, <1>2, <2>1 DEF IInv, BatchesOK, Rest
  <2> QED BY <1>1, <2>2, <2>3 DEF IInv, BatchesOK
<1> QED BY <1>7, <1>8, <1>9, <1>10, <1>11 DEF IInv

-----------------------------------------------------------------------------
(* Flushes. *)

LEMMA FlushOldestKeeps == ASSUME IInv, FlushOldest PROVE IInv'
<1> DEFINE es == Head(immutables)
<1>1. /\ immutables # <<>> /\ DoFlushMemTable(es) /\ immutables' = Tail(immutables)
      /\ UNCHANGED <<phase, mutable, recovered, unflushed, batch, put, pending, flushAll,
                     broken, log, accepted, split>>
      /\ phase # "closed"
  BY DEF FlushOldest, MayFlush, FlushTaskRuns, GetMemTableForFlush, CompleteFlushedMemTable,
     IInv, Session, writers, history
<1>2. /\ immutables' \in Seq(SUBSET Entries) /\ Waiting = es \cup Waiting'
      /\ es \in SUBSET Entries
      /\ \A i \in DOMAIN immutables' : Covered(es, immutables'[i], split)
      /\ \A i \in DOMAIN immutables' : \E j \in DOMAIN immutables : immutables'[i] = immutables[j]
      /\ \E j \in DOMAIN immutables : es = immutables[j]
      /\ \A i, j \in DOMAIN immutables' : i < j => Covered(immutables'[i], immutables'[j], split)
  BY <1>1, TailEffect DEF IInv, Typed, MemoryOrdered
<1> HIDE DEF es
<1>3. /\ \A f \in Whole : Covered(f.entries, es, split)
      /\ Covered(es, mutable, split)
  BY <1>2 DEF IInv, MemoryOrdered, Covered, FileEntries, Whole
<1>4. /\ FilesTyped' /\ FilesOrdered' /\ FileEntries' = FileEntries \cup es
      /\ tables' = Whole' /\ \A f \in Whole' : f.number < nextFile'
  BY <1>1, <1>2, <1>3, FlushEffect DEF IInv
<1>5. Typed' /\ Registered' /\ Session'
  BY <1>1, <1>2, <1>4 DEF IInv, Typed, Registered, Session
<1>6. Stored'
  BY <1>1, <1>2, <1>4 DEF IInv, Stored
<1>7. MemoryOrdered'
  <2>1. ASSUME NEW fs, Covered(FileEntries, fs, split), Covered(es, fs, split)
        PROVE  Covered(FileEntries', fs, split)
    BY <1>4, <2>1 DEF Covered
  <2>2. ASSUME NEW i \in DOMAIN immutables'
        PROVE  /\ Covered(immutables'[i], mutable, split)
               /\ Covered(FileEntries', immutables'[i], split)
    BY <1>2, <2>1 DEF IInv, MemoryOrdered
  <2>3. Covered(FileEntries', mutable, split)
    BY <1>3, <2>1 DEF IInv, MemoryOrdered
  <2> QED BY <1>1, <1>2, <2>2, <2>3 DEF MemoryOrdered
<1>8. LogClosed' /\ BatchesOK'
  BY <1>1 DEF IInv, LogClosed, BatchesOK, Rest
<1> QED BY <1>4, <1>5, <1>6, <1>7, <1>8 DEF IInv

LEMMA FlushFailsKeeps == ASSUME IInv, FlushFails PROVE IInv'
<1>1. /\ nextFile' = nextFile + 1 /\ files' = {f \in files : f.number # nextFile}
      /\ UNCHANGED <<phase, mutable, immutables, recovered, unflushed, batch, put, pending,
                     tables, log, accepted, split>>
      /\ \/ UNCHANGED <<flushAll, broken>>
         \/ flushAll' = FALSE /\ UNCHANGED broken
         \/ phase = "closing" /\ broken' = TRUE /\ UNCHANGED flushAll
      /\ phase # "closed"
  BY DEF FlushFails, MayFlush, FlushTaskRuns, IInv, Session, writers
<1>2. /\ tables = Whole /\ nextFile \in Nat
      /\ \A f \in Whole : f.number < nextFile /\ f.number \in Nat
  BY <1>1 DEF IInv, Registered, FilesTyped, Whole, Table
<1>3. files' \subseteq Table /\ IsFiniteSet(files') /\ Whole' = Whole
  BY <1>1, <1>2, FS_Subset DEF IInv, FilesTyped, Whole
<1>4. FileEntries' = FileEntries /\ FilesOrdered'
  BY <1>1, <1>3, WholeStays DEF IInv
<1>5. Typed' /\ FilesTyped' /\ Registered' /\ Session'
  <2>1. flushAll' \in BOOLEAN /\ broken' \in BOOLEAN
    BY <1>1 DEF IInv, Typed
  <2>2. broken' => phase = "closing"
    BY <1>1 DEF IInv, Session
  <2> QED BY <1>1, <1>2, <1>3, <2>1, <2>2 DEF IInv, Typed, FilesTyped, Registered, Session
<1>6. Stored' /\ MemoryOrdered' /\ LogClosed' /\ BatchesOK'
  BY <1>1, <1>4 DEF IInv, Stored, MemoryOrdered, LogClosed, BatchesOK, Rest, Waiting
<1> QED BY <1>4, <1>5, <1>6 DEF IInv

-----------------------------------------------------------------------------
(* Open and recovery. *)

\* A set of numbers has a least one.
LEMMA Least ==
    ASSUME NEW T \in SUBSET Nat, T # {}
    PROVE  \E x \in T : \A y \in T : x <= y
<1> DEFINE R == OpToRel(<, Nat)
<1>1. \A x, y \in Nat : <<y, x>> \in R <=> y < x
  BY DEF OpToRel
<1>2. PICK x \in T : \A y \in T : ~(<<y, x>> \in R)
  <2> HIDE DEF R
  <2>1. IsWellFoundedOn(R, Nat)
    BY NatLessThanWellFounded DEF R
  <2> QED BY <2>1, WFMin
<1>3. \A y \in T : ~(y < x) /\ x \in Nat /\ y \in Nat
  BY <1>1, <1>2
<1> QED BY <1>3

\* A finite set of numbers has a greatest one: of the sets that had none, a
\* smallest one would have one.
LEMMA Greatest ==
    ASSUME NEW S \in SUBSET Nat, IsFiniteSet(S), S # {}
    PROVE  \E n \in S : \A m \in S : m <= n
<1> DEFINE Has(A) == \E n \in A : \A m \in A : m <= n
           Bad == {A \in SUBSET S : A # {} /\ ~Has(A)}
           Sizes == {Cardinality(A) : A \in Bad}
<1> SUFFICES ASSUME Bad # {} PROVE FALSE
  OBVIOUS
<1>1. \A A \in SUBSET S : IsFiniteSet(A) /\ Cardinality(A) \in Nat
  BY FS_Subset, FS_CardinalityType
<1>2. PICK A \in Bad : \A B \in Bad : Cardinality(A) <= Cardinality(B)
  <2>1. Sizes \in SUBSET Nat /\ Sizes # {}
    BY <1>1
  <2>2. PICK n \in Sizes : \A m \in Sizes : n <= m
    <3> HIDE DEF Sizes
    <3> QED BY <2>1, Least
  <2> QED BY <2>2
<1>3. PICK a \in A : TRUE
  BY <1>2
<1>4. Cardinality(A \ {a}) = Cardinality(A) - 1
  BY <1>1, <1>2, <1>3, FS_RemoveElement
<1>5. A \ {a} \notin Bad
  <2>1. Cardinality(A) \in Nat
    BY <1>1, <1>2
  <2>2. ~(Cardinality(A) <= Cardinality(A \ {a}))
    BY <1>4, <2>1
  <2> QED BY <1>2, <2>2
<1>6. CASE A \ {a} = {}
  <2>1. A = {a} /\ a <= a
    BY <1>2, <1>3, <1>6
  <2> QED BY <1>2, <2>1
<1>7. CASE Has(A \ {a})
  <2>1. PICK n \in A \ {a} : \A m \in A \ {a} : m <= n
    BY <1>7
  <2>2. \A m \in A : m \in Nat
    BY <1>2
  <2>3. IF a <= n THEN \A m \in A : m <= n ELSE \A m \in A : m <= a
    BY <1>3, <2>1, <2>2
  <2> QED BY <1>2, <1>3, <2>1, <2>3
<1> QED BY <1>2, <1>5, <1>6, <1>7

\* The next number is above those of the files found.
LEMMA OpenKeeps == ASSUME IInv, Open PROVE IInv'
<1>1. /\ phase = "closed" /\ phase' = "recovering" /\ LoadExistingSSTables
      /\ mutable' = {} /\ immutables' = <<>> /\ recovered' = {} /\ unflushed' = {}
      /\ batch' = [w \in Writers |-> {}] /\ put' = [w \in Writers |-> {}]
      /\ pending' = [w \in Writers |-> NoEntry] /\ flushAll' = FALSE /\ broken' = FALSE
      /\ UNCHANGED <<files, log, accepted, split>>
  BY DEF Open, Fresh, disk, history
<1>2. Whole' = Whole /\ FileEntries' = FileEntries /\ tables' = Whole
  BY <1>1 DEF LoadExistingSSTables, Whole, FileEntries
<1>3. nextFile' \in Nat \ {0} /\ \A f \in Whole : f.number < nextFile'
  <2>1. CASE Whole = {}
    BY <1>1, <2>1 DEF LoadExistingSSTables, Whole
  <2>2. CASE Whole # {}
    <3> DEFINE N == {f.number : f \in Whole}
    <3>1. N \in SUBSET Nat /\ N # {}
      BY <2>2 DEF IInv, FilesTyped, Whole, Table
    <3>2. IsFiniteSet(N)
      <4>1. IsFiniteSet(Whole)
        BY FS_Subset DEF IInv, FilesTyped, Whole
      <4> DEFINE g == [f \in Whole |-> f.number]
      <4>2. g \in Surjection(Whole, N)
        BY DEF Surjection
      <4> QED BY <4>1, <4>2, FS_Surjection
    <3>3. PICK n \in N : \A m \in N : m <= n
      <4> HIDE DEF N
      <4> QED BY <3>1, <3>2, Greatest
    <3>4. nextFile' = 1 + (CHOOSE n1 \in N : \A f \in Whole : f.number <= n1)
      BY <1>1, <2>2 DEF LoadExistingSSTables, Whole
    <3>5. n \in N /\ \A f \in Whole : f.number <= n
      BY <3>3
    <3>6. PICK x \in N : nextFile' = 1 + x /\ \A f \in Whole : f.number <= x
      <4> HIDE DEF N
      <4> QED BY <3>4, <3>5
    <3>7. x \in Nat /\ \A f \in Whole : f.number \in Nat
      BY <3>1
    <3> HIDE DEF N
    <3> QED BY <3>6, <3>7
  <2> QED BY <2>1, <2>2
<1>4. mutable = {} /\ Waiting = {} /\ Waiting' = {}
  BY <1>1 DEF IInv, Session, Waiting
<1>5. Typed' /\ Registered' /\ Session'
  BY <1>1, <1>2, <1>3 DEF IInv, Typed, Phases, Registered, Session
<1>6. FilesTyped' /\ FilesOrdered'
  BY <1>1, <1>2, <1>3 DEF IInv, FilesTyped, FilesOrdered
<1>7. Stored' /\ MemoryOrdered'
  BY <1>1, <1>2, <1>4 DEF IInv, Stored, MemoryOrdered, Covered
<1>8. LogClosed' /\ BatchesOK'
  BY <1>1 DEF IInv, LogClosed, BatchesOK
<1> QED BY <1>5, <1>6, <1>7, <1>8 DEF IInv

\* A table of what was replayed has again all that is newer in older tables.
LEMMA FinishRecoveryKeeps == ASSUME IInv, FinishRecovery PROVE IInv'
<1>1. /\ phase = "recovering" /\ recovered = log /\ DoFlushMemTable(log)
      /\ recovered' = {} /\ phase' = "replayed" /\ accepted' = accepted \cup log
      /\ UNCHANGED <<mutable, immutables, unflushed, batch, put, pending, flushAll, broken,
                     log, split>>
  BY DEF FinishRecovery, writers
<1>2. \A f \in Whole : Covered(f.entries, log, split)
  <2>1. FileEntries \subseteq accepted
    BY DEF IInv, Stored
  <2> QED BY <2>1 DEF Covered, FileEntries, Whole, IInv, LogClosed
<1>3. /\ FilesTyped' /\ FilesOrdered' /\ FileEntries' = FileEntries \cup log
      /\ tables' = Whole' /\ \A f \in Whole' : f.number < nextFile'
  BY <1>1, <1>2, FlushEffect DEF IInv, Typed
<1>4. mutable = {} /\ Waiting = {} /\ Waiting' = {}
  BY <1>1 DEF IInv, Session, Waiting
<1>5. Typed' /\ Registered' /\ Session'
  BY <1>1, <1>3 DEF IInv, Typed, Phases, Registered, Session
<1>6. Stored'
  BY <1>1, <1>3, <1>4 DEF IInv, Stored
<1>7. MemoryOrdered'
  BY <1>1, <1>4 DEF IInv, Session, MemoryOrdered, Covered
<1>8. LogClosed' /\ BatchesOK'
  BY <1>1 DEF IInv, LogClosed, BatchesOK, Rest
<1> QED BY <1>3, <1>5, <1>6, <1>7, <1>8 DEF IInv

-----------------------------------------------------------------------------
(* Close and crash. *)

\* The process ends: what is in files that can be opened is what is accepted.
LEMMA EndKeeps ==
    ASSUME IInv, phase # "closed", phase' = "closed", Fresh, tables' = {},
           UNCHANGED <<nextFile, log, split>>,
           files' \subseteq Table, IsFiniteSet(files'), FilesOrdered',
           accepted' \subseteq accepted, accepted' = FileEntries'
    PROVE  IInv'
<1>1. /\ mutable' = {} /\ immutables' = <<>> /\ recovered' = {} /\ Waiting' = {}
      /\ unflushed' = {} /\ batch' = [w \in Writers |-> {}] /\ put' = [w \in Writers |-> {}]
      /\ pending' = [w \in Writers |-> NoEntry] /\ flushAll' = FALSE /\ broken' = FALSE
  BY DEF Fresh, Waiting
<1>2. Typed'
  <2>1. immutables' \in Seq(SUBSET Entries)
    BY <1>1
  <2>2. recovered' \subseteq log' /\ log' \subseteq Entries /\ accepted' \subseteq Entries
    BY <1>1 DEF IInv, Typed
  <2> QED BY <1>1, <2>1, <2>2 DEF Typed, Phases
<1>3. FilesTyped' /\ Registered' /\ Session'
  BY <1>1 DEF IInv, FilesTyped, Registered, Session
<1>4. Stored' /\ MemoryOrdered'
  BY <1>1 DEF Stored, MemoryOrdered, Covered
<1>5. LogClosed' /\ BatchesOK'
  BY <1>1 DEF IInv, LogClosed, BatchesOK
<1> QED BY <1>2, <1>3, <1>4, <1>5 DEF IInv

LEMMA CloseEndsKeeps == ASSUME IInv, CloseEnds PROVE IInv'
<1>1. /\ phase = "closing" /\ (immutables = <<>> \/ broken)
      /\ files' = IF mutable = {} THEN files ELSE Written(NewTable(mutable))
      /\ accepted' = IF broken THEN accepted \cap FileEntries' ELSE accepted
      /\ phase' = "closed" /\ Fresh /\ tables' = {} /\ UNCHANGED <<nextFile, log, split>>
  BY DEF CloseEnds
<1>2. mutable \in SUBSET Entries /\ \A f \in Whole : f.number < nextFile
  BY <1>1 DEF IInv, Typed, Registered
<1>3. \A f \in Whole : Covered(f.entries, mutable, split)
  BY DEF IInv, MemoryOrdered, Covered, FileEntries, Whole
<1>4. /\ files' \subseteq Table /\ IsFiniteSet(files') /\ FilesOrdered'
      /\ FileEntries' = FileEntries \cup mutable
  <2>1. CASE mutable = {}
    BY <1>1, <2>1 DEF IInv, FilesTyped, FilesOrdered, Whole, FileEntries
  <2>2. CASE mutable # {}
    BY <1>1, <1>2, <1>3, <2>2, WrittenEffect DEF IInv
  <2> QED BY <2>1, <2>2
<1>5. accepted' \subseteq accepted /\ accepted' = FileEntries'
  <2>1. CASE broken
    BY <1>1, <1>4, <2>1 DEF IInv, Stored
  <2>2. CASE ~broken
    <3>1. Waiting = {}
      BY <1>1, <2>2 DEF Waiting
    <3> QED BY <1>1, <1>4, <2>2, <3>1 DEF IInv, Stored
  <2> QED BY <2>1, <2>2
<1> QED BY <1>1, <1>4, <1>5, EndKeeps

LEMMA CrashKeeps == ASSUME IInv, Crash \/ CloseFails PROVE IInv'
<1>1. /\ phase # "closed" /\ phase' = "closed" /\ Fresh /\ tables' = {}
      /\ files' = files \/ files' = Written(HalfTable)
      /\ accepted' = accepted \cap FileEntries' /\ UNCHANGED <<nextFile, log, split>>
  <2>1. CASE Crash
    BY <2>1 DEF Crash
  <2>2. CASE CloseFails
    <3>1. FileEntries' = FileEntries
      BY <2>2 DEF CloseFails, disk, FileEntries
    <3> QED BY <2>2, <3>1 DEF CloseFails, disk
  <2> QED BY <2>1, <2>2
<1>2. \A f \in Whole : f.number < nextFile /\ f.number \in Nat
  BY <1>1 DEF IInv, Registered, FilesTyped, Whole, Table
<1>3. files' \subseteq Table /\ IsFiniteSet(files') /\ Whole' = Whole
  <2>1. CASE files' = files
    BY <2>1 DEF IInv, FilesTyped, Whole
  <2>2. CASE files' = Written(HalfTable)
    <3>1. /\ HalfTable \in Table /\ HalfTable.number = nextFile /\ ~HalfTable.whole
          /\ nextFile \in Nat
      BY DEF HalfTable, Table, IInv, FilesTyped
    <3>2. files' = {f \in files : f.number # nextFile} \cup {HalfTable}
      BY <2>2, <3>1 DEF Written
    <3>3. IsFiniteSet({f \in files : f.number # nextFile})
      BY FS_Subset DEF IInv, FilesTyped
    <3> HIDE DEF HalfTable
    <3>4. files' \subseteq Table /\ IsFiniteSet(files')
      BY <3>1, <3>2, <3>3, FS_AddElement DEF IInv, FilesTyped
    <3> QED BY <1>2, <3>1, <3>2, <3>4 DEF Whole, Opens
  <2> QED BY <1>1, <2>1, <2>2
<1>4. FileEntries' = FileEntries /\ FilesOrdered'
  BY <1>1, <1>3, WholeStays DEF IInv
<1>5. accepted' \subseteq accepted /\ accepted' = FileEntries'
  BY <1>1, <1>4 DEF IInv, Stored
<1> QED BY <1>1, <1>3, <1>4, <1>5, EndKeeps

-----------------------------------------------------------------------------
(* All steps. *)

\* Steps that touch neither entries nor tables.
LEMMA TreeStays ==
    ASSUME IInv, BatchesOK',
           UNCHANGED <<mutable, immutables, broken, tables, nextFile, files, log, accepted,
                       split>>,
           phase' = phase \/ (phase = "open" /\ phase' = "closing"),
           recovered' \subseteq log, phase' # "recovering" => recovered' = {},
           flushAll' \in BOOLEAN
    PROVE  IInv'
<1>1. FileEntries' = FileEntries /\ Whole' = Whole /\ Waiting' = Waiting
  BY DEF FileEntries, Whole, Waiting
<1>2. Typed' /\ FilesTyped'
  BY DEF IInv, Typed, FilesTyped, Phases
<1>3. Registered' /\ Session'
  BY <1>1 DEF IInv, Registered, Session
<1>4. Stored' /\ MemoryOrdered' /\ FilesOrdered'
  BY <1>1 DEF IInv, Stored, MemoryOrdered, FilesOrdered
<1>5. LogClosed'
  BY DEF IInv, LogClosed
<1> QED BY <1>2, <1>3, <1>4, <1>5 DEF IInv

\* A writer that picks, passes the check, gives up or marks its batch.  All
\* that it marks it has put.
LEMMA WriterKeeps ==
    ASSUME IInv, NEW w \in Writers,
           \/ Pick(w) \/ WriteStopped(w) \/ WriteRefused(w) \/ MarkFlushed(w)
           \/ \E e \in Entries : CheckWrite(w, e)
    PROVE  IInv'
<1>1. /\ UNCHANGED <<phase, mutable, immutables, recovered, flushAll, broken, tables,
                     nextFile, files, log, accepted, split>>
      /\ phase = "open"
  BY DEF Pick, WriteStopped, WriteRefused, MarkFlushed, CheckWrite, tree, disk, history
<1>2. /\ unflushed \subseteq log
      /\ batch \in [Writers -> SUBSET log] /\ put \in [Writers -> SUBSET accepted]
      /\ pending \in [Writers -> log \cup {NoEntry}]
      /\ \A v \in Writers :
            put[v] \subseteq batch[v] /\ (pending[v] # NoEntry => pending[v] \in Rest(v))
      /\ log \subseteq unflushed \cup accepted
  BY <1>1 DEF IInv, BatchesOK
<1>3. BatchesOK'
  <2>1. CASE Pick(w)
    <3>1. PICK ks \in SUBSET {e.key : e \in unflushed} :
             batch' = [batch EXCEPT ![w] = {e \in unflushed : e.key \in ks}]
      BY <2>1 DEF Pick
    <3>2. UNCHANGED <<unflushed, put, pending>> /\ batch[w] = {}
      BY <2>1 DEF Pick
    <3>3. batch' \in [Writers -> SUBSET log]
      BY <1>2, <3>1
    <3>4. \A v \in Writers :
             put[v] \subseteq batch'[v] /\ (pending[v] # NoEntry => pending[v] \in Rest(v)')
      BY <1>2, <3>1, <3>2 DEF Rest
    <3> QED BY <1>1, <1>2, <3>2, <3>3, <3>4 DEF BatchesOK
  <2>2. CASE WriteStopped(w) \/ WriteRefused(w)
    <3>1. /\ batch' = [batch EXCEPT ![w] = {}] /\ put' = [put EXCEPT ![w] = {}]
          /\ pending' = [pending EXCEPT ![w] = NoEntry] /\ unflushed' = unflushed
      BY <2>2 DEF WriteStopped, WriteRefused, Drop
    <3> QED BY <1>1, <1>2, <3>1 DEF BatchesOK, Rest
  <2>3. CASE MarkFlushed(w)
    <3>1. /\ batch' = [batch EXCEPT ![w] = {}] /\ put' = [put EXCEPT ![w] = {}]
          /\ pending' = pending /\ unflushed' = unflushed \ batch[w] /\ put[w] = batch[w]
          /\ pending[w] = NoEntry
      BY <1>2, <2>3 DEF MarkFlushed, Rest
    <3>2. batch[w] \subseteq accepted
      BY <1>2, <3>1
    <3> QED BY <1>1, <1>2, <3>1, <3>2 DEF BatchesOK, Rest
  <2>4. ASSUME NEW e \in Entries, CheckWrite(w, e) PROVE BatchesOK'
    <3>1. /\ pending' = [pending EXCEPT ![w] = e] /\ UNCHANGED <<unflushed, batch, put>>
          /\ e \in Rest(w) /\ e \in log
      BY <1>2, <2>4 DEF CheckWrite, IsNext, Rest
    <3> QED BY <1>1, <1>2, <3>1 DEF BatchesOK, Rest
  <2> QED BY <2>1, <2>2, <2>3, <2>4
<1> QED BY <1>1, <1>3, TreeStays DEF IInv, Typed, Session

LEMMA OthersKeep ==
    ASSUME IInv,
           FlushAllEnds \/ RecoverRecords \/ CloseBegins \/ CompactRange \/ UNCHANGED vars
    PROVE  IInv'
<1>1. /\ flushAll \in BOOLEAN /\ recovered \subseteq log
      /\ (phase # "recovering" => recovered = {})
  BY DEF IInv, Typed, Session
<1>2. CASE FlushAllEnds
  <2>1. BatchesOK'
    BY <1>2 DEF FlushAllEnds, writers, history, IInv, BatchesOK, Rest
  <2> QED BY <1>1, <1>2, <2>1, TreeStays DEF FlushAllEnds, disk, history
<1>3. CASE RecoverRecords
  <2>1. BatchesOK'
    BY <1>3 DEF RecoverRecords, writers, history, IInv, BatchesOK, Rest
  <2> QED BY <1>1, <1>3, <2>1, TreeStays DEF RecoverRecords, disk, history
<1>4. CASE CloseBegins
  <2>1. BatchesOK'
    BY <1>4 DEF CloseBegins, writers, history, IInv, BatchesOK, Rest
  <2> QED BY <1>1, <1>4, <2>1, TreeStays DEF CloseBegins, tree, disk, history
<1>5. CASE CompactRange
  <2>1. BatchesOK'
    BY <1>5 DEF CompactRange, memory, writers, history, IInv, BatchesOK, Rest
  <2> QED BY <1>1, <1>5, <2>1, TreeStays DEF CompactRange, memory, history
<1>6. CASE UNCHANGED vars
  <2>1. BatchesOK'
    BY <1>6 DEF vars, memory, writers, history, IInv, BatchesOK, Rest
  <2> QED BY <1>1, <1>6, <2>1, TreeStays DEF vars, memory, disk, history
<1> QED BY <1>2, <1>3, <1>4, <1>5, <1>6

\* The log is emptied: a database opens, or has closed.
LEMMA LogEmptiedKeeps == ASSUME IInv, LogSwept \/ LogTruncated PROVE IInv'
<1>1. /\ log' = {} /\ recovered = {} /\ unflushed = {} /\ \A w \in Writers : batch[w] = {}
      /\ \/ phase = "replayed" /\ phase' = "open"
         \/ phase = "closed" /\ phase' = "closed"
      /\ UNCHANGED <<memory, tables, nextFile, files, accepted, split>>
  BY DEF LogSwept, LogTruncated, disk, history, IInv, Session, BatchesOK
<1>2. FileEntries' = FileEntries /\ Whole' = Whole /\ Waiting' = Waiting
  BY <1>1 DEF FileEntries, Whole, Waiting, memory
<1>3. Typed' /\ FilesTyped'
  BY <1>1 DEF IInv, Typed, FilesTyped, Phases, memory
<1>4. Registered' /\ Session'
  BY <1>1, <1>2 DEF IInv, Registered, Session, memory
<1>5. Stored' /\ MemoryOrdered' /\ FilesOrdered'
  BY <1>1, <1>2 DEF IInv, Stored, MemoryOrdered, FilesOrdered, memory
<1>6. LogClosed'
  BY <1>1 DEF LogClosed
<1>7. BatchesOK'
  <2>1. UNCHANGED <<unflushed, batch, put, pending, accepted>>
    BY <1>1 DEF memory, writers
  <2>2. batch \in [Writers -> SUBSET log'] /\ pending \in [Writers -> log' \cup {NoEntry}]
    BY <1>1 DEF IInv, BatchesOK, Rest
  <2> QED BY <1>1, <2>1, <2>2 DEF IInv, BatchesOK
<1> QED BY <1>3, <1>4, <1>5, <1>6, <1>7 DEF IInv

\* FlushAll makes the mutable memtable immutable.
LEMMA FlushAllBeginsKeeps == ASSUME IInv, FlushAllBegins PROVE IInv'
<1>1. /\ phase = "open" /\ flushAll' = TRUE
      /\ \/ UNCHANGED <<mutable, immutables>>
         \/ immutables' = Append(immutables, mutable) /\ mutable' = {}
      /\ UNCHANGED <<phase, recovered, unflushed, batch, put, pending, broken, tables,
                     nextFile, files, log, accepted, split>>
  BY DEF FlushAllBegins, SwitchMemTable, disk, writers, history
<1>2. FileEntries' = FileEntries /\ Whole' = Whole
  BY <1>1 DEF FileEntries, Whole
<1>3. /\ immutables' \in Seq(SUBSET Entries) /\ mutable' \subseteq Entries
      /\ mutable' \cup Waiting' = mutable \cup Waiting
      /\ MemoryOrdered'
  <2>1. CASE UNCHANGED <<mutable, immutables>>
    BY <1>1, <1>2, <2>1 DEF IInv, Typed, MemoryOrdered, Waiting
  <2>2. CASE immutables' = Append(immutables, mutable) /\ mutable' = {}
    <3>1. /\ immutables' \in Seq(SUBSET Entries) /\ Waiting' = Waiting \cup mutable
          /\ \A i \in DOMAIN immutables' :
                immutables'[i] = mutable \/ \E j \in DOMAIN immutables : immutables'[i] = immutables[j]
          /\ \A i, j \in DOMAIN immutables' :
                i < j => Covered(immutables'[i], immutables'[j], split)
      BY <2>2, SwitchEffect DEF IInv, Typed, MemoryOrdered
    <3>2. \A i \in DOMAIN immutables' : Covered(FileEntries, immutables'[i], split)
      BY <3>1 DEF IInv, MemoryOrdered
    <3>3. \A es : Covered(es, mutable', split)
      BY <2>2 DEF Covered
    <3> QED BY <1>1, <1>2, <2>2, <3>1, <3>2, <3>3 DEF MemoryOrdered
  <2> QED BY <1>1, <2>1, <2>2
<1>4. Typed' /\ FilesTyped' /\ Registered' /\ Session' /\ FilesOrdered'
  BY <1>1, <1>2, <1>3 DEF IInv, Typed, FilesTyped, Registered, Session, FilesOrdered
<1>5. Stored' /\ LogClosed' /\ BatchesOK'
  BY <1>1, <1>2, <1>3 DEF IInv, Stored, LogClosed, BatchesOK, Rest
<1> QED BY <1>3, <1>4, <1>5 DEF IInv

\* A compaction registers nothing: its output has number 0.
LEMMA CompactionKeeps == ASSUME IInv, BackgroundCompaction PROVE IInv'
<1>1. UNCHANGED <<files, tables, nextFile>>
  BY DEF BackgroundCompaction, DoLevelCompaction, CanRegister, ValidFileMeta, Output, OutputNumber
<1>2. UNCHANGED <<phase, memory, log, accepted, split>>
  BY DEF BackgroundCompaction, history
<1> QED BY <1>1, <1>2 DEF memory, writers, IInv, Typed, FilesTyped, Registered, Session,
        Stored, LogClosed, BatchesOK, Rest, MemoryOrdered, FilesOrdered, Waiting, Whole,
        FileEntries

LEMMA InitHolds == Init => IInv
<1> SUFFICES ASSUME Init PROVE IInv
  OBVIOUS
<1>1. Waiting = {} /\ FileEntries = {} /\ Whole = {}
  BY DEF Init, Waiting, FileEntries, Whole
<1>2. FilesTyped
  BY FS_EmptySet DEF Init, FilesTyped
<1>3. Typed
  <2>1. immutables \in Seq(SUBSET Entries)
    BY DEF Init
  <2> QED BY <2>1 DEF Init, Typed, Phases
<1>4. Registered /\ Session /\ Stored /\ LogClosed /\ BatchesOK
  BY <1>1 DEF Init, Registered, Session, Stored, LogClosed, BatchesOK
<1>5. MemoryOrdered /\ FilesOrdered
  BY <1>1 DEF Init, MemoryOrdered, Covered, FilesOrdered
<1> QED BY <1>2, <1>3, <1>4, <1>5 DEF IInv

THEOREM TreeKept == Spec => []IInv
<1>1. IInv /\ [Next]_vars => IInv'
  BY CommitKeeps, WriterKeeps, WriteLockedKeeps, FlushOldestKeeps, FlushFailsKeeps,
     FlushAllBeginsKeeps, CompactionKeeps, OpenKeeps, FinishRecoveryKeeps, CloseEndsKeeps,
     CrashKeeps, LogEmptiedKeeps, OthersKeep
     DEF Next
<1> QED BY <1>1, InitHolds, PTL DEF Spec

\* What Put and Delete took is never lost while the tree is open, whatever is
\* switched, flushed, compacted or fails to be written (FlushOldestMemTable,
\* Close), and is in files when it is closed without an error.  A committed
\* version that is not there is not marked flushed, so that it will be put, if
\* batches were refused half way or not (FlushCommittedToLSM, MarkFlushed).
THEOREM AcceptedIsKept == Spec => []NothingLost
<1>1. IInv => NothingLost
  <2> SUFFICES ASSUME IInv PROVE NothingLost
    OBVIOUS
  <2>1. phase # "closed" => TableEntries = FileEntries
    BY DEF IInv, Registered, TableEntries, FileEntries, Whole
  <2>2. accepted = MemEntries \cup FileEntries
    BY DEF IInv, Stored, MemEntries, Waiting
  <2>3. phase = "open" => log \subseteq unflushed \cup accepted
    BY DEF IInv, BatchesOK
  <2> QED BY <2>1, <2>2, <2>3 DEF NothingLost
<1> QED BY <1>1, TreeKept, PTL

\* Memtables, from the newest on, and then tables, from the highest number on,
\* hold ever older versions of a key, unless what they have is in the newer
\* ones too: so it is when batches are put again, when recoveries write old
\* versions to a new table (FinishRecovery), and after reopenings.  It is so of
\* all keys of which no older version has come to a newer memtable than a newer
\* version (PickCommittedNotFlushed brings the newest first).
THEOREM NewestComeFirst == Spec => []NewestFirst
<1>1. IInv => NewestFirst
  <2> SUFFICES ASSUME IInv PROVE NewestFirst
    OBVIOUS
  <2>1. CASE phase = "closed"
    <3>1. mutable = {} /\ immutables = <<>> /\ tables = {}
      BY <2>1 DEF IInv, Session, Registered
    <3> QED BY <3>1 DEF NewestFirst, Covered, TableEntries, LevelFiles
  <2>2. CASE phase # "closed"
    <3>1. tables = Whole /\ TableEntries = FileEntries
      BY <2>2 DEF IInv, Registered, TableEntries, FileEntries, Whole
    <3> QED BY <3>1 DEF IInv, MemoryOrdered, FilesOrdered, NewestFirst, LevelFiles
  <2> QED BY <2>1, <2>2
<1> QED BY <1>1, TreeKept, PTL

-----------------------------------------------------------------------------
(* Reading.  What is needed of the whole state: versions of a key have
   numbers of their own, and so have files. *)

SeqOnce ==
    \A a, b \in log \cup accepted : a.key = b.key /\ a.seq = b.seq => a = b
NumbersOnce == \A f, g \in Whole : f.number = g.number => f = g
Bounded == IsFiniteSet(log) /\ IsFiniteSet(accepted)

ReadInv == SeqOnce /\ NumbersOnce /\ Bounded

\* Steps that bring no entry and no file.
LEMMA ReadStays ==
    ASSUME ReadInv, log' \subseteq log \cup accepted, accepted' \subseteq log \cup accepted,
           Whole' \subseteq Whole
    PROVE  ReadInv'
<1>1. IsFiniteSet(log \cup accepted)
  BY FS_Union DEF ReadInv, Bounded
<1>2. Bounded'
  BY <1>1, FS_Subset DEF Bounded
<1>3. SeqOnce' /\ NumbersOnce'
  BY DEF ReadInv, SeqOnce, NumbersOnce
<1> QED BY <1>2, <1>3 DEF ReadInv

\* A new file has a number above those of the files that can be opened.
LEMMA WrittenOnce ==
    ASSUME FilesTyped, \A f \in Whole : f.number < nextFile, NumbersOnce,
           NEW es, files' = Written(NewTable(es))
    PROVE  NumbersOnce'
<1>1. \A f \in Whole : f.number \in Nat /\ f.number # nextFile
  BY DEF FilesTyped, Table, Whole
<1>2. Whole' \subseteq Whole \cup {NewTable(es)} /\ NewTable(es).number = nextFile
  BY DEF Written, NewTable, Whole, Opens
<1> QED BY <1>1, <1>2 DEF NumbersOnce

LEMMA FlushOnce ==
    ASSUME IInv, NumbersOnce, phase # "closed", NEW es, DoFlushMemTable(es)
    PROVE  NumbersOnce'
<1>1. CASE es = {}
  BY <1>1 DEF DoFlushMemTable, NumbersOnce, Whole
<1>2. CASE es # {}
  BY <1>2, WrittenOnce DEF DoFlushMemTable, FlushMemTableToSSTable, IInv, Registered
<1> QED BY <1>1, <1>2

LEMMA ReadStep ==
    ASSUME IInv, ReadInv, [Next]_vars
    PROVE  ReadInv'
<1>1. CASE \E e \in Entries : Commit(e)
  <2> PICK e \in Entries : Commit(e)
    BY <1>1
  <2>1. /\ log' = log \cup {e} /\ UNCHANGED <<accepted, files>>
        /\ \A o \in log \cup accepted : o.key = e.key => o.seq < e.seq
    BY DEF Commit, tree, disk, history
  <2>2. Bounded' /\ NumbersOnce'
    BY <2>1, FS_AddElement DEF ReadInv, Bounded, NumbersOnce, Whole
  <2>3. SeqOnce'
    <3>1. \A o \in log \cup accepted : o.key = e.key => o.seq # e.seq
      BY <2>1, StoredTyped, EntriesTyped
    <3> QED BY <2>1, <3>1 DEF ReadInv, SeqOnce
  <2> QED BY <2>2, <2>3 DEF ReadInv
<1>2. CASE \E w \in Writers : WriteLocked(w)
  <2> PICK w \in Writers : WriteLocked(w)
    BY <1>2
  <2>1. log' = log /\ files' = files /\ accepted' = accepted \cup {pending[w]}
        /\ pending[w] \in log
    BY DEF WriteLocked, disk, IInv, BatchesOK
  <2> QED BY <2>1, ReadStays DEF Whole
<1>3. CASE FlushOldest
  <2>1. /\ UNCHANGED <<log, accepted>> /\ DoFlushMemTable(Head(immutables))
        /\ phase # "closed"
    BY <1>3 DEF FlushOldest, MayFlush, FlushTaskRuns, GetMemTableForFlush, history
  <2>2. NumbersOnce'
    BY <2>1, FlushOnce DEF ReadInv
  <2> QED BY <2>1, <2>2 DEF ReadInv, SeqOnce, Bounded
<1>4. CASE FinishRecovery
  <2>1. /\ log' = log /\ accepted' = accepted \cup log /\ DoFlushMemTable(recovered)
        /\ phase # "closed"
    BY <1>4 DEF FinishRecovery
  <2>2. NumbersOnce'
    BY <2>1, FlushOnce DEF ReadInv
  <2>3. IsFiniteSet(accepted')
    BY <2>1, FS_Union DEF ReadInv, Bounded
  <2> QED BY <2>1, <2>2, <2>3 DEF ReadInv, SeqOnce, Bounded
<1>5. CASE CloseEnds
  <2>1. /\ log' = log /\ accepted' \subseteq accepted /\ phase # "closed"
        /\ files' = files \/ files' = Written(NewTable(mutable))
    BY <1>5 DEF CloseEnds
  <2>2. NumbersOnce'
    BY <2>1, WrittenOnce DEF ReadInv, IInv, Registered, NumbersOnce, Whole
  <2>3. IsFiniteSet(accepted')
    BY <2>1, FS_Subset DEF ReadInv, Bounded
  <2> QED BY <2>1, <2>2, <2>3 DEF ReadInv, SeqOnce, Bounded
<1>6. CASE CloseFails \/ Crash
  <2>1. /\ log' = log /\ accepted' \subseteq accepted
        /\ files' = files \/ files' = Written(HalfTable)
    BY <1>6 DEF CloseFails, Crash, disk
  <2>2. Whole' \subseteq Whole
    BY <2>1 DEF Whole, Written, HalfTable, Opens
  <2> QED BY <2>1, <2>2, ReadStays
<1>7. CASE FlushFails
  <2>1. UNCHANGED <<log, accepted>> /\ files' \subseteq files
    BY <1>7 DEF FlushFails
  <2> QED BY <2>1, ReadStays DEF Whole
<1>8. CASE LogSwept \/ LogTruncated
  <2>1. log' = {} /\ UNCHANGED <<accepted, files>>
    BY <1>8 DEF LogSwept, LogTruncated, disk, history
  <2> QED BY <2>1, ReadStays DEF Whole
<1>9. CASE BackgroundCompaction
  <2>1. UNCHANGED <<log, accepted, files>>
    BY <1>9 DEF BackgroundCompaction, DoLevelCompaction, CanRegister, ValidFileMeta, Output,
                OutputNumber, history
  <2> QED BY <2>1, ReadStays DEF Whole
<1>10. CASE \/ \E w \in Writers : \/ Pick(w) \/ WriteStopped(w) \/ WriteRefused(w)
                                  \/ MarkFlushed(w)
                                  \/ \E e \in Entries : CheckWrite(w, e)
            \/ FlushAllBegins \/ FlushAllEnds \/ CompactRange
            \/ Open \/ RecoverRecords \/ CloseBegins \/ UNCHANGED vars
  <2>1. UNCHANGED <<log, accepted, files>>
    BY <1>10 DEF Pick, WriteStopped, WriteRefused, MarkFlushed, CheckWrite, FlushAllBegins,
                 FlushAllEnds, CompactRange, Open, RecoverRecords, CloseBegins, vars, tree,
                 disk, history
  <2> QED BY <2>1, ReadStays DEF Whole
<1> QED
  BY <1>1, <1>2, <1>3, <1>4, <1>5, <1>6, <1>7, <1>8, <1>9, <1>10 DEF Next

-----------------------------------------------------------------------------
(* The blocks of a table (SSTableWriter, SSTableReader::FindIndexEntry). *)

LEMMA BlockNumbers ==
    /\ \A n \in Nat : n \div BlockCap \in Nat /\ BlockCap * (n \div BlockCap) <= n
    /\ \A n, m \in Nat : n <= m => n \div BlockCap <= m \div BlockCap
    /\ \A b \in Nat : /\ BlockCap * b \in Nat /\ (BlockCap * b) % BlockCap = 0
                      /\ (BlockCap * b) \div BlockCap = b
<1>1. BlockCap \in Nat \ {0}
  BY SizesAssumption
<1>2. ASSUME NEW n \in Nat
      PROVE  n \div BlockCap \in Nat /\ BlockCap * (n \div BlockCap) <= n
  BY <1>1
<1>3. ASSUME NEW n \in Nat, NEW m \in Nat, n <= m
      PROVE  n \div BlockCap <= m \div BlockCap
  BY <1>1, <1>3
<1>4. ASSUME NEW b \in Nat
      PROVE  /\ BlockCap * b \in Nat /\ (BlockCap * b) % BlockCap = 0
             /\ (BlockCap * b) \div BlockCap = b
  BY <1>1
<1> QED BY <1>2, <1>3, <1>4

\* The entries of a table are in one order.
LEMMA BeforeIsOrder ==
    ASSUME NEW a \in Entries, NEW b \in Entries
    PROVE  /\ ~Before(a, a) /\ (Before(a, b) => ~Before(b, a))
           /\ a = b \/ Before(a, b) \/ Before(b, a)
           /\ \A c \in Entries : Before(a, b) /\ Before(b, c) => Before(a, c)
<1>1. \A e \in Entries : e.key \in Nat /\ e.seq \in Nat /\ e.kind \in {"Value", "Deletion"}
  <2>1. \A e \in Entries : e.key \in Nat /\ e.seq \in Nat
    BY EntriesTyped, SizesAssumption
  <2>2. \A e \in Entries : e.kind \in {"Value", "Deletion"}
    BY DEF Entries
  <2> QED BY <2>1, <2>2
<1>2. a = b \/ a.key # b.key \/ a.seq # b.seq \/ a.kind # b.kind
  BY DEF Entries
<1>3. ~Before(a, a) /\ (Before(a, b) => ~Before(b, a))
  BY <1>1 DEF Before
<1>4. a = b \/ Before(a, b) \/ Before(b, a)
  BY <1>1, <1>2 DEF Before
<1>5. \A c \in Entries : Before(a, b) /\ Before(b, c) => Before(a, c)
  BY <1>1 DEF Before
<1> QED BY <1>3, <1>4, <1>5

\* An entry has a higher place than those before it.
LEMMA RankGrows ==
    ASSUME NEW t, t.entries \in SUBSET Entries, IsFiniteSet(t.entries),
           NEW a \in t.entries, NEW b \in t.entries
    PROVE  /\ Rank(t, a) \in Nat
           /\ Before(a, b) => Rank(t, a) < Rank(t, b)
<1> DEFINE B(e) == {o \in t.entries : Before(o, e)}
<1>1. \A e : IsFiniteSet(B(e)) /\ Cardinality(B(e)) \in Nat
  BY FS_Subset, FS_CardinalityType
<1>2. ASSUME Before(a, b) PROVE Cardinality(B(a)) < Cardinality(B(b))
  <2>1. \A o \in t.entries : Before(o, a) => Before(o, b)
    BY <1>2, BeforeIsOrder
  <2>2. B(a) \in SUBSET B(b)
    BY <2>1
  <2>3. a \in B(b) /\ a \notin B(a)
    BY <1>2, BeforeIsOrder
  <2>4. Cardinality(B(a)) <= Cardinality(B(b)) /\ Cardinality(B(b)) # Cardinality(B(a))
    <3>1. B(a) # B(b)
      BY <2>3
    <3> HIDE DEF B
    <3> QED BY <1>1, <2>2, <3>1, FS_Subset
  <2> QED BY <1>1, <2>4
<1> QED BY <1>1, <1>2 DEF Rank

\* Below the place of an entry every place is taken.
LEMMA RankFull ==
    ASSUME NEW t, t.entries \in SUBSET Entries, IsFiniteSet(t.entries),
           NEW e \in t.entries, NEW r \in Nat, r <= Rank(t, e)
    PROVE  \E m \in t.entries : Rank(t, m) = r
<1> DEFINE above == {o \in t.entries : r <= Rank(t, o)}
           below == {o \in t.entries : Rank(t, o) < r}
           place == [o \in below |-> Rank(t, o)]
<1>1. \A o \in t.entries : Rank(t, o) \in Nat
  BY RankGrows
<1>2. PICK m \in above : \A o \in above : Rank(t, m) <= Rank(t, o)
  <2> DEFINE ranks == {Rank(t, o) : o \in above}
  <2>1. ranks \in SUBSET Nat /\ ranks # {}
    BY <1>1
  <2>2. PICK n \in ranks : \A k \in ranks : n <= k
    <3> HIDE DEF ranks
    <3> QED BY <2>1, Least
  <2> QED BY <2>2
<1>3. {o \in t.entries : Before(o, m)} \subseteq below
  <2> SUFFICES ASSUME NEW o \in t.entries, Before(o, m) PROVE Rank(t, o) < r
    OBVIOUS
  <2>1. Rank(t, o) < Rank(t, m)
    BY RankGrows
  <2>2. o \notin above
    BY <1>1, <1>2, <2>1
  <2> QED BY <1>1, <2>2
<1>4. IsFiniteSet(below) /\ Cardinality(below) <= r
  <2>1. place \in Injection(below, 0 .. r - 1)
    <3>1. place \in [below -> 0 .. r - 1]
      BY <1>1
    <3>2. ASSUME NEW o \in below, NEW q \in below, Rank(t, o) = Rank(t, q) PROVE o = q
      <4>1. ~Before(o, q) /\ ~Before(q, o)
        BY <1>1, <3>2, RankGrows
      <4> QED BY <4>1, BeforeIsOrder
    <3> QED BY <3>1, <3>2 DEF Injection, IsInjective
  <2>2. IsFiniteSet(0 .. r - 1) /\ Cardinality(0 .. r - 1) = r
    <3>1. Cardinality(0 .. r - 1) = IF 0 > r - 1 THEN 0 ELSE (r - 1) - 0 + 1
      BY FS_Interval
    <3>2. IsFiniteSet(0 .. r - 1)
      BY FS_Interval
    <3> QED BY <3>1, <3>2
  <2> HIDE DEF below, place
  <2> QED BY <2>1, <2>2, FS_Injection
<1>5. Rank(t, m) <= r
  <2>1. Cardinality({o \in t.entries : Before(o, m)}) <= Cardinality(below)
    <3> HIDE DEF below
    <3> QED BY <1>3, <1>4, FS_Subset
  <2>2. Cardinality(below) \in Nat
    BY <1>4, FS_CardinalityType
  <2>3. Rank(t, m) <= Cardinality(below)
    BY <2>1 DEF Rank
  <2> HIDE DEF below
  <2> QED BY <1>1, <1>2, <1>4, <2>2, <2>3
<1> QED BY <1>1, <1>2, <1>5

\* If no other block has versions of a key, the index leads to the block of
\* the key: its first entry is not above the key, and the last entry of the key
\* is in front of whatever begins a later block.
LEMMA FoundBlock ==
    ASSUME NEW t, t.entries \in SUBSET Entries, IsFiniteSet(t.entries), NEW k \in Keys,
           InOneBlock(t, k), NEW e \in t.entries, e.key = k
    PROVE  FindIndexEntry(t, k) = BlockOf(t, e)
<1> DEFINE b == BlockOf(t, e)
           blocks == {BlockOf(t, o) : o \in {i \in Index(t) : i.key <= k}}
<1>1. \A o \in t.entries : Rank(t, o) \in Nat /\ BlockOf(t, o) \in Nat /\ o.key \in Nat
  BY RankGrows, BlockNumbers, EntriesTyped, SizesAssumption DEF BlockOf
<1>2. k \in Nat /\ b \in Nat
  BY <1>1, SizesAssumption
<1>3. b \in blocks
  <2>1. BlockCap * b \in Nat /\ BlockCap * b <= Rank(t, e)
    BY <1>1, BlockNumbers DEF BlockOf
  <2>2. PICK m \in t.entries : Rank(t, m) = BlockCap * b
    BY <2>1, RankFull
  <2>3. m \in Index(t) /\ BlockOf(t, m) = b
    <3> HIDE DEF b
    <3> QED BY <1>2, <2>2, BlockNumbers DEF Index, BlockOf
  <2>4. ~Before(e, m)
    BY <1>1, <2>1, <2>2, RankGrows
  <2>5. m.key <= k
    <3>1. m = e \/ Before(m, e)
      BY <2>4, BeforeIsOrder
    <3> QED BY <1>1, <3>1 DEF Before
  <2> QED BY <2>3, <2>5
<1>4. \A c \in blocks : c <= b /\ c \in Nat
  <2> SUFFICES ASSUME NEW o \in Index(t), o.key <= k PROVE BlockOf(t, o) <= b
    BY <1>1 DEF Index
  <2>1. o \in t.entries
    BY DEF Index
  <2>2. CASE o.key = k
    <3>1. BlockOf(t, o) = BlockOf(t, e)
      BY <2>1, <2>2 DEF InOneBlock, Visible
    <3> QED BY <1>2, <3>1
  <2>3. CASE o.key # k
    <3>1. Before(o, e)
      BY <1>1, <2>1, <2>3 DEF Before
    <3>2. Rank(t, o) <= Rank(t, e)
      BY <1>1, <2>1, <3>1, RankGrows
    <3> QED BY <1>1, <2>1, <3>2, BlockNumbers DEF BlockOf
  <2> QED BY <2>2, <2>3
<1>5. FindIndexEntry(t, k) = CHOOSE c \in blocks : \A d \in blocks : d <= c
  BY <1>3 DEF FindIndexEntry
<1> HIDE DEF blocks, b
<1>6. \A c \in blocks : (\A d \in blocks : d <= c) => c = b
  BY <1>2, <1>3, <1>4
<1>7. FindIndexEntry(t, k) = b
  BY <1>3, <1>4, <1>5, <1>6
<1> QED BY <1>7 DEF b

LEMMA ReaderFinds ==
    ASSUME NEW t, t.entries \in SUBSET Entries, IsFiniteSet(t.entries), NEW k \in Keys,
           InOneBlock(t, k), NEW s
    PROVE  ReaderGet(t, k, s) = Newest(Visible(t.entries, k, s))
<1>1. Visible(Block(t, FindIndexEntry(t, k)), k, s) = Visible(t.entries, k, s)
  BY FoundBlock DEF Visible, Block
<1> QED BY <1>1 DEF ReaderGet

-----------------------------------------------------------------------------
(* The newest of some versions of a key. *)

LEMMA NewestIs ==
    ASSUME NEW es \in SUBSET Entries, \A a, b \in es : a.seq = b.seq => a = b
    PROVE  /\ es = {} => Newest(es) = NoEntry
           /\ es # {} => Newest(es) \in es /\ \A o \in es : o.seq <= Newest(es).seq
           /\ \A e \in es : (\A o \in es : o.seq <= e.seq) => Newest(es) = e
<1>1. \A e \in es : e.seq \in Nat /\ e.seq <= MaxSeq /\ MaxSeq \in Nat
  <2>1. \A e \in Entries : e.seq \in 1 .. MaxSeq
    BY DEF Entries
  <2> QED BY <2>1, SizesAssumption
<1>2. es # {} => \E e \in es : \A o \in es : o.seq <= e.seq
  <2> DEFINE numbers == {e.seq : e \in es}
  <2> SUFFICES ASSUME es # {} PROVE \E e \in es : \A o \in es : o.seq <= e.seq
    OBVIOUS
  <2>1. numbers \in SUBSET Nat /\ numbers # {} /\ \A n \in numbers : n <= MaxSeq
    BY <1>1
  <2>2. \E n \in numbers : \A m \in numbers : m <= n
    <3> HIDE DEF numbers
    <3>1. IsFiniteSet(numbers)
      BY <2>1, FS_BoundedSetOfNaturals, SizesAssumption
    <3> QED BY <2>1, <3>1, Greatest
  <2> QED BY <2>2
<1>3. \A e, f \in es : (\A o \in es : o.seq <= e.seq) /\ (\A o \in es : o.seq <= f.seq) => e = f
  BY <1>1
<1> QED BY <1>2, <1>3 DEF Newest

\* What the state says about the tables that are registered.
LEMMA TablesAre ==
    ASSUME IInv, ReadInv
    PROVE  /\ \A t \in tables :
                 /\ t.entries \in SUBSET Entries /\ IsFiniteSet(t.entries)
                 /\ t.level = 0 /\ t.number \in Nat /\ t.number <= nextFile /\ HasReader(t)
           /\ \A t, u \in tables : t.number = u.number => t = u
           /\ \A t, u \in tables : t.number < u.number => Covered(t.entries, u.entries, split)
           /\ MemEntries \cup TableEntries \subseteq accepted /\ accepted \subseteq Entries
           /\ \A a, b \in accepted : a.key = b.key /\ a.seq = b.seq => a = b
<1>1. tables \subseteq Whole /\ \A t \in tables : t.number < nextFile
  BY DEF IInv, Registered
<1>2. FileEntries = UNION {f.entries : f \in Whole} /\ FileEntries \subseteq accepted
  BY DEF FileEntries, Whole, IInv, Stored
<1>3. MemEntries \cup TableEntries \subseteq accepted
  BY <1>1, <1>2 DEF MemEntries, Waiting, TableEntries, IInv, Stored
<1>4. \A t \in tables :
         /\ t.entries \in SUBSET Entries /\ t.entries \in SUBSET accepted
         /\ t.level = 0 /\ t.number \in Nat /\ t.number <= nextFile /\ HasReader(t)
  <2> SUFFICES ASSUME NEW t \in tables
               PROVE  /\ t.entries \in SUBSET Entries /\ t.entries \in SUBSET accepted
                      /\ t.level = 0 /\ t.number \in Nat /\ t.number <= nextFile /\ HasReader(t)
    OBVIOUS
  <2>1. t \in Table /\ t \in files /\ Opens(t) /\ t.number < nextFile /\ nextFile \in Nat
    BY <1>1 DEF IInv, FilesTyped, Whole
  <2>2. t.entries \in SUBSET accepted
    BY <1>1, <1>2
  <2> QED BY <2>1, <2>2 DEF Table, HasReader
<1>5. \A t \in tables : IsFiniteSet(t.entries)
  BY <1>4, FS_Subset DEF ReadInv, Bounded
<1> QED BY <1>1, <1>3, <1>4, <1>5
   DEF IInv, FilesOrdered, ReadInv, NumbersOnce, SeqOnce, Typed

\* A table that has a version of a key has it in its range.
LEMMA RangeHas ==
    ASSUME NEW t, t.entries \in SUBSET Entries, IsFiniteSet(t.entries), NEW e \in t.entries
    PROVE  KeyInRange(t, e.key) /\ MayContainKey(t, e.key)
<1> DEFINE keys == {o.key : o \in t.entries}
<1>1. keys \in SUBSET Nat /\ keys # {}
  BY EntriesTyped, SizesAssumption
<1>2. IsFiniteSet(keys)
  <2> DEFINE f == [o \in t.entries |-> o.key]
  <2>1. f \in Surjection(t.entries, keys)
    BY DEF Surjection
  <2> HIDE DEF f, keys
  <2> QED BY <2>1, FS_Surjection
<1>3. \E n \in keys : \A m \in keys : n <= m
  <2> HIDE DEF keys
  <2> QED BY <1>1, Least
<1>4. \E n \in keys : \A m \in keys : m <= n
  <2> HIDE DEF keys
  <2> QED BY <1>1, <1>2, Greatest
<1>5. \A o \in t.entries : Smallest(t) <= o.key
  BY <1>3 DEF Smallest
<1>6. \A o \in t.entries : o.key <= Largest(t)
  BY <1>4 DEF Largest
<1> QED BY <1>5, <1>6 DEF KeyInRange, MayContainKey, FilterKeys

\* The first table that has a version, from the highest number on, has the
\* newest there is in tables.
LEMMA TableGetIs ==
    ASSUME IInv, ReadInv, NEW k \in Keys \ split, NEW s, \A t \in tables : InOneBlock(t, k)
    PROVE  TableGet(k, s) = Newest(Visible(TableEntries, k, s))
<1> DEFINE V(t) == Visible(t.entries, k, s)
           all == Visible(TableEntries, k, s)
           hits == Hits(k, s)
<1>1. /\ \A t \in tables : ReaderGet(t, k, s) = Newest(V(t)) /\ V(t) \in SUBSET Entries
      /\ \A t \in tables : V(t) \subseteq all
      /\ all \in SUBSET Entries /\ all \subseteq accepted
  BY TablesAre, ReaderFinds DEF Visible, TableEntries
<1>2. \A a, b \in all : a.seq = b.seq => a = b
  BY <1>1, TablesAre DEF Visible
<1>3. \A e \in all : \E t \in tables : e \in V(t)
  BY DEF Visible, TableEntries
<1>4. \A t \in tables : /\ V(t) = {} => Newest(V(t)) = NoEntry
                        /\ V(t) # {} => /\ Newest(V(t)) \in V(t)
                                        /\ \A o \in V(t) : o.seq <= Newest(V(t)).seq
  <2> HIDE DEF V, all
  <2> QED BY <1>1, <1>2, NewestIs
<1>5. hits \subseteq tables /\ \A t \in tables : t \in hits <=> V(t) # {}
  <2>1. \A t \in tables : V(t) # {} => MayContainKey(t, k) /\ KeyInRange(t, k)
    BY TablesAre, RangeHas DEF Visible
  <2>2. \A t \in tables : V(t) # {} => ReaderGet(t, k, s) # NoEntry
    <3> HIDE DEF V
    <3> QED BY <1>1, <1>4, EntriesTyped
  <2>3. \A t \in tables : ReaderGet(t, k, s) # NoEntry => V(t) # {}
    <3> HIDE DEF V
    <3> QED BY <1>1, <1>4
  <2> QED BY <2>1, <2>2, <2>3, TablesAre DEF Hits, Candidates
<1>6. CASE hits = {}
  <2>1. all = {}
    <3> HIDE DEF V, all, hits
    <3> QED BY <1>3, <1>5, <1>6
  <2>2. Newest(all) = NoEntry
    BY <2>1 DEF Newest
  <2> QED BY <1>6, <2>2 DEF TableGet
<1>7. CASE hits # {}
  <2> DEFINE first == CHOOSE t \in hits : \A u \in hits :
                         t.level < u.level \/ (t.level = u.level /\ t.number >= u.number)
  <2>1. \E t \in hits : \A u \in hits : t.number >= u.number
    <3> DEFINE numbers == {t.number : t \in hits}
    <3>1. numbers \in SUBSET Nat /\ numbers # {} /\ \A n \in numbers : n <= nextFile
      BY <1>5, <1>7, TablesAre
    <3>2. \E n \in numbers : \A m \in numbers : m <= n
      <4> HIDE DEF numbers
      <4>1. nextFile \in Nat
        BY DEF IInv, FilesTyped
      <4>2. IsFiniteSet(numbers)
        BY <3>1, <4>1, FS_BoundedSetOfNaturals
      <4> QED BY <3>1, <4>2, Greatest
    <3>3. PICK n \in numbers : \A m \in numbers : m <= n
      BY <3>2
    <3>4. PICK t \in hits : t.number = n
      BY <3>3
    <3>5. \A u \in hits : u.number <= t.number /\ u.number \in Nat /\ t.number \in Nat
      BY <3>1, <3>3, <3>4
    <3> QED BY <3>5
  <2> HIDE DEF hits
  <2>2. first \in hits /\ \A u \in hits : first.number >= u.number
    <3>1. \A t \in hits : t.level = 0
      BY <1>5, TablesAre
    <3>2. \E t \in hits : \A u \in hits :
             t.level < u.level \/ (t.level = u.level /\ t.number >= u.number)
      BY <2>1, <3>1
    <3>3. first \in hits /\ \A u \in hits :
             first.level < u.level \/ (first.level = u.level /\ first.number >= u.number)
      BY <3>2
    <3> HIDE DEF first
    <3>4. \A u \in hits : first.level = 0 /\ u.level = 0
      BY <3>1, <3>3
    <3> QED BY <3>3, <3>4
  <2>3. TableGet(k, s) = ReaderGet(first, k, s)
    BY <1>7 DEF TableGet, hits
  <2> HIDE DEF first
  <2> DEFINE n == Newest(V(first))
  <2>4. /\ first \in tables /\ TableGet(k, s) = n /\ n \in V(first) /\ n \in all
        /\ \A o \in V(first) : o.seq <= n.seq
    <3> HIDE DEF V, all
    <3> QED BY <1>1, <1>4, <1>5, <2>2, <2>3
  <2>5. ASSUME NEW e \in all PROVE e.seq <= n.seq
    <3>1. PICK t \in tables : e \in V(t)
      BY <1>3
    <3>2. t \in hits /\ t.number <= first.number
      BY <1>5, <2>2, <3>1, TablesAre, <2>4
    <3>3. t = first \/ Covered(t.entries, first.entries, split)
      BY <2>4, <3>2, TablesAre
    <3>4. e.seq \in Nat /\ n.seq \in Nat /\ e.key = k /\ n.key = k
      <4>1. e \in Entries /\ n \in Entries
        BY <1>1, <2>4
      <4>2. e.key = k /\ n.key = k
        BY <2>4 DEF Visible
      <4> HIDE DEF n, all
      <4> QED BY <4>1, <4>2, EntriesTyped
    <3>5. CASE e \in V(first)
      BY <2>4, <3>5
    <3>6. CASE e \notin V(first)
      <4>1. ~(n.seq < e.seq)
        <5>1. e \in t.entries /\ n \in first.entries /\ e \notin first.entries
          BY <2>4, <3>1, <3>6 DEF Visible
        <5> HIDE DEF n, V, all
        <5> QED BY <3>1, <3>3, <3>4, <5>1, <3>6 DEF Covered
      <4> HIDE DEF n, V, all
      <4> QED BY <3>4, <4>1
    <3> QED BY <3>5, <3>6
  <2>6. Newest(all) = n
    <3> HIDE DEF n, V, all
    <3> QED BY <1>1, <1>2, <2>4, <2>5, NewestIs
  <2> QED BY <2>4, <2>6
<1> QED BY <1>6, <1>7

\* The first memtable that has a version has the newest there is in memtables.
LEMMA MemGetIs ==
    ASSUME IInv, ReadInv, NEW k \in Keys \ split, NEW s
    PROVE  MemGet(k, s) = Newest(Visible(MemEntries, k, s))
<1> DEFINE V(es) == Visible(es, k, s)
           all == V(MemEntries)
           shows == {i \in DOMAIN immutables : V(immutables[i]) # {}}
<1>1. /\ all \in SUBSET Entries /\ all \subseteq accepted
      /\ V(mutable) \subseteq all
      /\ \A i \in DOMAIN immutables : V(immutables[i]) \subseteq all
  BY TablesAre DEF Visible, MemEntries
<1>2. \A a, b \in all : a.seq = b.seq => a = b
  BY <1>1, TablesAre DEF Visible
<1>3. \A e \in all : e.seq \in Nat /\ e.key = k
  BY <1>1, EntriesTyped DEF Visible
<1>4. \A e \in all : e \in V(mutable) \/ \E i \in shows : e \in V(immutables[i])
  BY DEF Visible, MemEntries
<1>5. /\ \A i \in DOMAIN immutables : Covered(immutables[i], mutable, split)
      /\ \A i, j \in DOMAIN immutables : i < j => Covered(immutables[i], immutables[j], split)
      /\ Len(immutables) \in Nat /\ DOMAIN immutables = 1 .. Len(immutables)
  BY DEF IInv, MemoryOrdered, Typed
<1>6. \A es \in SUBSET all : es # {} =>
         Newest(es) \in es /\ \A o \in es : o.seq <= Newest(es).seq
  <2> HIDE DEF all
  <2> QED BY <1>1, <1>2, NewestIs
<1>7. \A e \in all : (\A o \in all : o.seq <= e.seq) => Newest(all) = e
  <2> HIDE DEF all
  <2> QED BY <1>1, <1>2, NewestIs
<1>8. CASE V(mutable) # {}
  <2> DEFINE n == Newest(V(mutable))
  <2>1. n \in V(mutable) /\ \A o \in V(mutable) : o.seq <= n.seq
    <3> HIDE DEF V, all
    <3> QED BY <1>1, <1>6, <1>8
  <2>2. ASSUME NEW i \in DOMAIN immutables, NEW e \in V(immutables[i]), n.seq < e.seq
        PROVE  e \in V(mutable)
    <3>1. n \in mutable /\ n.key = k
      BY <2>1 DEF Visible
    <3> HIDE DEF n
    <3> QED BY <1>5, <2>2, <3>1 DEF Covered, Visible
  <2>3. \A e \in all : e.seq <= n.seq
    <3>1. n \in all
      BY <1>1, <2>1
    <3>2. shows \subseteq DOMAIN immutables
      OBVIOUS
    <3> HIDE DEF n, V, all, shows
    <3>3. ASSUME NEW e \in all, n.seq < e.seq PROVE e \in V(mutable)
      BY <1>4, <2>2, <3>2, <3>3
    <3>4. \A e \in all : ~(n.seq < e.seq)
      BY <1>3, <2>1, <3>1, <3>3
    <3> QED BY <1>3, <3>1, <3>4
  <2>4. Newest(all) = n
    <3>1. n \in all
      BY <1>1, <2>1
    <3> HIDE DEF n, V, all
    <3> QED BY <1>7, <2>3, <3>1
  <2> QED BY <1>8, <2>4 DEF MemGet
<1>9. CASE V(mutable) = {} /\ shows = {}
  <2>1. all = {}
    <3> HIDE DEF V, all, shows
    <3> QED BY <1>4, <1>9
  <2>2. Newest(all) = NoEntry
    BY <2>1 DEF Newest
  <2> QED BY <1>9, <2>2 DEF MemGet
<1>10. CASE V(mutable) = {} /\ shows # {}
  <2>1. \E i \in shows : \A j \in shows : j <= i
    <3>1. shows \in SUBSET Nat /\ \A i \in shows : i <= Len(immutables)
      BY <1>5
    <3> HIDE DEF shows
    <3>2. IsFiniteSet(shows)
      BY <1>5, <3>1, FS_BoundedSetOfNaturals
    <3> QED BY <1>10, <3>1, <3>2, Greatest
  <2> DEFINE i == CHOOSE i \in shows : \A j \in shows : j <= i
             n == Newest(V(immutables[i]))
  <2>2. i \in shows /\ \A j \in shows : j <= i
    BY <2>1
  <2>3. MemGet(k, s) = n
    BY <1>10 DEF MemGet
  <2> HIDE DEF i
  <2>4. /\ n \in V(immutables[i]) /\ \A o \in V(immutables[i]) : o.seq <= n.seq
        /\ n \in all
    <3>1. V(immutables[i]) # {} /\ V(immutables[i]) \subseteq all
      BY <1>1, <2>2
    <3> HIDE DEF V, all
    <3> QED BY <1>6, <3>1
  <2>5. ASSUME NEW e \in all PROVE e.seq <= n.seq
    <3>1. PICK j \in shows : e \in V(immutables[j])
      <4> HIDE DEF V, all, shows
      <4> QED BY <1>4, <1>10
    <3>2. CASE j = i
      BY <2>4, <3>1, <3>2
    <3>3. CASE j # i
      <4>1. j < i /\ j \in DOMAIN immutables /\ i \in DOMAIN immutables
        BY <1>5, <2>2, <3>3
      <4>2. Covered(immutables[j], immutables[i], split)
        BY <1>5, <4>1
      <4>3. e.seq \in Nat /\ n.seq \in Nat
        BY <1>3, <2>4
      <4>4. n.seq < e.seq => e \in V(immutables[i])
        <5>1. n \in immutables[i] /\ n.key = k
          BY <2>4 DEF Visible
        <5> HIDE DEF n, all
        <5> QED BY <3>1, <4>2, <5>1 DEF Covered, Visible
      <4> HIDE DEF n, all, V
      <4> QED BY <2>4, <4>3, <4>4
    <3> QED BY <3>2, <3>3
  <2>6. Newest(all) = n
    <3> HIDE DEF n, V, all
    <3> QED BY <1>7, <2>4, <2>5
  <2> QED BY <2>3, <2>6
<1> QED BY <1>8, <1>9, <1>10

LEMMA ReadInit == Init => ReadInv
<1> SUFFICES ASSUME Init PROVE ReadInv
  OBVIOUS
<1>1. Whole = {}
  BY DEF Init, Whole
<1> QED BY <1>1, FS_EmptySet DEF Init, ReadInv, SeqOnce, NumbersOnce, Bounded

\* A read at any snapshot returns the newest version there is, or nothing if
\* that is a deletion, though the search ends at the first table that has a
\* version and looks into one block of it (LSMTree::Get, SSTableManager::Get,
\* SSTableReader::FindIndexEntry).  It is so for a key that no batch has split,
\* whose versions lie in one block of each table and which is not both in
\* memtables and in tables.
THEOREM ReadsAreNewest == Spec => []ReadsNewest
<1>1. IInv /\ ReadInv => ReadsNewest
  <2> SUFFICES ASSUME IInv, ReadInv, NEW k \in Keys \ split, NEW s \in 0 .. MaxSeq,
                      \A t \in tables : InOneBlock(t, k)
               PROVE  /\ TableGet(k, s) = Newest(Visible(TableEntries, k, s))
                      /\ (Visible(MemEntries, k, s) = {} \/ Visible(TableEntries, k, s) = {})
                           => Get(k, s) = NewestOrNothing(k, s)
    BY DEF ReadsNewest
  <2> DEFINE m == MemGet(k, s)
             t == TableGet(k, s)
             vm == Visible(MemEntries, k, s)
             vt == Visible(TableEntries, k, s)
             e == Newest(Visible(MemEntries \cup TableEntries, k, s))
  <2>1. t = Newest(vt) /\ m = Newest(vm)
    BY TableGetIs, MemGetIs
  <2>2. Visible(MemEntries \cup TableEntries, k, s) = vm \cup vt
    BY DEF Visible
  <2>3. ASSUME vm = {} \/ vt = {} PROVE Get(k, s) = NewestOrNothing(k, s)
    <3>1. CASE vt = {}
      <4>1. t = NoEntry /\ e = m
        <5>1. Visible(MemEntries \cup TableEntries, k, s) = vm
          BY <2>2, <3>1
        <5>2. Newest(vt) = NoEntry
          BY <3>1 DEF Newest
        <5> QED BY <2>1, <5>1, <5>2
      <4> HIDE DEF m, t, e
      <4>2. Get(k, s) = IF m # NoEntry /\ m.kind = "Deletion" THEN NoEntry ELSE m
        BY <4>1 DEF Get, m, t
      <4>3. NewestOrNothing(k, s) = IF e # NoEntry /\ e.kind = "Deletion" THEN NoEntry ELSE e
        BY DEF NewestOrNothing, e
      <4> QED BY <4>1, <4>2, <4>3
    <3>2. CASE vm = {}
      <4>1. m = NoEntry /\ e = t
        <5>1. Visible(MemEntries \cup TableEntries, k, s) = vt
          BY <2>2, <3>2
        <5>2. Newest(vm) = NoEntry
          BY <3>2 DEF Newest
        <5> QED BY <2>1, <5>1, <5>2
      <4> HIDE DEF m, t, e
      <4>2. Get(k, s) = IF t # NoEntry /\ t.kind = "Deletion" THEN NoEntry ELSE t
        BY <4>1 DEF Get, m, t
      <4>3. NewestOrNothing(k, s) = IF e # NoEntry /\ e.kind = "Deletion" THEN NoEntry ELSE e
        BY DEF NewestOrNothing, e
      <4> QED BY <4>1, <4>2, <4>3
    <3> QED BY <2>3, <3>1, <3>2
  <2> QED BY <2>1, <2>3
<1>2. IInv /\ ReadInv /\ [Next]_vars => ReadInv'
  BY ReadStep
<1>3. Spec => []ReadInv
  BY <1>2, ReadInit, TreeKept, PTL DEF Spec
<1> QED BY <1>1, <1>3, TreeKept, PTL
=============================================================================
