----------------------------- MODULE MvccProofs ----------------------------
(***************************************************************************)
(* Proofs about Mvcc, for any transactions and keys and any use of the     *)
(* entry points: the order of the versions in a chain, the order in which  *)
(* they are flushed, that nothing is visible before it is durable, and     *)
(* what reads return.                                                      *)
(***************************************************************************)
EXTENDS MvccProps, FiniteSetTheorems, WellFoundedInduction, TLAPS

Phases == {"idle", "insert", "view", "limit", "seq", "running", "logging", "synced",
           "marked", "leaving", "done"}
Item == [key : Keys, rec : Version]

ChainsTyped == chain \in [Keys -> SUBSET Version] /\ \A k \in Keys : IsFiniteSet(chain[k])
Typed ==
    /\ ChainsTyped
    /\ lastSeq \in Nat
    /\ pc \in [Txns -> Phases]
    /\ owner \in [Keys -> Txns \cup {Nobody}]
    /\ commit \in [Txns -> [seq : Nat, keys : SUBSET Keys]]
    /\ flush \in [items : SUBSET Item, mark : SUBSET (Keys \X Nat), on : BOOLEAN]

(***************************************************************************)
(* None of the three orders is inductive.  Who has an uncommitted version  *)
(* has the lock and has not ended; a number is drawn while the lock is     *)
(* held, and so above all that is committed to the key; what a flush has   *)
(* picked is closed downwards.                                             *)
(***************************************************************************)
ActivesOf(versions) == {v \in versions : v.state = "Active"}

WritersLive ==
    \A k \in Keys : \A v \in ActivesOf(chain[k]) :
        /\ owner[k] = v.txn /\ ~v.flushed
        /\ pc[v.txn] \in {"running", "logging", "synced"}

ActivesAbove ==
    \A k \in Keys : \A v \in ActivesOf(chain[k]), w \in CommittedOf(chain[k]) :
        w.place < v.place

\* t has drawn its commit number and has not marked its versions, those of k
\* among them.
Numbered(t) == pc[t] \in {"logging", "synced"}
Committing(t, k) == owner[k] = t /\ Numbered(t)

CommitsDrawn ==
    \A t \in Txns : Numbered(t) => 0 < commit[t].seq /\ commit[t].seq <= lastSeq

NumbersDrawn ==
    \A k \in Keys : \A w \in CommittedOf(chain[k]) :
        /\ w.seq <= lastSeq
        /\ \A t \in Txns : Committing(t, k) => w.seq < commit[t].seq

\* What the flush will mark: what it has written and what it has still to write.
Pending == flush.mark \cup {<<i.key, i.rec.seq>> : i \in flush.items}

PendingBelow ==
    \A k \in Keys, s \in Nat : <<k, s>> \in Pending =>
        /\ s <= lastSeq
        /\ \A t \in Txns : Committing(t, k) => s < commit[t].seq

PendingClosed ==
    \A k \in Keys, s \in Nat : <<k, s>> \in Pending =>
        \A v \in CommittedOf(chain[k]) :
            v.seq <= s => v.flushed \/ <<k, v.seq>> \in Pending

OrderInv ==
    /\ Typed /\ WritersLive /\ ActivesAbove /\ NumbersDrawn
    /\ CommitsDrawn /\ CommitOrder /\ PendingBelow /\ PendingClosed /\ FlushedInOrder

-----------------------------------------------------------------------------
(* What the operations do to a chain. *)

\* The image of a finite set under a function is finite.
LEMMA ImageIsFinite ==
    ASSUME NEW S, IsFiniteSet(S), NEW f, DOMAIN f = S, f = [x \in S |-> f[x]]
    PROVE  IsFiniteSet({f[x] : x \in S})
<1> DEFINE T == {f[x] : x \in S}
<1>1. f \in [S -> T]
  OBVIOUS
<1>2. f \in Surjection(S, T)
  BY <1>1 DEF Surjection
<1> QED BY <1>2, FS_Surjection

\* A set of numbers has a least one.
LEMMA Least ==
    ASSUME NEW T \in SUBSET Nat, T # {}
    PROVE  \E x \in T : \A y \in T : x <= y
<1> DEFINE R == OpToRel(<, Nat)
<1>1. \A x, y \in Nat : <<y, x>> \in R <=> y < x
  BY DEF OpToRel
<1>2. PICK x \in T : \A y \in T : ~(<<y, x>> \in R)
  <2> HIDE DEF R
  <2>1. IsWellFoundedOn(R, Nat)
    BY NatLessThanWellFounded DEF R
  <2> QED BY <2>1, WFMin
<1>3. \A y \in T : ~(y < x) /\ x \in Nat /\ y \in Nat
  BY <1>1, <1>2
<1> QED BY <1>3

\* And a greatest one, if it is bounded.
LEMMA Greatest ==
    ASSUME NEW T \in SUBSET Nat, T # {}, NEW n \in Nat, \A x \in T : x <= n
    PROVE  \E x \in T : \A y \in T : y <= x
<1> DEFINE Rest == {n - x : x \in T}
<1>1. Rest \in SUBSET Nat /\ Rest # {}
  <2>1. \A x \in T : n - x \in Nat
    OBVIOUS
  <2> QED BY <2>1
<1>2. PICK r \in Rest : \A s \in Rest : r <= s
  <2> HIDE DEF Rest
  <2> QED BY <1>1, Least
<1>3. PICK x \in T : r = n - x
  BY <1>2
<1>4. \A y \in T : n - x <= n - y /\ x \in Nat /\ y \in Nat
  BY <1>2, <1>3
<1> QED BY <1>4

\* Versions have a newest one among them: of the sets that had none, a smallest
\* one would have one.
LEMMA NewestExists ==
    ASSUME NEW S, IsFiniteSet(S), \A v \in S : v.place \in Nat, S # {}
    PROVE  Newest(S) # {}
<1> SUFFICES ASSUME Newest(S) = {} PROVE FALSE
    OBVIOUS
<1> DEFINE Bad == {A \in SUBSET S : A # {} /\ Newest(A) = {}}
           Sizes == {Cardinality(A) : A \in Bad}
<1>1. \A A \in SUBSET S : IsFiniteSet(A) /\ Cardinality(A) \in Nat
  BY FS_Subset, FS_CardinalityType
<1>2. Sizes \in SUBSET Nat /\ Sizes # {}
  BY <1>1
<1>3. PICK A \in Bad : \A B \in Bad : Cardinality(A) <= Cardinality(B)
  <2>1. PICK n \in Sizes : \A m \in Sizes : n <= m
    <3> HIDE DEF Sizes
    <3> QED BY <1>2, Least
  <2> QED BY <2>1
<1>4. PICK a \in A : TRUE
  BY <1>3
<1>5. Cardinality(A \ {a}) = Cardinality(A) - 1
  BY <1>1, <1>4, FS_RemoveElement
<1>6. A \ {a} \notin Bad
  BY <1>1, <1>3, <1>5
<1>7. CASE A \ {a} = {}
  <2>1. A = {a}
    BY <1>4, <1>7
  <2> QED BY <1>3, <2>1 DEF Newest
<1>8. CASE Newest(A \ {a}) # {}
  <2>1. PICK b \in Newest(A \ {a}) : TRUE
    BY <1>8
  <2>2. /\ b \in A /\ a.place \in Nat /\ b.place \in Nat
        /\ \A w \in A \ {a} : w.place <= b.place /\ w.place \in Nat
    BY <1>3, <1>4, <2>1 DEF Newest
  <2>3. a \in Newest(A) \/ b \in Newest(A)
    BY <1>4, <2>2 DEF Newest
  <2> QED BY <1>3, <2>3
<1> QED BY <1>3, <1>6, <1>7, <1>8

LEMMA NewestInChain ==
    ASSUME ChainsTyped, NEW k \in Keys, NEW S \in SUBSET chain[k], S # {}
    PROVE  Newest(S) # {}
<1>1. IsFiniteSet(S) /\ \A v \in S : v.place \in Nat
  BY FS_Subset DEF ChainsTyped, Version
<1> QED BY <1>1, NewestExists

\* A version that MarkTransactionCommitted or MarkTransactionAborted has
\* changed keeps its transaction, its value, its place and its flag.
Marked(v, state, seq) == [v EXCEPT !.state = state, !.seq = seq]

LEMMA MarkedFields ==
    ASSUME NEW v \in Version, NEW state \in State, NEW seq \in Nat
    PROVE  /\ Marked(v, state, seq) \in Version
           /\ Marked(v, state, seq).txn = v.txn /\ Marked(v, state, seq).val = v.val
           /\ Marked(v, state, seq).place = v.place
           /\ Marked(v, state, seq).flushed = v.flushed
           /\ Marked(v, state, seq).state = state /\ Marked(v, state, seq).seq = seq
BY DEF Version, Marked

LEMMA MarkVersionsType ==
    ASSUME ChainsTyped, NEW t \in Txns, NEW state \in State, NEW seq \in Nat,
           chain' = MarkVersions(t, state, seq)
    PROVE  /\ ChainsTyped'
           /\ \A k \in Keys : chain'[k] =
                {IF v \in ActiveOf(t, k) THEN Marked(v, state, seq) ELSE v : v \in chain[k]}
<1>1. \A k \in Keys : chain'[k] =
        {IF v \in ActiveOf(t, k) THEN Marked(v, state, seq) ELSE v : v \in chain[k]}
  BY DEF MarkVersions, Marked
<1>2. chain' = [k \in Keys |-> chain'[k]]
  BY <1>1 DEF MarkVersions
<1>3. ASSUME NEW k \in Keys PROVE chain'[k] \subseteq Version /\ IsFiniteSet(chain'[k])
  <2> DEFINE f == [v \in chain[k] |-> IF v \in ActiveOf(t, k) THEN Marked(v, state, seq) ELSE v]
  <2>1. chain[k] \subseteq Version /\ IsFiniteSet(chain[k])
    BY DEF ChainsTyped
  <2>2. chain'[k] = {f[v] : v \in chain[k]}
    BY <1>1
  <2>3. IsFiniteSet({f[v] : v \in chain[k]})
    <3> HIDE DEF f
    <3>1. DOMAIN f = chain[k] /\ f = [x \in chain[k] |-> f[x]]
      BY DEF f
    <3> QED BY <2>1, <3>1, ImageIsFinite
  <2>4. chain'[k] \subseteq Version
    BY <1>1, <2>1, MarkedFields
  <2> QED BY <2>2, <2>3, <2>4
<1> QED BY <1>1, <1>2, <1>3 DEF ChainsTyped

\* PutActive and DeleteActive add one version, newer than all of its key.
LEMMA WriteChain ==
    ASSUME Typed, NEW t \in Txns, NEW k \in Keys, NEW kind, Write(t, k, kind)
    PROVE  \E n \in Version :
             /\ chain' = [chain EXCEPT ![k] = @ \cup {n}]
             /\ n.txn = t /\ n.state = "Active" /\ ~n.flushed
             /\ \A v \in chain[k] : v.place < n.place
<1> DEFINE mine == {v \in chain[k] : v.txn = t}
           number == Cardinality(mine) + 1
           after == {v.place + 1 : v \in Newest(chain[k])}
           val == IF kind = "put" THEN <<t, number>> ELSE Absent
           new(p) == [txn |-> t, val |-> val, state |-> "Active", seq |-> 0,
                      flushed |-> FALSE, place |-> p]
<1>1. chain[k] \subseteq Version /\ IsFiniteSet(chain[k])
  BY DEF Typed, ChainsTyped
<1>2. val \in Values \cup {Absent}
  <2>1. Cardinality(mine) \in Nat
    <3>1. mine \subseteq chain[k]
      OBVIOUS
    <3> QED BY <1>1, <3>1, FS_Subset, FS_CardinalityType
  <2>2. number \in 1 .. MaxWrites
    BY <2>1, BoundsAssumption DEF Write
  <2> QED BY <2>2 DEF Values
<1>3. PICK p \in Nat : /\ (IF after = {} THEN {1} ELSE after) = {p}
                      /\ \A v \in chain[k] : v.place < p
  <2>1. CASE chain[k] = {}
    <3>1. after = {}
      BY <2>1 DEF Newest
    <3> QED BY <2>1, <3>1
  <2>2. CASE chain[k] # {}
    <3>1. PICK m \in Newest(chain[k]) : TRUE
      BY <2>2, NewestInChain DEF Typed
    <3>2. m \in Version /\ \A v \in chain[k] : v.place <= m.place
      BY <1>1, <3>1 DEF Newest
    <3>3. \A v \in Newest(chain[k]) : v.place = m.place
      BY <1>1, <3>1 DEF Newest, Version
    <3>4. after = {m.place + 1}
      BY <3>1, <3>3
    <3>5. m.place + 1 \in Nat /\ \A v \in chain[k] : v.place < m.place + 1
      BY <1>1, <3>2 DEF Version
    <3>6. (IF after = {} THEN {1} ELSE after) = {m.place + 1}
      BY <3>4
    <3> QED BY <3>5, <3>6
  <2> QED BY <2>1, <2>2
<1>4. chain' = [chain EXCEPT ![k] = @ \cup {new(q) : q \in {p}}]
  <2>1. chain' = [chain EXCEPT ![k] = @ \cup
                    {new(q) : q \in IF after = {} THEN {1} ELSE after}]
    BY DEF Write
  <2> QED BY <1>3, <2>1
<1>5. chain' = [chain EXCEPT ![k] = @ \cup {new(p)}]
  BY <1>4
<1>6. new(p) \in Version
  BY <1>2 DEF Version, State
<1> QED BY <1>3, <1>5, <1>6

\* MarkFlushed sets the flag of the versions it finds, and nothing else.
Flushed(v) == [v EXCEPT !.flushed = TRUE]

LEMMA FlushedFields ==
    ASSUME NEW v \in Version
    PROVE  /\ Flushed(v) \in Version /\ Flushed(v).flushed
           /\ Flushed(v).txn = v.txn /\ Flushed(v).val = v.val
           /\ Flushed(v).place = v.place /\ Flushed(v).state = v.state
           /\ Flushed(v).seq = v.seq
BY DEF Version, Flushed

LEMMA MarkFlushedChain ==
    ASSUME ChainsTyped, MarkFlushed
    PROVE  /\ ChainsTyped'
           /\ \A k \in Keys : chain'[k] =
                {IF v.state = "Committed" /\ <<k, v.seq>> \in flush.mark
                 THEN Flushed(v) ELSE v : v \in chain[k]}
<1>1. \A k \in Keys : chain'[k] =
        {IF v.state = "Committed" /\ <<k, v.seq>> \in flush.mark
         THEN Flushed(v) ELSE v : v \in chain[k]}
  BY DEF MarkFlushed, Flushed
<1>2. chain' = [k \in Keys |-> chain'[k]]
  BY <1>1 DEF MarkFlushed
<1>3. ASSUME NEW k \in Keys PROVE chain'[k] \subseteq Version /\ IsFiniteSet(chain'[k])
  <2> DEFINE f == [v \in chain[k] |->
                    IF v.state = "Committed" /\ <<k, v.seq>> \in flush.mark
                    THEN Flushed(v) ELSE v]
  <2>1. chain[k] \subseteq Version /\ IsFiniteSet(chain[k])
    BY DEF ChainsTyped
  <2>2. chain'[k] = {f[v] : v \in chain[k]}
    BY <1>1
  <2>3. IsFiniteSet({f[v] : v \in chain[k]})
    <3> HIDE DEF f
    <3>1. DOMAIN f = chain[k] /\ f = [x \in chain[k] |-> f[x]]
      BY DEF f
    <3> QED BY <2>1, <3>1, ImageIsFinite
  <2>4. chain'[k] \subseteq Version
    <3>1. \A v \in chain[k] : v \in Version /\ Flushed(v) \in Version
      BY <2>1, FlushedFields
    <3>2. \A v \in chain[k] : f[v] \in Version
      BY <3>1
    <3> QED BY <2>2, <3>2
  <2> QED BY <2>2, <2>3, <2>4
<1> QED BY <1>1, <1>2, <1>3 DEF ChainsTyped

-----------------------------------------------------------------------------
(* Types. *)

LEMMA TypeInit == Init => Typed
<1> SUFFICES ASSUME Init PROVE Typed
    OBVIOUS
<1>1. ChainsTyped
  BY FS_EmptySet DEF Init, ChainsTyped
<1>2. flush \in [items : SUBSET Item, mark : SUBSET (Keys \X Nat), on : BOOLEAN]
  BY DEF Init
<1>3. commit \in [Txns -> [seq : Nat, keys : SUBSET Keys]]
  BY DEF Init
<1> QED BY <1>1, <1>2, <1>3, BoundsAssumption DEF Init, Typed, Phases

LEMMA TypeStep == Typed /\ [Next]_vars => Typed'
<1> SUFFICES ASSUME Typed, [Next]_vars PROVE Typed'
    OBVIOUS
<1> USE DEF Typed, Phases
<1>1. ASSUME NEW t \in Txns,
             BeginId(t) \/ BeginInsert(t) \/ BeginView(t) \/ BeginLimit(t) \/ BeginSeq(t)
      PROVE  Typed'
  BY <1>1 DEF BeginId, BeginInsert, BeginView, BeginLimit, BeginSeq, Step, storage, logs,
              observed, ChainsTyped
<1>2. ASSUME NEW t \in Txns, NEW k \in Keys, Lock(t, k) PROVE Typed'
  BY <1>2 DEF Lock, storage, logs, observed, ChainsTyped
<1>3. ASSUME NEW t \in Txns, NEW k \in Keys, GetChain(t, k) \/ GetLsm(t, k) PROVE Typed'
  BY <1>3 DEF GetChain, GetLsm, ReadChain, ReadLsm, storage, logs, threads, ChainsTyped
<1>4. ASSUME NEW t \in Txns, NEW k \in Keys, Log(t, k) PROVE Typed'
  <2>1. commit' \in [Txns -> [seq : Nat, keys : SUBSET Keys]]
    BY <1>4 DEF Log
  <2> QED BY <1>4, <2>1 DEF Log, storage, logs, observed, ChainsTyped
<1>5. ASSUME NEW t \in Txns, NEW k \in Keys, NEW kind \in Kinds, Write(t, k, kind)
      PROVE  Typed'
  <2>1. PICK n \in Version : chain' = [chain EXCEPT ![k] = @ \cup {n}]
    BY <1>5, WriteChain
  <2>2. IsFiniteSet(chain[k] \cup {n})
    BY FS_AddElement DEF ChainsTyped
  <2>3. ChainsTyped'
    BY <2>1, <2>2 DEF ChainsTyped
  <2> QED BY <1>5, <2>3 DEF Write, threads, logs, observed
<1>6. ASSUME NEW t \in Txns, Prepare(t) PROVE Typed'
  <2>1. commit' \in [Txns -> [seq : Nat, keys : SUBSET Keys]]
    BY <1>6 DEF Prepare, Touched
  <2> QED BY <1>6, <2>1 DEF Prepare, Step, storage, logs, observed, ChainsTyped
<1>7. ASSUME NEW t \in Txns, SyncLog(t) \/ Leave(t) PROVE Typed'
  BY <1>7 DEF SyncLog, Leave, Step, storage, logs, observed, ChainsTyped
<1>8. ASSUME NEW t \in Txns, Unlock(t) PROVE Typed'
  BY <1>8 DEF Unlock, Step, storage, logs, observed, ChainsTyped
<1>9. ASSUME NEW t \in Txns, Mark(t) PROVE Typed'
  <2>1. ChainsTyped'
    BY <1>9, MarkVersionsType DEF Mark, State
  <2> QED BY <1>9, <2>1 DEF Mark, Step, logs, observed
<1>10. ASSUME NEW t \in Txns, Rollback(t) PROVE Typed'
  <2>1. ChainsTyped'
    BY <1>10, MarkVersionsType DEF Rollback, State
  <2> QED BY <1>10, <2>1 DEF Rollback, logs, observed
<1>11. CASE TakeSnapshot
  BY <1>11 DEF TakeSnapshot, storage, logs, threads, observed, ChainsTyped
<1>12. ASSUME NEW k \in Keys, SnapshotChain(k) \/ SnapshotLsm(k) PROVE Typed'
  BY <1>12 DEF SnapshotChain, SnapshotLsm, ReadChain, ReadLsm, storage, logs, threads,
               ChainsTyped
<1>13. CASE FlushPick
  <2>1. \A S \in SUBSET Keys : ItemsOf(S) \subseteq Item
    BY DEF ItemsOf, Unflushed, CommittedOf, Item, ChainsTyped
  <2>2. flush' \in [items : SUBSET Item, mark : SUBSET (Keys \X Nat), on : BOOLEAN]
    BY <1>13, <2>1 DEF FlushPick
  <2> QED BY <1>13, <2>2 DEF FlushPick, storage, logs, threads, observed, ChainsTyped
<1>14. CASE FlushFails
  BY <1>14 DEF FlushFails, storage, logs, threads, observed, ChainsTyped
<1>15. CASE MarkFlushed
  <2>1. ChainsTyped'
    BY <1>15, MarkFlushedChain
  <2> QED BY <1>15, <2>1 DEF MarkFlushed, logs, threads, observed
<1>16. CASE RunGC
  <2>1. \A k \in Keys : Kept(k) \subseteq chain[k]
    BY DEF Kept
  <2>2. \A k \in Keys : IsFiniteSet(Kept(k))
    BY <2>1, FS_Subset DEF ChainsTyped
  <2>3. ChainsTyped'
    BY <1>16, <2>1, <2>2 DEF RunGC, ChainsTyped
  <2> QED BY <1>16, <2>3 DEF RunGC, logs, threads, observed
<1>17. ASSUME NEW i \in flush.items, FlushItem(i) PROVE Typed'
  <2>1. <<i.key, i.rec.seq>> \in Keys \X Nat
    BY DEF Item, Version
  <2>2. flush' \in [items : SUBSET Item, mark : SUBSET (Keys \X Nat), on : BOOLEAN]
    BY <1>17, <2>1 DEF FlushItem
  <2> QED BY <1>17, <2>2 DEF FlushItem, logs, threads, observed, ChainsTyped
<1>18. CASE SwitchMemTable \/ FlushMemTable \/ UNCHANGED vars
  BY <1>18 DEF SwitchMemTable, FlushMemTable, vars, logs, threads, observed, ChainsTyped
<1> QED
  BY <1>1, <1>2, <1>3, <1>4, <1>5, <1>6, <1>7, <1>8, <1>9, <1>10, <1>11, <1>12, <1>13,
     <1>14, <1>15, <1>16, <1>17, <1>18 DEF Next

-----------------------------------------------------------------------------
(* The steps that leave the chains as they are. *)

\* A step of the threads: who has uncommitted versions keeps lock and place,
\* and who begins to commit draws a number above all that were drawn.
ThreadMove ==
    /\ UNCHANGED <<chain, lsm, history, flush>> /\ lastSeq <= lastSeq'
    /\ \A k \in Keys : \A v \in ActivesOf(chain[k]) :
           /\ owner'[k] = owner[k]
           /\ pc'[v.txn] \in {"running", "logging", "synced"}
    /\ \A t \in Txns : Numbered(t)' =>
           \/ Numbered(t) /\ commit'[t].seq = commit[t].seq
           \/ lastSeq < commit'[t].seq /\ commit'[t].seq <= lastSeq'
    /\ \A t \in Txns, k \in Keys :
           Committing(t, k)' /\ Numbered(t) => Committing(t, k)

LEMMA ThreadsStep ==
    ASSUME OrderInv, Typed', ThreadMove
    PROVE  OrderInv'
<1> USE DEF OrderInv, ThreadMove
<1>1. ActivesAbove' /\ CommitOrder' /\ FlushedInOrder'
  BY DEF ActivesAbove, CommitOrder, FlushedInOrder,
         ActivesOf, CommittedOf
<1>2. WritersLive'
  BY DEF WritersLive, ActivesOf
<1>3. Pending' = Pending /\ lastSeq \in Nat /\ lastSeq' \in Nat
  BY DEF Pending, Typed
<1>4. NumbersDrawn'
  <2> SUFFICES ASSUME NEW k \in Keys, NEW w \in CommittedOf(chain[k])
               PROVE  /\ w.seq <= lastSeq'
                      /\ \A t \in Txns : Committing(t, k)' => w.seq < commit'[t].seq
      BY DEF NumbersDrawn, CommittedOf
  <2>1. w.seq \in Nat /\ \A t \in Txns : commit'[t].seq \in Nat
    BY DEF Typed, ChainsTyped, CommittedOf, Version
  <2> QED BY <1>3, <2>1 DEF NumbersDrawn, Committing
<1>5. PendingBelow'
  <2> SUFFICES ASSUME NEW k \in Keys, NEW s \in Nat, <<k, s>> \in Pending
               PROVE  /\ s <= lastSeq'
                      /\ \A t \in Txns : Committing(t, k)' => s < commit'[t].seq
      BY <1>3 DEF PendingBelow
  <2>1. \A t \in Txns : commit'[t].seq \in Nat
    BY DEF Typed
  <2> QED BY <1>3, <2>1 DEF PendingBelow, Committing
<1>6. PendingClosed'
  BY <1>3 DEF PendingClosed, CommittedOf
<1>7. CommitsDrawn'
  <2> SUFFICES ASSUME NEW t \in Txns, Numbered(t)'
               PROVE  0 < commit'[t].seq /\ commit'[t].seq <= lastSeq'
      BY DEF CommitsDrawn
  <2>1. commit'[t].seq \in Nat
    BY DEF Typed
  <2> QED BY <1>3, <2>1 DEF CommitsDrawn
<1> QED BY <1>1, <1>2, <1>4, <1>5, <1>6, <1>7

\* A step of the flush that leaves the versions alone.
LEMMA FlushStep ==
    ASSUME OrderInv, Typed', UNCHANGED <<chain, lastSeq, pc, owner, commit>>,
           \A k \in Keys, s \in Nat : <<k, s>> \in Pending' =>
               \/ <<k, s>> \in Pending /\ Pending' = Pending
               \/ /\ \E v \in CommittedOf(chain[k]) : s = v.seq
                  /\ \A v \in Unflushed(k) : <<k, v.seq>> \in Pending'
    PROVE  OrderInv'
<1> USE DEF OrderInv
<1>1. ActivesAbove' /\ CommitOrder' /\ FlushedInOrder'
  BY DEF ActivesAbove, CommitOrder, FlushedInOrder,
         ActivesOf, CommittedOf
<1>2. WritersLive' /\ NumbersDrawn' /\ CommitsDrawn'
  BY DEF WritersLive, NumbersDrawn, CommitsDrawn, ActivesOf, CommittedOf, Committing, Numbered
<1>3. PendingBelow'
  <2> SUFFICES ASSUME NEW k \in Keys, NEW s \in Nat, <<k, s>> \in Pending'
               PROVE  /\ s <= lastSeq
                      /\ \A t \in Txns : Committing(t, k) => s < commit[t].seq
      BY DEF PendingBelow, Committing, Numbered
  <2>1. CASE <<k, s>> \in Pending
    BY <2>1 DEF PendingBelow
  <2>2. CASE \E v \in CommittedOf(chain[k]) : s = v.seq
    BY <2>2 DEF NumbersDrawn
  <2> QED BY <2>1, <2>2
<1>4. PendingClosed'
  <2> SUFFICES ASSUME NEW k \in Keys, NEW s \in Nat, <<k, s>> \in Pending',
                      NEW v \in CommittedOf(chain[k]), v.seq <= s
               PROVE  v.flushed \/ <<k, v.seq>> \in Pending'
      BY DEF PendingClosed, CommittedOf
  <2>1. CASE <<k, s>> \in Pending /\ Pending' = Pending
    BY <2>1 DEF PendingClosed
  <2>2. CASE \A w \in Unflushed(k) : <<k, w.seq>> \in Pending'
    BY <2>2 DEF Unflushed
  <2> QED BY <2>1, <2>2
<1> QED BY <1>1, <1>2, <1>3, <1>4

-----------------------------------------------------------------------------
(* The steps that change the chains. *)

\* A step that commits nothing, and lets nobody begin to commit.
LEMMA CommitsNothing ==
    ASSUME OrderInv, UNCHANGED <<lastSeq, flush, commit>>,
           \A k \in Keys : CommittedOf(chain'[k]) \subseteq CommittedOf(chain[k]),
           \A t \in Txns : Numbered(t)' => Numbered(t), UNCHANGED owner
    PROVE  /\ NumbersDrawn' /\ CommitsDrawn' /\ CommitOrder'
           /\ PendingBelow' /\ PendingClosed' /\ FlushedInOrder'
<1> USE DEF OrderInv
<1>1. Pending' = Pending
  BY DEF Pending
<1>2. NumbersDrawn' /\ CommitsDrawn' /\ PendingBelow'
  BY <1>1 DEF NumbersDrawn, CommitsDrawn, PendingBelow, Committing
<1>3. CommitOrder' /\ FlushedInOrder'
  BY DEF CommitOrder, FlushedInOrder
<1>4. PendingClosed'
  BY <1>1 DEF PendingClosed
<1> QED BY <1>2, <1>3, <1>4

LEMMA WriteStep ==
    ASSUME OrderInv, Typed', NEW t \in Txns, NEW k \in Keys, NEW kind, Write(t, k, kind)
    PROVE  OrderInv'
<1> USE DEF OrderInv
<1>1. PICK n \in Version :
        /\ chain' = [chain EXCEPT ![k] = @ \cup {n}]
        /\ n.txn = t /\ n.state = "Active" /\ ~n.flushed
        /\ \A v \in chain[k] : v.place < n.place
  BY WriteChain
<1>2. UNCHANGED <<lastSeq, flush, pc, owner, commit>>
  BY DEF Write, threads
<1>3. chain'[k] = chain[k] \cup {n} /\ \A j \in Keys \ {k} : chain'[j] = chain[j]
  BY <1>1 DEF Typed, ChainsTyped
<1>4. \A j \in Keys : CommittedOf(chain'[j]) = CommittedOf(chain[j])
  BY <1>1, <1>3 DEF CommittedOf
<1>5. /\ ActivesOf(chain'[k]) = ActivesOf(chain[k]) \cup {n}
      /\ \A j \in Keys \ {k} : ActivesOf(chain'[j]) = ActivesOf(chain[j])
  BY <1>1, <1>3 DEF ActivesOf
<1>6. /\ NumbersDrawn' /\ CommitsDrawn' /\ CommitOrder'
      /\ PendingBelow' /\ PendingClosed' /\ FlushedInOrder'
  BY <1>2, <1>4, CommitsNothing DEF Committing, Numbered
<1>7. owner[k] = t /\ pc[t] = "running"
  BY DEF Write, Ready
<1>8. WritersLive'
  <2> SUFFICES ASSUME NEW j \in Keys, NEW v \in ActivesOf(chain'[j])
               PROVE  /\ owner[j] = v.txn /\ ~v.flushed
                      /\ pc[v.txn] \in {"running", "logging", "synced"}
      BY <1>2 DEF WritersLive
  <2>1. CASE v \in ActivesOf(chain[j])
    BY <2>1 DEF WritersLive
  <2>2. CASE j = k /\ v = n
    BY <1>1, <1>7, <2>2
  <2> QED BY <1>5, <2>1, <2>2
<1>9. ActivesAbove'
  <2>1. \A w \in CommittedOf(chain[k]) : w.place < n.place
    BY <1>1 DEF CommittedOf
  <2> QED BY <1>4, <1>5, <2>1 DEF ActivesAbove
<1> QED BY <1>6, <1>8, <1>9

\* The end of a transaction: of each key, all its versions or none are marked.
LEMMA MarkSplit ==
    ASSUME OrderInv, NEW t \in Txns, NEW state \in {"Committed", "Aborted"},
           NEW seq \in Nat, chain' = MarkVersions(t, state, seq), NEW k \in Keys
    PROVE  \/ chain'[k] = chain[k] /\ ActiveOf(t, k) = {}
           \/ /\ owner[k] = t /\ ActiveOf(t, k) # {}
              /\ ActiveOf(t, k) = ActivesOf(chain[k]) /\ ActivesOf(chain'[k]) = {}
              /\ chain'[k] = {Marked(v, state, seq) : v \in ActivesOf(chain[k])}
                                \cup (chain[k] \ ActivesOf(chain[k]))
<1> USE DEF OrderInv
<1>1. state \in State
  BY DEF State
<1>2. chain'[k] = {IF v \in ActiveOf(t, k) THEN Marked(v, state, seq) ELSE v : v \in chain[k]}
  BY <1>1, MarkVersionsType DEF Typed
<1>3. CASE ActiveOf(t, k) = {}
  BY <1>2, <1>3
<1>4. CASE ActiveOf(t, k) # {}
  <2>1. owner[k] = t
    BY <1>4 DEF WritersLive, ActiveOf, ActivesOf
  <2>2. ActiveOf(t, k) = ActivesOf(chain[k])
    BY <2>1 DEF WritersLive, ActiveOf, ActivesOf
  <2>3. chain'[k] = {Marked(v, state, seq) : v \in ActivesOf(chain[k])}
                        \cup (chain[k] \ ActivesOf(chain[k]))
    BY <1>2, <2>2 DEF ActivesOf
  <2>4. \A v \in ActivesOf(chain[k]) : Marked(v, state, seq).state # "Active"
    <3>1. \A v \in ActivesOf(chain[k]) : v \in Version
      BY DEF ActivesOf, Typed, ChainsTyped
    <3> QED BY <1>1, <3>1, MarkedFields
  <2>5. ActivesOf(chain'[k]) = {}
    BY <2>3, <2>4 DEF ActivesOf
  <2> QED BY <1>4, <2>1, <2>2, <2>3, <2>5
<1> QED BY <1>3, <1>4

\* A rollback changes no committed version, nor another transaction's.
LEMMA RollbackKeeps ==
    ASSUME OrderInv, NEW t \in Txns, chain' = MarkVersions(t, "Aborted", 0), NEW k \in Keys
    PROVE  /\ CommittedOf(chain'[k]) = CommittedOf(chain[k])
           /\ ActivesOf(chain'[k]) = {v \in ActivesOf(chain[k]) : v.txn # t}
<1> USE DEF OrderInv
<1>1. CASE chain'[k] = chain[k] /\ ActiveOf(t, k) = {}
  BY <1>1 DEF ActiveOf, ActivesOf
<1>2. CASE /\ ActiveOf(t, k) = ActivesOf(chain[k]) /\ ActivesOf(chain'[k]) = {}
           /\ chain'[k] = {Marked(v, "Aborted", 0) : v \in ActivesOf(chain[k])}
                              \cup (chain[k] \ ActivesOf(chain[k]))
  <2>1. \A v \in ActivesOf(chain[k]) : v \in Version
    BY DEF ActivesOf, Typed, ChainsTyped
  <2>2. \A v \in ActivesOf(chain[k]) : Marked(v, "Aborted", 0).state = "Aborted"
    BY <2>1, MarkedFields DEF State
  <2>3. CommittedOf(chain'[k]) = CommittedOf(chain[k])
    BY <1>2, <2>2 DEF CommittedOf, ActivesOf
  <2>4. \A v \in ActivesOf(chain[k]) : v.txn = t
    BY <1>2 DEF ActiveOf
  <2> QED BY <1>2, <2>3, <2>4
<1> QED BY <1>1, <1>2, MarkSplit

LEMMA RollbackStep ==
    ASSUME OrderInv, Typed', NEW t \in Txns, Rollback(t)
    PROVE  OrderInv'
<1> USE DEF OrderInv
<1>1. chain' = MarkVersions(t, "Aborted", 0) /\ pc' = [pc EXCEPT ![t] = "marked"]
      /\ UNCHANGED <<lastSeq, flush, owner, commit>>
  BY DEF Rollback
<1>2. \A k \in Keys : /\ CommittedOf(chain'[k]) = CommittedOf(chain[k])
                      /\ ActivesOf(chain'[k]) = {v \in ActivesOf(chain[k]) : v.txn # t}
  BY <1>1, RollbackKeeps
<1>3. \A u \in Txns : Numbered(u)' => Numbered(u)
  BY <1>1 DEF Committing, Numbered, Typed
<1>4. /\ NumbersDrawn' /\ CommitsDrawn' /\ CommitOrder'
      /\ PendingBelow' /\ PendingClosed' /\ FlushedInOrder'
  BY <1>1, <1>2, <1>3, CommitsNothing
<1>5. WritersLive' /\ ActivesAbove'
  BY <1>1, <1>2 DEF WritersLive, ActivesAbove, Typed
<1> QED BY <1>4, <1>5

\* A commit gives the versions of its transaction its number: of each key, they
\* are above all that was committed and no other version is touched.
CommitsTo(t, v) == Marked(v, "Committed", commit[t].seq)

LEMMA MarkCommits ==
    ASSUME OrderInv, NEW t \in Txns, Mark(t), NEW k \in Keys
    PROVE  \/ /\ ActiveOf(t, k) = {} /\ chain'[k] = chain[k]
              /\ \A v \in ActivesOf(chain[k]) : v.txn # t
           \/ /\ owner[k] = t /\ ActiveOf(t, k) # {}
              /\ ActiveOf(t, k) = ActivesOf(chain[k]) /\ ActivesOf(chain'[k]) = {}
              /\ \A v \in ActivesOf(chain[k]) : LET w == CommitsTo(t, v) IN
                    /\ v.txn = t /\ w.seq = commit[t].seq /\ ~w.flushed
                    /\ w.place = v.place /\ w.val = v.val /\ w.txn = t
              /\ CommittedOf(chain'[k]) = CommittedOf(chain[k]) \cup
                    {CommitsTo(t, v) : v \in ActivesOf(chain[k])}
<1> USE DEF OrderInv
<1> DEFINE m(v) == CommitsTo(t, v)
<1>1. chain' = MarkVersions(t, "Committed", commit[t].seq) /\ commit[t].seq \in Nat
  BY DEF Mark, Typed
<1>2. CASE ActiveOf(t, k) = {} /\ chain'[k] = chain[k]
  BY <1>2 DEF ActiveOf, ActivesOf
<1>3. CASE /\ owner[k] = t /\ ActiveOf(t, k) # {}
           /\ ActiveOf(t, k) = ActivesOf(chain[k]) /\ ActivesOf(chain'[k]) = {}
           /\ chain'[k] = {m(v) : v \in ActivesOf(chain[k])} \cup (chain[k] \ ActivesOf(chain[k]))
  <2>1. \A v \in ActivesOf(chain[k]) : v \in Version /\ ~v.flushed /\ v.txn = t
    BY <1>3 DEF WritersLive, ActivesOf, Typed, ChainsTyped
  <2>2. \A v \in ActivesOf(chain[k]) :
            /\ m(v).seq = commit[t].seq /\ m(v).flushed = v.flushed
            /\ m(v).place = v.place /\ m(v).val = v.val /\ m(v).state = "Committed"
            /\ m(v).txn = v.txn
    <3>1. \A n \in Nat, v \in Version :
            LET u == Marked(v, "Committed", n) IN
            /\ u.seq = n /\ u.flushed = v.flushed /\ u.place = v.place
            /\ u.val = v.val /\ u.state = "Committed" /\ u.txn = v.txn
      BY MarkedFields DEF State
    <3> QED BY <1>1, <2>1, <3>1 DEF CommitsTo
  <2>3. CommittedOf(chain'[k]) = CommittedOf(chain[k]) \cup {m(v) : v \in ActivesOf(chain[k])}
    BY <1>3, <2>2 DEF CommittedOf, ActivesOf
  <2> QED BY <1>3, <2>1, <2>2, <2>3
<1> QED BY <1>1, <1>2, <1>3, MarkSplit DEF CommitsTo

LEMMA MarkStep ==
    ASSUME OrderInv, Typed', NEW t \in Txns, Mark(t)
    PROVE  OrderInv'
<1> USE DEF OrderInv
<1> DEFINE seq == commit[t].seq
           m(v) == CommitsTo(t, v)
<1>1. /\ chain' = MarkVersions(t, "Committed", seq)
      /\ pc[t] = "synced" /\ pc' = [pc EXCEPT ![t] = "marked"]
      /\ UNCHANGED <<lastSeq, flush, owner, commit>> /\ seq \in Nat
  BY DEF Mark, Step, Typed
<1>2. ASSUME NEW k \in Keys, ActiveOf(t, k) # {}
      PROVE  /\ owner[k] = t /\ ActivesOf(chain'[k]) = {} /\ ActivesOf(chain[k]) # {}
             /\ \A v \in ActivesOf(chain[k]) :
                    /\ m(v).seq = seq /\ ~m(v).flushed /\ m(v).place = v.place
             /\ CommittedOf(chain'[k]) =
                    CommittedOf(chain[k]) \cup {m(v) : v \in ActivesOf(chain[k])}
  BY <1>2, MarkCommits
<1>3. ASSUME NEW k \in Keys, ActiveOf(t, k) = {}
      PROVE  chain'[k] = chain[k] /\ \A v \in ActivesOf(chain[k]) : v.txn # t
  BY <1>3, MarkCommits
<1>4. ASSUME NEW k \in Keys, NEW w \in CommittedOf(chain'[k])
      PROVE  \/ w \in CommittedOf(chain[k])
             \/ /\ Committing(t, k) /\ w.seq = seq /\ ~w.flushed
                /\ \A o \in CommittedOf(chain[k]) : o.place < w.place
  BY <1>1, <1>2, <1>3 DEF Committing, Numbered, ActivesAbove
<1>5. \A u \in Txns, k \in Keys : Committing(u, k)' => Committing(u, k) /\ u # t
  BY <1>1 DEF Committing, Numbered, Typed
<1>6. ASSUME NEW k \in Keys, NEW w \in CommittedOf(chain'[k])
      PROVE  w.place \in Nat /\ w.seq \in Nat
  BY <1>6 DEF CommittedOf, Typed, ChainsTyped, Version
<1>7. Pending' = Pending
  BY <1>1 DEF Pending
<1>8. NumbersDrawn' /\ CommitsDrawn'
  <2>1. CommitsDrawn'
    BY <1>1 DEF CommitsDrawn, Numbered, Typed
  <2>2. ASSUME NEW k \in Keys, NEW w \in CommittedOf(chain'[k])
        PROVE  w.seq <= lastSeq /\ \A u \in Txns : Committing(u, k)' => w.seq < commit[u].seq
    BY <1>1, <1>4, <1>5 DEF NumbersDrawn, CommitsDrawn, Numbered, Committing
  <2> QED BY <1>1, <2>1, <2>2 DEF NumbersDrawn
<1>9. CommitOrder'
  <2> SUFFICES ASSUME NEW k \in Keys, NEW v \in CommittedOf(chain'[k]),
                      NEW w \in CommittedOf(chain'[k]), v.place < w.place
               PROVE  v.seq <= w.seq
      BY DEF CommitOrder
  <2>1. CASE w \in CommittedOf(chain[k])
    BY <1>4, <1>6, <2>1 DEF CommitOrder
  <2>2. CASE w \notin CommittedOf(chain[k])
    BY <1>1, <1>4, <1>6, <2>2 DEF NumbersDrawn
  <2> QED BY <2>1, <2>2
<1>10. FlushedInOrder'
  <2> SUFFICES ASSUME NEW k \in Keys, NEW v \in CommittedOf(chain'[k]),
                      NEW w \in CommittedOf(chain'[k]), v.place < w.place, w.flushed
               PROVE  v.flushed
      BY DEF FlushedInOrder
  <2>1. w \in CommittedOf(chain[k]) /\ v \in CommittedOf(chain[k])
    BY <1>4, <1>6
  <2> QED BY <2>1 DEF FlushedInOrder
<1>11. PendingBelow'
  BY <1>1, <1>5, <1>7 DEF PendingBelow
<1>12. PendingClosed'
  <2> SUFFICES ASSUME NEW k \in Keys, NEW s \in Nat, <<k, s>> \in Pending,
                      NEW v \in CommittedOf(chain'[k]), v.seq <= s
               PROVE  v.flushed \/ <<k, v.seq>> \in Pending
      BY <1>7 DEF PendingClosed
  <2>1. ASSUME Committing(t, k), v.seq = seq PROVE FALSE
    <3>1. s < seq
      BY <2>1 DEF PendingBelow
    <3> QED BY <1>1, <2>1, <3>1
  <2>2. v \in CommittedOf(chain[k])
    BY <1>4, <2>1
  <2> QED BY <2>2 DEF PendingClosed
<1>13. WritersLive' /\ ActivesAbove'
  <2> SUFFICES ASSUME NEW k \in Keys, NEW v \in ActivesOf(chain'[k])
               PROVE  /\ owner[k] = v.txn /\ ~v.flushed
                      /\ pc'[v.txn] \in {"running", "logging", "synced"}
                      /\ \A w \in CommittedOf(chain'[k]) : w.place < v.place
      BY <1>1 DEF WritersLive, ActivesAbove
  <2>1. chain'[k] = chain[k] /\ v.txn # t
    BY <1>2, <1>3
  <2>2. pc'[v.txn] = pc[v.txn]
    BY <1>1, <2>1 DEF Typed
  <2> QED BY <2>1, <2>2 DEF WritersLive, ActivesAbove
<1> QED BY <1>8, <1>9, <1>10, <1>11, <1>12, <1>13

\* MarkFlushed keeps places, states and numbers, so that all but the flags and
\* what is pending stays as it is.
LEMMA MarkFlushedStep ==
    ASSUME OrderInv, Typed', MarkFlushed
    PROVE  OrderInv'
<1> USE DEF OrderInv
<1> DEFINE Hit(k, v) == v.state = "Committed" /\ <<k, v.seq>> \in flush.mark
           m == [k \in Keys |-> [v \in chain[k] |-> IF Hit(k, v) THEN Flushed(v) ELSE v]]
<1>1. /\ flush.items = {} /\ flush' = [items |-> {}, mark |-> {}, on |-> FALSE]
      /\ UNCHANGED <<lastSeq, pc, owner, commit>>
  BY DEF MarkFlushed, threads
<1>2. ASSUME NEW k \in Keys PROVE chain'[k] = {m[k][v] : v \in chain[k]}
  <2>1. chain'[k] = {IF Hit(k, v) THEN Flushed(v) ELSE v : v \in chain[k]}
    BY MarkFlushedChain DEF Typed
  <2>2. \A v \in chain[k] : m[k][v] = IF Hit(k, v) THEN Flushed(v) ELSE v
    OBVIOUS
  <2> HIDE DEF m, Hit
  <2> QED BY <2>1, <2>2
<1>3. ASSUME NEW k \in Keys, NEW v \in chain[k]
      PROVE  /\ m[k][v].txn = v.txn /\ m[k][v].place = v.place /\ m[k][v].state = v.state
             /\ m[k][v].seq = v.seq
             /\ m[k][v].flushed <=> v.flushed \/ Hit(k, v)
  <2>1. v \in Version
    BY <1>3 DEF Typed, ChainsTyped
  <2>2. CASE Hit(k, v)
    BY <2>1, <2>2, FlushedFields
  <2>3. CASE ~Hit(k, v)
    BY <2>3
  <2> QED BY <2>2, <2>3
<1> HIDE DEF m
<1>4. ASSUME NEW k \in Keys
      PROVE  /\ ActivesOf(chain'[k]) = {m[k][v] : v \in ActivesOf(chain[k])}
             /\ CommittedOf(chain'[k]) = {m[k][v] : v \in CommittedOf(chain[k])}
  <2>1. chain'[k] = {m[k][v] : v \in chain[k]}
    BY <1>2
  <2>2. \A v \in chain[k] : m[k][v].state = v.state
    BY <1>3
  <2> QED BY <2>1, <2>2 DEF ActivesOf, CommittedOf
<1>5. WritersLive'
  <2> SUFFICES ASSUME NEW k \in Keys, NEW v \in ActivesOf(chain[k])
               PROVE  /\ owner[k] = m[k][v].txn /\ ~m[k][v].flushed
                      /\ pc[m[k][v].txn] \in {"running", "logging", "synced"}
      BY <1>1, <1>4 DEF WritersLive
  <2>1. v \in chain[k] /\ v.state = "Active"
    BY DEF ActivesOf
  <2>2. ~v.flushed /\ owner[k] = v.txn /\ pc[v.txn] \in {"running", "logging", "synced"}
    BY DEF WritersLive
  <2>3. ~Hit(k, v)
    BY <2>1
  <2> QED BY <1>3, <2>1, <2>2, <2>3
<1>6. ActivesAbove'
  <2> SUFFICES ASSUME NEW k \in Keys, NEW v \in ActivesOf(chain[k]),
                      NEW w \in CommittedOf(chain[k])
               PROVE  m[k][w].place < m[k][v].place
      BY <1>4 DEF ActivesAbove
  <2>1. v \in chain[k] /\ w \in chain[k]
    BY DEF ActivesOf, CommittedOf
  <2>2. m[k][w].place = w.place /\ m[k][v].place = v.place
    BY <1>3, <2>1
  <2>3. w.place < v.place
    BY DEF ActivesAbove
  <2> QED BY <2>2, <2>3
<1>7. NumbersDrawn' /\ CommitsDrawn'
  <2>1. CommitsDrawn' /\ \A t \in Txns, k \in Keys : Committing(t, k)' <=> Committing(t, k)
    BY <1>1 DEF CommitsDrawn, Committing, Numbered
  <2>2. ASSUME NEW k \in Keys, NEW x \in CommittedOf(chain'[k])
        PROVE  \E w \in CommittedOf(chain[k]) : x.seq = w.seq
    <3>1. PICK w \in CommittedOf(chain[k]) : x = m[k][w]
      BY <1>4, <2>2
    <3>2. w \in chain[k]
      BY DEF CommittedOf
    <3> QED BY <1>3, <3>1, <3>2
  <2> QED BY <1>1, <2>1, <2>2 DEF NumbersDrawn
<1>8. ASSUME NEW k \in Keys, NEW v \in CommittedOf(chain[k]), NEW w \in CommittedOf(chain[k]),
             v.place < w.place
      PROVE  /\ m[k][v].seq <= m[k][w].seq
             /\ m[k][w].flushed => m[k][v].flushed
  <2>1. /\ v \in chain[k] /\ w \in chain[k]
        /\ v.state = "Committed" /\ w.state = "Committed"
    BY DEF CommittedOf
  <2>2. v.seq <= w.seq
    BY <1>8 DEF CommitOrder
  <2>3. ASSUME w.flushed PROVE v.flushed
    BY <1>8, <2>3 DEF FlushedInOrder
  <2>4. ASSUME Hit(k, w) PROVE v.flushed \/ Hit(k, v)
    <3>1. w.seq \in Nat /\ <<k, w.seq>> \in Pending
      BY <2>1, <2>4 DEF Typed, ChainsTyped, Version, Pending
    <3>2. v.flushed \/ <<k, v.seq>> \in Pending
      BY <2>2, <3>1 DEF PendingClosed
    <3>3. Pending = flush.mark
      BY <1>1 DEF Pending
    <3> QED BY <2>1, <3>2, <3>3
  <2> QED BY <1>3, <2>1, <2>2, <2>3, <2>4
<1>9. CommitOrder' /\ FlushedInOrder'
  <2> SUFFICES ASSUME NEW k \in Keys, NEW x \in CommittedOf(chain'[k]),
                      NEW y \in CommittedOf(chain'[k]), x.place < y.place
               PROVE  x.seq <= y.seq /\ (y.flushed => x.flushed)
      BY DEF CommitOrder, FlushedInOrder
  <2>1. PICK v \in CommittedOf(chain[k]), w \in CommittedOf(chain[k]) :
            x = m[k][v] /\ y = m[k][w]
    BY <1>4
  <2>2. v \in chain[k] /\ w \in chain[k]
    BY DEF CommittedOf
  <2>3. v.place < w.place
    BY <1>3, <2>1, <2>2
  <2> QED BY <1>8, <2>1, <2>3
<1>10. PendingBelow' /\ PendingClosed'
  BY <1>1 DEF PendingBelow, PendingClosed, Pending
<1> QED BY <1>5, <1>6, <1>7, <1>9, <1>10

\* GarbageCollect drops no uncommitted version, nor the newest that is committed.
LEMMA RunGCStep ==
    ASSUME OrderInv, Typed', RunGC
    PROVE  OrderInv'
<1> USE DEF OrderInv
<1>1. UNCHANGED <<lastSeq, flush, pc, owner, commit>>
  BY DEF RunGC, threads
<1>2. ASSUME NEW k \in Keys
      PROVE  /\ chain'[k] = Kept(k) /\ ActivesOf(chain'[k]) = ActivesOf(chain[k])
             /\ CommittedOf(chain'[k]) = Newest(CommittedOf(chain[k])) \cup Unflushed(k)
  <2>1. chain'[k] = Kept(k)
    BY DEF RunGC
  <2> QED BY <2>1 DEF Kept, ActivesOf, CommittedOf, Newest, Unflushed
<1>3. \A k \in Keys : CommittedOf(chain'[k]) \subseteq CommittedOf(chain[k])
  BY <1>2 DEF Newest, Unflushed
<1>4. /\ NumbersDrawn' /\ CommitsDrawn' /\ CommitOrder'
      /\ PendingBelow' /\ PendingClosed' /\ FlushedInOrder'
  BY <1>1, <1>3, CommitsNothing DEF Numbered
<1>5. WritersLive' /\ ActivesAbove'
  BY <1>1, <1>2, <1>3 DEF WritersLive, ActivesAbove
<1> QED BY <1>4, <1>5

-----------------------------------------------------------------------------
(* The three orders hold. *)

LEMMA OrderInit == Init => OrderInv
<1> SUFFICES ASSUME Init PROVE OrderInv
    OBVIOUS
<1>1. Typed
  BY TypeInit
<1>2. /\ \A k \in Keys : chain[k] = {}
      /\ \A t \in Txns : ~Numbered(t)
      /\ Pending = {}
  BY DEF Init, Numbered, Pending
<1>3. \A k \in Keys : ActivesOf(chain[k]) = {} /\ CommittedOf(chain[k]) = {}
  BY <1>2 DEF ActivesOf, CommittedOf
<1> QED
  BY <1>1, <1>2, <1>3 DEF OrderInv, WritersLive, ActivesAbove,
     NumbersDrawn, CommitsDrawn, CommitOrder, PendingBelow, PendingClosed, FlushedInOrder

\* Any other step is one of those that change the chains or the flush.
StoreMove ==
    \/ \E t \in Txns, k \in Keys, kind \in Kinds : Write(t, k, kind)
    \/ \E t \in Txns : Mark(t) \/ Rollback(t)
    \/ FlushPick \/ FlushFails \/ MarkFlushed \/ RunGC
    \/ \E i \in flush.items : FlushItem(i)

LEMMA StepKinds == OrderInv /\ [Next]_vars => ThreadMove \/ StoreMove
<1> SUFFICES ASSUME OrderInv, [Next]_vars, ~StoreMove PROVE ThreadMove
    OBVIOUS
<1>1. Typed /\ WritersLive /\ CommitsDrawn /\ Typed'
  BY TypeStep DEF OrderInv
<1>2. \A k \in Keys : \A v \in ActivesOf(chain[k]) :
        /\ owner[k] = v.txn /\ v.txn \in Txns
        /\ pc[v.txn] \in {"running", "logging", "synced"}
  BY <1>1 DEF WritersLive, ActivesOf, Typed, ChainsTyped, Version
<1> USE NobodyAssumption DEF Committing, Numbered
<1>3. ASSUME NEW t \in Txns,
             BeginId(t) \/ BeginInsert(t) \/ BeginView(t) \/ BeginLimit(t) \/ BeginSeq(t)
      PROVE  ThreadMove
  <2>1. UNCHANGED <<chain, lsm, history, flush, lastSeq, owner, commit>>
    BY <1>3 DEF BeginId, BeginInsert, BeginView, BeginLimit, BeginSeq, storage
  <2>2. /\ pc[t] \in {"idle", "insert", "view", "limit", "seq"}
        /\ pc'[t] \in {"insert", "view", "limit", "seq", "running"}
        /\ \A u \in Txns \ {t} : pc'[u] = pc[u]
    BY <1>1, <1>3 DEF BeginId, BeginInsert, BeginView, BeginLimit, BeginSeq, Step, Typed
  <2> QED BY <1>1, <1>2, <2>1, <2>2 DEF ThreadMove, Typed
<1>4. ASSUME NEW t \in Txns, NEW k \in Keys, Lock(t, k) PROVE ThreadMove
  <2>1. UNCHANGED <<chain, lsm, history, flush, lastSeq, pc, commit>> /\ pc[t] = "running"
    BY <1>4 DEF Lock, Ready, storage
  <2>2. owner[k] = Nobody /\ owner' = [owner EXCEPT ![k] = t]
    BY <1>4 DEF Lock
  <2>3. \A j \in Keys : \A v \in ActivesOf(chain[j]) : owner'[j] = owner[j]
    BY <1>1, <1>2, <2>2 DEF Typed
  <2>4. \A u \in Txns, j \in Keys : Committing(u, j)' => Committing(u, j)
    BY <1>1, <2>1, <2>2 DEF Typed
  <2>5. lastSeq <= lastSeq' /\ \A u \in Txns : commit'[u] = commit[u] /\ pc'[u] = pc[u]
    BY <1>1, <2>1 DEF Typed
  <2>6. \A j \in Keys : \A v \in ActivesOf(chain[j]) :
            owner'[j] = owner[j] /\ pc'[v.txn] \in {"running", "logging", "synced"}
    BY <1>2, <2>1, <2>3
  <2>7. \A u \in Txns : Numbered(u)' => Numbered(u) /\ commit'[u].seq = commit[u].seq
    BY <2>5
  <2> HIDE DEF Committing, Numbered
  <2> QED BY <1>1, <2>1, <2>4, <2>5, <2>6, <2>7 DEF ThreadMove
<1>5. ASSUME NEW t \in Txns, NEW k \in Keys, GetChain(t, k) \/ GetLsm(t, k) PROVE ThreadMove
  <2>1. UNCHANGED <<chain, lsm, history, flush, lastSeq, pc, owner, commit>>
    BY <1>5 DEF GetChain, GetLsm, ReadChain, ReadLsm, storage, threads
  <2> QED BY <1>1, <1>2, <2>1 DEF ThreadMove, Typed
<1>6. ASSUME NEW t \in Txns, NEW k \in Keys, Log(t, k) PROVE ThreadMove
  <2>1. UNCHANGED <<chain, lsm, history, flush, lastSeq, pc, owner>>
    BY <1>6 DEF Log, storage
  <2>2. \A u \in Txns : commit'[u].seq = commit[u].seq
    BY <1>1, <1>6 DEF Log, Typed
  <2> QED BY <1>1, <1>2, <2>1, <2>2 DEF ThreadMove, Typed
<1>7. ASSUME NEW t \in Txns, Prepare(t) PROVE ThreadMove
  <2>1. UNCHANGED <<chain, lsm, history, flush, owner>> /\ lastSeq' = lastSeq + 1
    BY <1>7 DEF Prepare, storage
  <2>2. /\ pc[t] = "running" /\ pc'[t] = "logging" /\ commit'[t].seq = lastSeq + 1
        /\ \A u \in Txns \ {t} : pc'[u] = pc[u] /\ commit'[u] = commit[u]
    BY <1>1, <1>7 DEF Prepare, Step, Typed
  <2>3. lastSeq <= lastSeq' /\ lastSeq < commit'[t].seq /\ commit'[t].seq <= lastSeq'
    BY <1>1, <2>1, <2>2 DEF Typed
  <2>4. \A j \in Keys : \A v \in ActivesOf(chain[j]) :
            pc'[v.txn] \in {"running", "logging", "synced"}
    BY <1>2, <2>2
  <2> QED BY <2>1, <2>2, <2>3, <2>4 DEF ThreadMove
<1>8. ASSUME NEW t \in Txns, SyncLog(t) \/ Leave(t) PROVE ThreadMove
  <2>1. UNCHANGED <<chain, lsm, history, flush, lastSeq, owner, commit>>
    BY <1>8 DEF SyncLog, Leave, storage
  <2>2. /\ \/ pc[t] = "logging" /\ pc'[t] = "synced"
           \/ pc[t] = "marked" /\ pc'[t] = "leaving"
        /\ \A u \in Txns \ {t} : pc'[u] = pc[u]
    BY <1>1, <1>8 DEF SyncLog, Leave, Step, Typed
  <2> QED BY <1>1, <1>2, <2>1, <2>2 DEF ThreadMove, Typed
<1>9. ASSUME NEW t \in Txns, Unlock(t) PROVE ThreadMove
  <2>1. UNCHANGED <<chain, lsm, history, flush, lastSeq, commit>>
    BY <1>9 DEF Unlock, storage
  <2>2. /\ pc[t] = "leaving" /\ pc'[t] = "done"
        /\ \A u \in Txns \ {t} : pc'[u] = pc[u]
        /\ \A k \in Keys : owner'[k] = IF owner[k] = t THEN Nobody ELSE owner[k]
    BY <1>1, <1>9 DEF Unlock, Step, Typed
  <2> QED BY <1>1, <1>2, <2>1, <2>2 DEF ThreadMove, Typed
<1>10. CASE TakeSnapshot
  <2>1. UNCHANGED <<chain, lsm, history, flush, lastSeq, pc, owner, commit>>
    BY <1>10 DEF TakeSnapshot, storage, threads
  <2> QED BY <1>1, <1>2, <2>1 DEF ThreadMove, Typed
<1>11. ASSUME NEW k \in Keys, SnapshotChain(k) \/ SnapshotLsm(k) PROVE ThreadMove
  <2>1. UNCHANGED <<chain, lsm, history, flush, lastSeq, pc, owner, commit>>
    BY <1>11 DEF SnapshotChain, SnapshotLsm, ReadChain, ReadLsm, storage, threads
  <2> QED BY <1>1, <1>2, <2>1 DEF ThreadMove, Typed
<1>12. CASE SwitchMemTable \/ FlushMemTable \/ UNCHANGED vars
  <2>1. UNCHANGED <<chain, lsm, history, flush, lastSeq, pc, owner, commit>>
    BY <1>12 DEF SwitchMemTable, FlushMemTable, vars, threads
  <2> QED BY <1>1, <1>2, <2>1 DEF ThreadMove, Typed
<1> QED
  BY <1>3, <1>4, <1>5, <1>6, <1>7, <1>8, <1>9, <1>10, <1>11, <1>12 DEF Next, StoreMove

LEMMA OrderStep == OrderInv /\ [Next]_vars => OrderInv'
<1> SUFFICES ASSUME OrderInv, [Next]_vars PROVE OrderInv'
    OBVIOUS
<1>1. Typed /\ Typed'
  BY TypeStep DEF OrderInv
<1>2. CASE ThreadMove
  BY <1>1, <1>2, ThreadsStep
<1>3. ASSUME NEW t \in Txns, NEW k \in Keys, NEW kind \in Kinds, Write(t, k, kind)
      PROVE  OrderInv'
  BY <1>1, <1>3, WriteStep
<1>4. ASSUME NEW t \in Txns, Mark(t) PROVE OrderInv'
  BY <1>1, <1>4, MarkStep
<1>5. ASSUME NEW t \in Txns, Rollback(t) PROVE OrderInv'
  BY <1>1, <1>5, RollbackStep
<1>6. CASE FlushPick
  <2>1. UNCHANGED <<chain, lastSeq, pc, owner, commit>>
    BY <1>6 DEF FlushPick, storage, threads
  <2>2. PICK S \in SUBSET Keys : flush' = [items |-> ItemsOf(S), mark |-> {}, on |-> TRUE]
    BY <1>6 DEF FlushPick
  <2>3. Pending' = {<<i.key, i.rec.seq>> : i \in ItemsOf(S)}
    BY <2>2 DEF Pending
  <2>4. \A k \in Keys, s \in Nat : <<k, s>> \in Pending' <=>
            k \in S /\ \E v \in Unflushed(k) : s = v.seq
    <3>1. \A i \in ItemsOf(S) : i.key \in S /\ i.rec \in Unflushed(i.key)
      BY DEF ItemsOf
    <3>2. ASSUME NEW k \in S, NEW v \in Unflushed(k) PROVE <<k, v.seq>> \in Pending'
      <4>1. [key |-> k, rec |-> v] \in ItemsOf(S)
        BY DEF ItemsOf
      <4> QED BY <2>3, <4>1
    <3>3. ASSUME NEW k \in Keys, NEW s \in Nat, <<k, s>> \in Pending'
          PROVE  k \in S /\ \E v \in Unflushed(k) : s = v.seq
      <4>1. PICK i \in ItemsOf(S) : <<k, s>> = <<i.key, i.rec.seq>>
        BY <2>3, <3>3
      <4>2. i.key = k /\ i.rec.seq = s
        BY <4>1
      <4> QED BY <3>1, <4>2
    <3> QED BY <3>2, <3>3
  <2>5. \A k \in Keys : \A v \in Unflushed(k) : v \in CommittedOf(chain[k]) /\ v.seq \in Nat
    BY <1>1 DEF Unflushed, CommittedOf, Typed, ChainsTyped, Version
  <2> QED BY <1>1, <2>1, <2>4, <2>5, FlushStep
<1>7. CASE FlushFails
  <2>1. UNCHANGED <<chain, lastSeq, pc, owner, commit>> /\ Pending' = {}
    BY <1>7 DEF FlushFails, storage, threads, Pending
  <2> QED BY <1>1, <2>1, FlushStep
<1>8. CASE MarkFlushed
  BY <1>1, <1>8, MarkFlushedStep
<1>9. CASE RunGC
  BY <1>1, <1>9, RunGCStep
<1>10. ASSUME NEW i \in flush.items, FlushItem(i) PROVE OrderInv'
  <2>1. UNCHANGED <<chain, lastSeq, pc, owner, commit>>
    BY <1>10 DEF FlushItem, threads
  <2>2. /\ flush'.items = flush.items \ {i}
        /\ flush'.mark = flush.mark \cup {<<i.key, i.rec.seq>>}
    BY <1>1, <1>10 DEF FlushItem, Typed
  <2>3. Pending' = Pending
    BY <2>2 DEF Pending
  <2> QED BY <1>1, <2>1, <2>3, FlushStep
<1> QED
  BY <1>2, <1>3, <1>4, <1>5, <1>6, <1>7, <1>8, <1>9, <1>10, StepKinds DEF StoreMove

\* The invariant holds in every reachable state.
THEOREM VersionsOrdered == Spec => []OrderInv
<1>1. Init => OrderInv
  BY OrderInit
<1>2. OrderInv /\ [Next]_vars => OrderInv'
  BY OrderStep
<1> QED BY <1>1, <1>2, PTL DEF Spec

\* Who writes a key (PutActive, DeleteActive) holds its lock, and writes above all
\* that is committed: MarkTransactionCommitted comes before ReleaseAll.
THEOREM WritesAreExclusive == Spec => []SingleWriter
<1>1. OrderInv => SingleWriter
  BY DEF OrderInv, SingleWriter, WritersLive, ActivesAbove, ActivesOf
<1> QED BY <1>1, VersionsOrdered, PTL

\* Sequence numbers grow along every chain, although MarkTransactionCommitted
\* follows long after PrepareCommit drew the number (snap_gen_).
THEOREM CommitsInOrder == Spec => []CommitOrder
<1>1. OrderInv => CommitOrder
  BY DEF OrderInv
<1> QED BY <1>1, VersionsOrdered, PTL

\* No version is flushed before an older one of its key, although commits and
\* GarbageCollect come between PickCommittedNotFlushed and MarkFlushed.
THEOREM FlushesInOrder == Spec => []FlushedInOrder
<1>1. OrderInv => FlushedInOrder
  BY DEF OrderInv
<1> QED BY <1>1, VersionsOrdered, PTL

-----------------------------------------------------------------------------
(***************************************************************************)
(* Durability, when a transaction writes a key at most once: what is in a  *)
(* chain, in a flush or in the LSM tree was committed; what is to be       *)
(* committed is in the log, and in what was synced when the versions are   *)
(* marked.                                                                 *)
(***************************************************************************)
Entry(v) == [seq |-> v.seq, val |-> v.val]
LogRecord(k, seq, v) == [key |-> k, seq |-> seq, val |-> v.val]

OneActive == \A k \in Keys : \A v, w \in ActivesOf(chain[k]) : v = w

CommitsKnown ==
    /\ \A k \in Keys : \A v \in CommittedOf(chain[k]) : Entry(v) \in history[k]
    /\ \A i \in flush.items : Entry(i.rec) \in history[i.key]
    /\ \A k \in Keys : Contents(k) \subseteq history[k]
    /\ lsm = [k \in Keys |-> lsm[k]]

CommitsLogged ==
    \A t \in Txns, k \in Keys : \A v \in ActiveOf(t, k) :
        /\ pc[t] = "logging" =>
               k \in commit[t].keys \/ LogRecord(k, commit[t].seq, v) \in wal
        /\ pc[t] = "synced" => LogRecord(k, commit[t].seq, v) \in synced

HistoryDurable ==
    \A k \in Keys : \A e \in history[k] :
        e.seq = StartSeq \/ LogRecord(k, e.seq, e) \in synced

DurableInv ==
    OneActive /\ CommitsKnown /\ CommitsLogged /\ HistoryDurable /\ synced \subseteq wal

\* A step after which there are no other versions, items and entries than
\* before, and nobody has come nearer to a commit.
LEMMA NothingNew ==
    ASSUME DurableInv, UNCHANGED <<lsm, wal, synced, history>>,
           flush'.items \subseteq flush.items,
           \A k \in Keys : ActivesOf(chain'[k]) \subseteq ActivesOf(chain[k]),
           \A k \in Keys : \A w \in CommittedOf(chain'[k]) :
               \E v \in CommittedOf(chain[k]) : Entry(w) = Entry(v),
           \A t \in Txns : Numbered(t)' => pc'[t] = pc[t] /\ commit'[t] = commit[t]
    PROVE  DurableInv'
<1> USE DEF DurableInv
<1>1. OneActive'
  BY DEF OneActive
<1>2. CommitsKnown'
  BY DEF CommitsKnown, Contents
<1>3. CommitsLogged'
  <2> SUFFICES ASSUME NEW t \in Txns, NEW k \in Keys, NEW v \in ActiveOf(t, k)', Numbered(t)'
               PROVE  /\ pc'[t] = "logging" =>
                           k \in commit'[t].keys \/ LogRecord(k, commit'[t].seq, v) \in wal
                      /\ pc'[t] = "synced" => LogRecord(k, commit'[t].seq, v) \in synced
      BY DEF CommitsLogged, Numbered, LogRecord
  <2>1. v \in ActiveOf(t, k)
    BY DEF ActiveOf, ActivesOf
  <2> QED BY <2>1 DEF CommitsLogged
<1>4. HistoryDurable'
  BY DEF HistoryDurable
<1> QED BY <1>1, <1>2, <1>3, <1>4

\* MarkFlushed changes neither the number nor the value of a version.
LEMMA MarkFlushedKeeps ==
    ASSUME OrderInv, MarkFlushed, NEW k \in Keys
    PROVE  /\ ActivesOf(chain'[k]) \subseteq ActivesOf(chain[k])
           /\ \A w \in CommittedOf(chain'[k]) :
                \E v \in CommittedOf(chain[k]) : Entry(w) = Entry(v) /\ w.txn = v.txn
<1>1. ASSUME NEW w \in chain'[k]
      PROVE  \/ w \in chain[k]
             \/ /\ w.state = "Committed"
                /\ \E v \in CommittedOf(chain[k]) : Entry(w) = Entry(v) /\ w.txn = v.txn
  <2>1. PICK v \in chain[k] : w = IF v.state = "Committed" /\ <<k, v.seq>> \in flush.mark
                                  THEN Flushed(v) ELSE v
    <3>1. chain'[k] = {IF v.state = "Committed" /\ <<k, v.seq>> \in flush.mark
                       THEN Flushed(v) ELSE v : v \in chain[k]}
      BY MarkFlushedChain DEF OrderInv, Typed
    <3> QED BY <1>1, <3>1
  <2>2. v \in Version
    BY DEF OrderInv, Typed, ChainsTyped
  <2>3. CASE w = Flushed(v) /\ v.state = "Committed"
    BY <2>2, <2>3, FlushedFields DEF CommittedOf, Entry
  <2> QED BY <2>1, <2>3
<1> QED BY <1>1 DEF ActivesOf, CommittedOf

LEMMA InitContents ==
    ASSUME Init, NEW k \in Keys
    PROVE  history[k] = Contents(k) /\ \A e \in history[k] : e.seq = StartSeq
<1>1. CASE StartSeq = 0
  <2>1. lsm[k] = {} /\ history[k] = {}
    BY <1>1 DEF Init
  <2> QED BY <2>1 DEF Contents
<1>2. CASE StartSeq # 0
  <2> DEFINE x == [seq |-> StartSeq, val |-> Recovered, layer |-> 1]
  <2>1. lsm[k] = {x} /\ history[k] = {[seq |-> StartSeq, val |-> Recovered]}
    BY <1>2 DEF Init
  <2>2. x.seq = StartSeq /\ x.val = Recovered
    OBVIOUS
  <2> HIDE DEF x
  <2> QED BY <2>1, <2>2 DEF Contents
<1> QED BY <1>1, <1>2

LEMMA DurableInit == Init => DurableInv
<1> SUFFICES ASSUME Init PROVE DurableInv
    OBVIOUS
<1>1. /\ \A k \in Keys : chain[k] = {}
      /\ flush.items = {} /\ wal = {} /\ synced = {} /\ lsm = [k \in Keys |-> lsm[k]]
  BY DEF Init
<1>2. \A k \in Keys : history[k] = Contents(k) /\ \A e \in history[k] : e.seq = StartSeq
  BY InitContents
<1> QED
  BY <1>1, <1>2 DEF DurableInv, OneActive, CommitsKnown, CommitsLogged, HistoryDurable,
     ActivesOf, CommittedOf, ActiveOf

LEMMA WriteDurable ==
    ASSUME MaxWrites <= 1, OrderInv, DurableInv,
           NEW t \in Txns, NEW k \in Keys, NEW kind, Write(t, k, kind)
    PROVE  DurableInv'
<1> USE DEF DurableInv
<1>1. PICK n \in Version :
        /\ chain' = [chain EXCEPT ![k] = @ \cup {n}] /\ n.txn = t /\ n.state = "Active"
  BY WriteChain DEF OrderInv
<1>2. UNCHANGED <<lsm, wal, synced, history, flush, pc, commit>> /\ pc[t] = "running"
  BY DEF Write, Ready, logs, threads
<1>3. chain'[k] = chain[k] \cup {n} /\ \A j \in Keys \ {k} : chain'[j] = chain[j]
  BY <1>1 DEF OrderInv, Typed, ChainsTyped
<1>4. ActivesOf(chain[k]) = {}
  <2> DEFINE mine == {v \in chain[k] : v.txn = t}
  <2>1. IsFiniteSet(mine)
    <3>1. mine \subseteq chain[k] /\ IsFiniteSet(chain[k])
      BY DEF OrderInv, Typed, ChainsTyped
    <3> QED BY <3>1, FS_Subset
  <2>2. Cardinality(mine) \in Nat /\ Cardinality(mine) + 1 <= MaxWrites
    BY <2>1, FS_CardinalityType DEF Write
  <2>3. Cardinality(mine) = 0
    <3> HIDE DEF mine
    <3> QED BY <2>2, BoundsAssumption
  <2>4. mine = {}
    BY <2>1, <2>3, FS_EmptySet
  <2>5. owner[k] = t
    BY DEF Write
  <2> QED BY <2>4, <2>5 DEF OrderInv, WritersLive, ActivesOf
<1>5. \A j \in Keys : CommittedOf(chain'[j]) = CommittedOf(chain[j])
  BY <1>1, <1>3 DEF CommittedOf
<1>6. OneActive'
  BY <1>3, <1>4 DEF OneActive, ActivesOf
<1>7. CommitsKnown' /\ HistoryDurable'
  BY <1>2, <1>5 DEF CommitsKnown, HistoryDurable, Contents
<1>8. CommitsLogged'
  <2> SUFFICES ASSUME NEW u \in Txns, NEW j \in Keys, NEW v \in ActiveOf(u, j)'
               PROVE  /\ pc[u] = "logging" =>
                           j \in commit[u].keys \/ LogRecord(j, commit[u].seq, v) \in wal
                      /\ pc[u] = "synced" => LogRecord(j, commit[u].seq, v) \in synced
      BY <1>2 DEF CommitsLogged, LogRecord
  <2>1. CASE u = t
    BY <1>2, <2>1
  <2>2. CASE u # t
    <3>1. v \in ActiveOf(u, j)
      BY <1>1, <1>3, <2>2 DEF ActiveOf
    <3> QED BY <3>1 DEF CommitsLogged
  <2> QED BY <2>1, <2>2
<1> QED BY <1>2, <1>6, <1>7, <1>8

LEMMA LogDurable ==
    ASSUME OrderInv, DurableInv, NEW t \in Txns, NEW k \in Keys, Log(t, k)
    PROVE  DurableInv'
<1> USE DEF DurableInv
<1>1. /\ UNCHANGED <<chain, lsm, synced, history, flush, pc>>
      /\ wal' = wal \cup {LogRecord(k, commit[t].seq, v) : v \in Newest(ActiveOf(t, k))}
  BY DEF Log, LogRecord, storage
<1>2. /\ \A u \in Txns : commit'[u].seq = commit[u].seq
      /\ \A u \in Txns : commit'[u].keys = IF u = t THEN commit[u].keys \ {k} ELSE commit[u].keys
  BY DEF Log, OrderInv, Typed
<1>3. OneActive' /\ CommitsKnown' /\ HistoryDurable' /\ synced' \subseteq wal'
  BY <1>1 DEF OneActive, CommitsKnown, HistoryDurable, Contents
<1>4. CommitsLogged'
  <2> SUFFICES ASSUME NEW u \in Txns, NEW j \in Keys, NEW v \in ActiveOf(u, j)
               PROVE  /\ pc[u] = "logging" =>
                           j \in commit'[u].keys \/ LogRecord(j, commit[u].seq, v) \in wal'
                      /\ pc[u] = "synced" => LogRecord(j, commit[u].seq, v) \in synced
      BY <1>1, <1>2 DEF CommitsLogged, ActiveOf
  <2>1. CASE u = t /\ j = k
    <3>1. \A w \in ActiveOf(t, k) : w = v
      BY <2>1 DEF OneActive, ActiveOf, ActivesOf
    <3>2. v.place \in Nat
      BY DEF ActiveOf, OrderInv, Typed, ChainsTyped, Version
    <3>3. v \in Newest(ActiveOf(t, k))
      BY <2>1, <3>1, <3>2 DEF Newest
    <3> QED BY <1>1, <2>1, <3>3 DEF CommitsLogged
  <2>2. CASE u # t \/ j # k
    BY <1>1, <1>2, <2>2 DEF CommitsLogged
  <2> QED BY <2>1, <2>2
<1> QED BY <1>3, <1>4

LEMMA PrepareDurable ==
    ASSUME OrderInv, DurableInv, NEW t \in Txns, Prepare(t)
    PROVE  DurableInv'
<1> USE DEF DurableInv
<1>1. UNCHANGED <<chain, lsm, wal, synced, history, flush>>
  BY DEF Prepare, storage, logs
<1>2. /\ pc'[t] = "logging" /\ commit'[t].keys = Touched(t)
      /\ \A u \in Txns \ {t} : pc'[u] = pc[u] /\ commit'[u] = commit[u]
  BY DEF Prepare, Step, OrderInv, Typed
<1>3. OneActive' /\ CommitsKnown' /\ HistoryDurable' /\ synced' \subseteq wal'
  BY <1>1 DEF OneActive, CommitsKnown, HistoryDurable, Contents
<1>4. CommitsLogged'
  <2> SUFFICES ASSUME NEW u \in Txns, NEW j \in Keys, NEW v \in ActiveOf(u, j)
               PROVE  /\ pc'[u] = "logging" =>
                           j \in commit'[u].keys \/ LogRecord(j, commit'[u].seq, v) \in wal
                      /\ pc'[u] = "synced" => LogRecord(j, commit'[u].seq, v) \in synced
      BY <1>1 DEF CommitsLogged, ActiveOf
  <2>1. CASE u = t
    BY <1>2, <2>1 DEF Touched
  <2>2. CASE u # t
    BY <1>2, <2>2 DEF CommitsLogged
  <2> QED BY <2>1, <2>2
<1> QED BY <1>3, <1>4

LEMMA SyncDurable ==
    ASSUME OrderInv, DurableInv, NEW t \in Txns, SyncLog(t)
    PROVE  DurableInv'
<1> USE DEF DurableInv
<1>1. UNCHANGED <<chain, lsm, wal, history, flush, commit>> /\ synced' = wal
  BY DEF SyncLog, storage
<1>2. /\ pc[t] = "logging" /\ pc'[t] = "synced" /\ commit[t].keys = {}
      /\ \A u \in Txns \ {t} : pc'[u] = pc[u]
  BY DEF SyncLog, Step, OrderInv, Typed
<1>3. OneActive' /\ CommitsKnown' /\ HistoryDurable' /\ synced' \subseteq wal'
  BY <1>1 DEF OneActive, CommitsKnown, HistoryDurable, Contents
<1>4. CommitsLogged'
  <2> SUFFICES ASSUME NEW u \in Txns, NEW j \in Keys, NEW v \in ActiveOf(u, j)
               PROVE  /\ pc'[u] = "logging" =>
                           j \in commit[u].keys \/ LogRecord(j, commit[u].seq, v) \in wal
                      /\ pc'[u] = "synced" => LogRecord(j, commit[u].seq, v) \in wal
      BY <1>1 DEF CommitsLogged, ActiveOf
  <2> QED BY <1>2 DEF CommitsLogged
<1> QED BY <1>3, <1>4

LEMMA MarkDurable ==
    ASSUME OrderInv, DurableInv, NEW t \in Txns, Mark(t)
    PROVE  DurableInv'
<1> USE DEF DurableInv
<1> DEFINE seq == commit[t].seq
<1>1. /\ chain' = MarkVersions(t, "Committed", seq) /\ seq \in Nat
      /\ UNCHANGED <<lsm, wal, synced, flush, commit>>
      /\ \A k \in Keys : history'[k] = history[k] \cup
            {[seq |-> seq, val |-> v.val] : v \in Newest(ActiveOf(t, k))}
  BY DEF Mark, logs, OrderInv, Typed
<1>2. /\ pc[t] = "synced" /\ pc'[t] = "marked"
      /\ \A u \in Txns \ {t} : pc'[u] = pc[u]
  BY DEF Mark, Step, OrderInv, Typed
<1>3. ASSUME NEW k \in Keys, NEW w \in chain'[k]
      PROVE  \/ w \in chain[k] \ ActiveOf(t, k)
             \/ \E v \in ActiveOf(t, k) : w.state = "Committed" /\ w.seq = seq /\ w.val = v.val
  <2>1. PICK v \in chain[k] :
            w = IF v \in ActiveOf(t, k) THEN Marked(v, "Committed", seq) ELSE v
    BY <1>1, MarkVersionsType DEF OrderInv, Typed, State
  <2>2. v \in Version
    BY DEF OrderInv, Typed, ChainsTyped
  <2>3. CASE v \in ActiveOf(t, k) /\ w = Marked(v, "Committed", seq)
    <3>1. \A n \in Nat : LET x == Marked(v, "Committed", n) IN
            x.state = "Committed" /\ x.seq = n /\ x.val = v.val
      BY <2>2, MarkedFields DEF State
    <3> QED BY <1>1, <2>3, <3>1
  <2> QED BY <2>1, <2>3
<1>4. ASSUME NEW k \in Keys, NEW v \in ActiveOf(t, k)
      PROVE  [seq |-> seq, val |-> v.val] \in history'[k]
  <2>1. v \in Newest(ActiveOf(t, k))
    <3>1. \A w \in ActiveOf(t, k) : w = v
      BY DEF OneActive, ActiveOf, ActivesOf
    <3>2. v.place \in Nat
      BY DEF ActiveOf, OrderInv, Typed, ChainsTyped, Version
    <3> QED BY <3>1, <3>2 DEF Newest
  <2> QED BY <1>1, <2>1
<1>5. ASSUME NEW k \in Keys PROVE ActivesOf(chain'[k]) \subseteq ActivesOf(chain[k])
  BY <1>3 DEF ActivesOf
<1>6. OneActive'
  BY <1>5 DEF OneActive
<1>7. CommitsKnown'
  <2>1. ASSUME NEW k \in Keys, NEW w \in CommittedOf(chain'[k]) PROVE Entry(w) \in history'[k]
    <3>1. w \in chain'[k] /\ w.state = "Committed"
      BY DEF CommittedOf
    <3>2. CASE w \in chain[k]
      BY <1>1, <3>1, <3>2 DEF CommitsKnown, CommittedOf
    <3>3. CASE \E v \in ActiveOf(t, k) : w.seq = seq /\ w.val = v.val
      BY <1>4, <3>3 DEF Entry
    <3> QED BY <1>3, <3>1, <3>2, <3>3
  <2>2. \A i \in flush.items : i.key \in Keys
    BY DEF OrderInv, Typed, Item
  <2> QED BY <1>1, <2>1, <2>2 DEF CommitsKnown, Contents
<1>8. CommitsLogged'
  <2> SUFFICES ASSUME NEW u \in Txns, NEW j \in Keys, NEW v \in ActiveOf(u, j)'
               PROVE  /\ pc'[u] = "logging" =>
                           j \in commit[u].keys \/ LogRecord(j, commit[u].seq, v) \in wal
                      /\ pc'[u] = "synced" => LogRecord(j, commit[u].seq, v) \in synced
      BY <1>1 DEF CommitsLogged
  <2>1. v \in ActiveOf(u, j)
    BY <1>5 DEF ActiveOf, ActivesOf
  <2> QED BY <1>2, <2>1 DEF CommitsLogged
<1>9. HistoryDurable'
  <2> SUFFICES ASSUME NEW k \in Keys, NEW e \in history'[k]
               PROVE  e.seq = StartSeq \/ LogRecord(k, e.seq, e) \in synced
      BY <1>1 DEF HistoryDurable
  <2>1. CASE e \in history[k]
    BY <2>1 DEF HistoryDurable
  <2>2. CASE e \notin history[k]
    <3>1. PICK v \in Newest(ActiveOf(t, k)) : e = [seq |-> seq, val |-> v.val]
      BY <1>1, <2>2
    <3>2. LogRecord(k, seq, v) \in synced
      BY <1>2, <3>1 DEF CommitsLogged, Newest
    <3> QED BY <3>1, <3>2 DEF LogRecord
  <2> QED BY <2>1, <2>2
<1> QED BY <1>1, <1>6, <1>7, <1>8, <1>9

\* What an item puts into the LSM tree, and what it may overwrite there: an entry
\* of its number that is a tombstone as it is, or a value as it is.
LEMMA FlushItemContents ==
    ASSUME CommitsKnown, NEW i \in flush.items, i.key \in Keys, FlushItem(i)
    PROVE  /\ lsm' = [k \in Keys |-> lsm'[k]]
           /\ \A k \in Keys \ {i.key} : Contents(k)' = Contents(k)
           /\ Entry(i.rec) \in Contents(i.key)'
           /\ Contents(i.key)' \subseteq Contents(i.key) \cup {Entry(i.rec)}
           /\ \A e \in Contents(i.key) :
                  \/ e \in Contents(i.key)'
                  \/ e.seq = i.rec.seq /\ (e.val = Absent <=> i.rec.val = Absent)
<1> DEFINE over(e, l) == /\ e.layer = l /\ e.seq = i.rec.seq
                         /\ (e.val = Absent <=> i.rec.val = Absent)
           new(l) == [seq |-> i.rec.seq, val |-> i.rec.val, layer |-> l]
           plain(e) == [seq |-> e.seq, val |-> e.val]
<1>1. PICK l : lsm' = [lsm EXCEPT ![i.key] = {new(l)} \cup {e \in @ : ~over(e, l)}]
  <2>1. LsmWrite(i.key, i.rec.seq, i.rec.val)
    BY DEF FlushItem
  <2>2. PICK l \in PutLayers :
          lsm' = [lsm EXCEPT ![i.key] = {new(l)} \cup
                    {e \in @ : \/ e.layer # l \/ e.seq # i.rec.seq
                               \/ (e.val = Absent) # (i.rec.val = Absent)}]
    BY <2>1 DEF LsmWrite
  <2>3. {e \in lsm[i.key] : \/ e.layer # l \/ e.seq # i.rec.seq
                            \/ (e.val = Absent) # (i.rec.val = Absent)}
          = {e \in lsm[i.key] : ~over(e, l)}
    OBVIOUS
  <2> HIDE DEF over, new
  <2> QED BY <2>2, <2>3
<1>2. lsm = [k \in Keys |-> lsm[k]]
  BY DEF CommitsKnown
<1>3. /\ lsm' = [k \in Keys |-> lsm'[k]]
      /\ \A k \in Keys \ {i.key} : lsm'[k] = lsm[k]
      /\ lsm'[i.key] = {new(l)} \cup {e \in lsm[i.key] : ~over(e, l)}
  <2> HIDE DEF over, new
  <2> QED BY <1>1, <1>2
<1>4. \A k \in Keys \ {i.key} : Contents(k)' = Contents(k)
  BY <1>3 DEF Contents
<1>5. Contents(i.key) = {plain(e) : e \in lsm[i.key]}
  BY DEF Contents
<1>6. Contents(i.key)' = {plain(e) : e \in lsm'[i.key]}
  BY DEF Contents
<1>7. plain(new(l)) = Entry(i.rec)
  BY DEF Entry
<1>8. \A e \in lsm[i.key] : over(e, l) =>
        plain(e).seq = i.rec.seq /\ (plain(e).val = Absent <=> i.rec.val = Absent)
  OBVIOUS
<1> HIDE DEF over, new, plain
<1> QED BY <1>3, <1>4, <1>5, <1>6, <1>7, <1>8

LEMMA FlushDurable ==
    ASSUME OrderInv, DurableInv, FlushPick \/ \E i \in flush.items : FlushItem(i)
    PROVE  DurableInv'
<1> USE DEF DurableInv
<1>1. UNCHANGED <<chain, wal, synced, history, pc, commit>>
  BY DEF FlushPick, FlushItem, storage, logs, threads
<1>2. OneActive' /\ CommitsLogged' /\ HistoryDurable' /\ synced' \subseteq wal'
  BY <1>1 DEF OneActive, CommitsLogged, HistoryDurable, ActiveOf
<1>3. CASE FlushPick
  <2>1. PICK S \in SUBSET Keys : flush'.items = ItemsOf(S)
    BY <1>3 DEF FlushPick
  <2>2. \A i \in ItemsOf(S) : Entry(i.rec) \in history[i.key]
    BY DEF CommitsKnown, ItemsOf, Unflushed
  <2>3. UNCHANGED lsm
    BY <1>3 DEF FlushPick, storage
  <2> QED BY <1>1, <1>2, <2>1, <2>2, <2>3 DEF CommitsKnown, Contents
<1>4. ASSUME NEW i \in flush.items, FlushItem(i) PROVE DurableInv'
  <2>1. i.key \in Keys /\ Entry(i.rec) \in history[i.key]
    BY DEF CommitsKnown, OrderInv, Typed, Item
  <2>2. flush'.items \subseteq flush.items
    BY <1>4 DEF FlushItem, OrderInv, Typed
  <2>3. /\ lsm' = [k \in Keys |-> lsm'[k]]
        /\ \A k \in Keys : Contents(k)' \subseteq
                Contents(k) \cup (IF k = i.key THEN {Entry(i.rec)} ELSE {})
    BY <1>4, <2>1, FlushItemContents DEF CommitsKnown
  <2> QED BY <1>1, <1>2, <2>1, <2>2, <2>3 DEF CommitsKnown
<1> QED BY <1>3, <1>4

LEMMA DurableStep ==
    ASSUME MaxWrites <= 1
    PROVE  OrderInv /\ DurableInv /\ [Next]_vars => DurableInv'
<1> SUFFICES ASSUME OrderInv, DurableInv, [Next]_vars PROVE DurableInv'
    OBVIOUS
<1>1. pc \in [Txns -> Phases]
  BY DEF OrderInv, Typed
<1>2. ASSUME UNCHANGED <<chain, lsm, wal, synced, history, flush, commit>>,
             \A t \in Txns : Numbered(t)' => pc'[t] = pc[t]
      PROVE  DurableInv'
  BY <1>2, NothingNew
<1>3. ASSUME NEW t \in Txns,
             \/ BeginId(t) \/ BeginInsert(t) \/ BeginView(t) \/ BeginLimit(t) \/ BeginSeq(t)
             \/ Leave(t) \/ Unlock(t)
      PROVE  DurableInv'
  <2>1. UNCHANGED <<chain, lsm, wal, synced, history, flush, commit>>
    BY <1>3 DEF BeginId, BeginInsert, BeginView, BeginLimit, BeginSeq, Leave, Unlock,
                storage, logs
  <2>2. /\ pc'[t] \in {"insert", "view", "limit", "seq", "running", "leaving", "done"}
        /\ \A u \in Txns \ {t} : pc'[u] = pc[u]
    BY <1>1, <1>3 DEF BeginId, BeginInsert, BeginView, BeginLimit, BeginSeq, Leave, Unlock,
                      Step
  <2> QED BY <1>2, <2>1, <2>2 DEF Numbered
<1>4. ASSUME NEW t \in Txns, NEW k \in Keys, Lock(t, k) \/ GetChain(t, k) \/ GetLsm(t, k)
      PROVE  DurableInv'
  BY <1>2, <1>4 DEF Lock, GetChain, GetLsm, ReadChain, ReadLsm, storage, logs, threads
<1>5. ASSUME NEW t \in Txns, NEW k \in Keys, Log(t, k) PROVE DurableInv'
  BY <1>5, LogDurable
<1>6. ASSUME NEW t \in Txns, NEW k \in Keys, NEW kind \in Kinds, Write(t, k, kind)
      PROVE  DurableInv'
  BY <1>6, WriteDurable
<1>7. ASSUME NEW t \in Txns, Prepare(t) \/ SyncLog(t) \/ Mark(t) PROVE DurableInv'
  BY <1>7, PrepareDurable, SyncDurable, MarkDurable
<1>8. ASSUME NEW t \in Txns, Rollback(t) PROVE DurableInv'
  <2>1. /\ chain' = MarkVersions(t, "Aborted", 0)
        /\ UNCHANGED <<lsm, wal, synced, history, flush, commit>>
        /\ pc' = [pc EXCEPT ![t] = "marked"]
    BY <1>8 DEF Rollback, logs
  <2>2. \A u \in Txns : Numbered(u)' => pc'[u] = pc[u]
    BY <1>1, <2>1 DEF Numbered
  <2>3. \A k \in Keys : /\ CommittedOf(chain'[k]) = CommittedOf(chain[k])
                        /\ ActivesOf(chain'[k]) \subseteq ActivesOf(chain[k])
    BY <2>1, RollbackKeeps
  <2> QED BY <2>1, <2>2, <2>3, NothingNew
<1>9. CASE TakeSnapshot
  BY <1>2, <1>9 DEF TakeSnapshot, storage, logs, threads
<1>10. ASSUME NEW k \in Keys, SnapshotChain(k) \/ SnapshotLsm(k) PROVE DurableInv'
  BY <1>2, <1>10 DEF SnapshotChain, SnapshotLsm, ReadChain, ReadLsm, storage, logs, threads
<1>11. CASE FlushPick \/ \E i \in flush.items : FlushItem(i)
  BY <1>11, FlushDurable
<1>12. CASE FlushFails
  <2>1. UNCHANGED <<chain, lsm, wal, synced, history, pc, commit>> /\ flush'.items = {}
    BY <1>12 DEF FlushFails, storage, logs, threads
  <2> QED BY <2>1, NothingNew
<1>13. CASE MarkFlushed
  <2>1. UNCHANGED <<lsm, wal, synced, history, pc, commit>> /\ flush'.items = {}
    BY <1>13 DEF MarkFlushed, logs, threads
  <2> QED BY <1>13, <2>1, MarkFlushedKeeps, NothingNew
<1>14. CASE RunGC
  <2>1. UNCHANGED <<lsm, wal, synced, history, flush, pc, commit>>
    BY <1>14 DEF RunGC, logs, threads
  <2>2. \A k \in Keys : chain'[k] \subseteq chain[k]
    BY <1>14 DEF RunGC, Kept
  <2> QED BY <2>1, <2>2, NothingNew DEF ActivesOf, CommittedOf
<1>15. CASE SwitchMemTable \/ FlushMemTable \/ UNCHANGED vars
  BY <1>2, <1>15 DEF SwitchMemTable, FlushMemTable, vars, logs, threads
<1> QED
  BY <1>3, <1>4, <1>5, <1>6, <1>7, <1>8, <1>9, <1>10, <1>11, <1>12, <1>13, <1>14, <1>15
     DEF Next

\* What another transaction can read was synced to the log first, if no
\* transaction writes a key twice: Commit logs only the latest of such writes.
THEOREM DurableFirst ==
    ASSUME MaxWrites <= 1
    PROVE  Spec => []DurableBeforeVisible
<1>1. Init => OrderInv /\ DurableInv
  BY OrderInit, DurableInit
<1>2. OrderInv /\ DurableInv /\ [Next]_vars => (OrderInv /\ DurableInv)'
  BY OrderStep, DurableStep
<1>3. OrderInv /\ DurableInv => DurableBeforeVisible
  <2> SUFFICES ASSUME DurableInv, NEW k \in Keys, NEW e \in history[k] \cup Contents(k)
               PROVE  \/ e \in history[k] /\ e.seq = StartSeq
                      \/ [key |-> k, seq |-> e.seq, val |-> e.val] \in synced
      BY DEF DurableBeforeVisible
  <2>1. e \in history[k]
    BY DEF DurableInv, CommitsKnown
  <2> QED BY <2>1 DEF DurableInv, HistoryDurable, LogRecord
<1> QED BY <1>1, <1>2, <1>3, PTL DEF Spec

-----------------------------------------------------------------------------
(***************************************************************************)
(* What reads return, for any transactions and keys of which none is       *)
(* written twice by one transaction: whatever has been flushed and         *)
(* collected, the chain and the LSM tree together give what was committed: *)
(* to a snapshot or a view up to its number, to the holder of a lock up to *)
(* now.  Together they implement AtomicStore.                              *)
(***************************************************************************)

(***************************************************************************)
(* The invariant relates the commits to a key (the ghost history) to where *)
(* they are: in the LSM tree, or in a version that is not flushed.  What   *)
(* the chain has lost is older than all that it has.                       *)
(***************************************************************************)
HistoryNumbers ==
    \A k \in Keys : \A e \in history[k] :
        /\ e.seq \in Nat /\ 0 < e.seq /\ e.seq <= lastSeq
        /\ \A t \in Txns : Committing(t, k) => e.seq < commit[t].seq
        /\ \A f \in history[k] : e.seq = f.seq => e = f

Stored ==
    /\ \A k \in Keys : \A e \in history[k] :
           \/ e \in Contents(k)
           \/ \E v \in CommittedOf(chain[k]) : ~v.flushed /\ Entry(v) = e
    /\ \A k \in Keys, s \in Nat : <<k, s>> \in flush.mark =>
           \E e \in Contents(k) : e.seq = s

DroppedAreOlder ==
    \A k \in Keys : \A e \in history[k] :
        \/ \E v \in CommittedOf(chain[k]) : Entry(v) = e
        \/ \A v \in CommittedOf(chain[k]) : e.seq < v.seq

PlacesDiffer ==
    \A k \in Keys : \A v, w \in chain[k] : v.place = w.place => v = w

\* GarbageCollect leaves a version of every key that was committed to, so that
\* who finds none needs nothing of the LSM tree but what recovery put there.
NewestStays ==
    \A k \in Keys : \A e \in history[k] :
        e.seq # StartSeq => CommittedOf(chain[k]) # {}

\* The mutable memtable is the last layer.
LayersInv ==
    /\ tree \in [top : Nat, disk : Nat]
    /\ \A k \in Keys : \A e \in lsm[k] :
           /\ e = [seq |-> e.seq, val |-> e.val, layer |-> e.layer]
           /\ e.layer \in Nat /\ e.layer <= tree.top

StoreInv ==
    /\ OrderInv /\ DurableInv /\ LayersInv
    /\ HistoryNumbers /\ Stored /\ DroppedAreOlder /\ PlacesDiffer /\ NewestStays

\* What a reader that saw nothing in the chain relies on until it has read the
\* LSM tree, and what its reads have returned.
ReadersTyped ==
    /\ reading = [r \in Readers |-> reading[r]]
    /\ results = [r \in Readers |-> [k \in Keys |-> results[r][k]]]
    /\ snap = [seq |-> snap.seq, taken |-> snap.taken, settled |-> snap.settled]

SnapshotInv ==
    /\ ~snap.taken => /\ ~snap.settled /\ reading[Snapshot] = {}
                      /\ \A k \in Keys : results[Snapshot][k] = {}
    /\ snap.seq \in Nat /\ snap.seq <= lastSeq
    /\ snap.settled =>
        /\ \A t \in Txns : Numbered(t) => snap.seq < commit[t].seq
        /\ \A k \in Keys \cap reading[Snapshot] : \A v \in CommittedOf(chain[k]) :
               snap.seq < v.seq

\* What a transaction relies on: while it waits for the LSM tree nothing is
\* committed to a key it has locked, and it has locked what it has read under a
\* lock until its versions are marked.
Before == Beginning \cup {"idle"}

Live == {"running", "logging", "synced"}

LockedReadsOf(t) ==
    /\ reading[t] # {} => pc[t] = "running"
    /\ pc[t] \in Before => \A k \in Keys : results[t][k] = {}
    /\ Isolation[t] = "RC" => \A k \in Keys :
        /\ k \in reading[t] /\ owner[k] = t => CommittedOf(chain[k]) = {}
        /\ pc[t] \in Live => \A x \in results[t][k] :
               x.locked => owner[k] = t /\ x.val = HistoryAt(k, lastSeq)

-----------------------------------------------------------------------------
(* The steps keep the store. *)

LEMMA LayersInit == Init => LayersInv
<1> SUFFICES ASSUME Init PROVE LayersInv
    OBVIOUS
<1> DEFINE x == [seq |-> StartSeq, val |-> Recovered, layer |-> 1]
<1>1. CASE StartSeq = 0
  <2>1. tree = [top |-> 1, disk |-> 0] /\ \A k \in Keys : lsm[k] = {}
    BY <1>1 DEF Init
  <2> QED BY <2>1 DEF LayersInv
<1>2. CASE StartSeq # 0
  <2>1. tree = [top |-> 2, disk |-> 1] /\ \A k \in Keys : lsm[k] = {x}
    BY <1>2 DEF Init
  <2>2. x = [seq |-> x.seq, val |-> x.val, layer |-> x.layer] /\ x.layer = 1
    OBVIOUS
  <2> HIDE DEF x
  <2> QED BY <2>1, <2>2 DEF LayersInv
<1> QED BY <1>1, <1>2

\* A put goes to the last layer or to a new one, a switch adds an empty one.
LEMMA LayersStep ==
    ASSUME Typed, DurableInv, LayersInv, [Next]_vars
    PROVE  LayersInv'
<1>1. CASE UNCHANGED <<lsm, tree>>
  BY <1>1 DEF LayersInv
<1>2. ASSUME NEW t \in Txns,
             \/ BeginId(t) \/ BeginInsert(t) \/ BeginView(t) \/ BeginLimit(t) \/ BeginSeq(t)
             \/ Prepare(t) \/ SyncLog(t) \/ Mark(t) \/ Rollback(t) \/ Leave(t) \/ Unlock(t)
      PROVE  UNCHANGED <<lsm, tree>>
  BY <1>2 DEF BeginId, BeginInsert, BeginView, BeginLimit, BeginSeq, Prepare, SyncLog, Mark,
              Rollback, Leave, Unlock, storage
<1>3. ASSUME NEW t \in Txns, NEW k \in Keys, NEW kind,
             Lock(t, k) \/ GetChain(t, k) \/ GetLsm(t, k) \/ Log(t, k) \/ Write(t, k, kind)
      PROVE  UNCHANGED <<lsm, tree>>
  BY <1>3 DEF Lock, GetChain, GetLsm, ReadChain, ReadLsm, Log, Write, storage
<1>4. ASSUME \/ TakeSnapshot \/ \E k \in Keys : SnapshotChain(k) \/ SnapshotLsm(k)
             \/ FlushPick \/ FlushFails \/ MarkFlushed \/ RunGC \/ UNCHANGED vars
      PROVE  UNCHANGED <<lsm, tree>>
  BY <1>4 DEF TakeSnapshot, SnapshotChain, SnapshotLsm, ReadChain, ReadLsm, FlushPick,
              FlushFails, MarkFlushed, RunGC, vars, storage
<1>5. CASE SwitchMemTable \/ FlushMemTable
  <2>1. /\ UNCHANGED lsm /\ tree' \in [top : Nat, disk : Nat] /\ tree.top <= tree'.top
        /\ tree.top \in Nat /\ tree'.top \in Nat
    BY <1>5 DEF SwitchMemTable, FlushMemTable, LayersInv
  <2> QED BY <2>1 DEF LayersInv
<1>6. ASSUME NEW i \in flush.items, FlushItem(i) PROVE LayersInv'
  <2> DEFINE x(l) == [seq |-> i.rec.seq, val |-> i.rec.val, layer |-> l]
  <2>1. LsmWrite(i.key, i.rec.seq, i.rec.val) /\ i.key \in Keys
    BY <1>6 DEF FlushItem, Typed, Item
  <2>2. PICK l \in PutLayers :
          /\ tree' = [tree EXCEPT !.top = l]
          /\ lsm' = [lsm EXCEPT ![i.key] = {x(l)} \cup
                    {e \in @ : \/ e.layer # l \/ e.seq # i.rec.seq
                               \/ (e.val = Absent) # (i.rec.val = Absent)}]
    BY <2>1 DEF LsmWrite
  <2>3. tree \in [top : Nat, disk : Nat] /\ l \in Nat /\ tree.top <= l /\ tree.top \in Nat
    BY <2>2 DEF PutLayers, LayersInv
  <2>4. tree' \in [top : Nat, disk : Nat] /\ tree'.top = l
    BY <2>2, <2>3
  <2>5. \A k \in Keys : lsm'[k] \subseteq lsm[k] \cup {x(l)}
    <3> HIDE DEF x
    <3> QED BY <2>1, <2>2 DEF DurableInv, CommitsKnown
  <2>6. x(l) = [seq |-> x(l).seq, val |-> x(l).val, layer |-> x(l).layer] /\ x(l).layer = l
    OBVIOUS
  <2> HIDE DEF x
  <2>7. ASSUME NEW k \in Keys, NEW e \in lsm'[k]
        PROVE  /\ e = [seq |-> e.seq, val |-> e.val, layer |-> e.layer]
               /\ e.layer \in Nat /\ e.layer <= l
    <3>1. CASE e = x(l)
      BY <2>3, <2>6, <3>1
    <3>2. CASE e \in lsm[k]
      BY <2>3, <3>2 DEF LayersInv
    <3> QED BY <2>5, <3>1, <3>2
  <2> QED BY <2>4, <2>7 DEF LayersInv
<1> QED BY <1>1, <1>2, <1>3, <1>4, <1>5, <1>6 DEF Next

LEMMA StoreInit == Init => StoreInv
<1> SUFFICES ASSUME Init PROVE StoreInv
    OBVIOUS
<1>1. /\ \A k \in Keys : chain[k] = {}
      /\ flush.mark = {} /\ lastSeq = StartSeq
      /\ \A t \in Txns : ~Numbered(t)
  BY DEF Init, Numbered
<1>2. \A k \in Keys : \A e \in history[k] :
        0 < StartSeq /\ e = [seq |-> StartSeq, val |-> Recovered]
  BY BoundsAssumption DEF Init
<1>3. HistoryNumbers
  BY <1>1, <1>2, BoundsAssumption DEF HistoryNumbers, Committing
<1>4. Stored /\ DroppedAreOlder /\ PlacesDiffer /\ NewestStays
  <2>1. \A k \in Keys : history[k] = Contents(k)
    BY InitContents
  <2>2. \A k \in Keys : \A e \in history[k] : e.seq = StartSeq
    BY InitContents
  <2> QED BY <1>1, <2>1, <2>2 DEF Stored, DroppedAreOlder, PlacesDiffer, NewestStays,
                                  CommittedOf
<1> QED BY <1>3, <1>4, OrderInit, DurableInit, LayersInit DEF StoreInv

LEMMA ThreadsKeepStore ==
    ASSUME StoreInv, OrderInv', DurableInv', LayersInv', ThreadMove
    PROVE  StoreInv'
<1> USE DEF StoreInv, ThreadMove
<1>1. Stored' /\ DroppedAreOlder' /\ PlacesDiffer' /\ NewestStays'
  BY DEF Stored, DroppedAreOlder, PlacesDiffer, NewestStays, CommittedOf, Contents
<1>2. HistoryNumbers'
  <2> SUFFICES ASSUME NEW k \in Keys, NEW e \in history[k]
               PROVE  /\ e.seq \in Nat /\ 0 < e.seq /\ e.seq <= lastSeq'
                      /\ \A t \in Txns : Committing(t, k)' => e.seq < commit'[t].seq
                      /\ \A f \in history[k] : e.seq = f.seq => e = f
      BY DEF HistoryNumbers
  <2>1. /\ e.seq \in Nat /\ 0 < e.seq /\ e.seq <= lastSeq
        /\ \A t \in Txns : Committing(t, k) => e.seq < commit[t].seq
        /\ \A f \in history[k] : e.seq = f.seq => e = f
    BY DEF HistoryNumbers
  <2>2. lastSeq \in Nat /\ lastSeq' \in Nat /\ \A t \in Txns : commit'[t].seq \in Nat
    BY DEF OrderInv, Typed
  <2>3. ASSUME NEW t \in Txns, Committing(t, k)' PROVE e.seq < commit'[t].seq
    <3>1. Numbered(t)'
      BY <2>3 DEF Committing
    <3>2. CASE Numbered(t) /\ commit'[t].seq = commit[t].seq
      BY <2>1, <2>3, <3>2
    <3>3. CASE lastSeq < commit'[t].seq
      BY <2>1, <2>2, <3>3
    <3> QED BY <3>1, <3>2, <3>3
  <2> QED BY <2>1, <2>2, <2>3
<1> QED BY <1>1, <1>2

\* The numbers of the history after a step that commits nothing.
LEMMA HistoryKept ==
    ASSUME HistoryNumbers, UNCHANGED <<history, lastSeq, owner, commit>>,
           \A t \in Txns : Numbered(t)' => Numbered(t)
    PROVE  HistoryNumbers'
BY DEF HistoryNumbers, Committing

\* Places stay different in an image that keeps them.
LEMMA MarkKeepsPlaces ==
    ASSUME OrderInv, PlacesDiffer, NEW t \in Txns, NEW state \in State, NEW seq \in Nat,
           chain' = MarkVersions(t, state, seq)
    PROVE  PlacesDiffer'
<1> SUFFICES ASSUME NEW k \in Keys, NEW x \in chain'[k], NEW y \in chain'[k],
                    x.place = y.place
             PROVE  x = y
    BY DEF PlacesDiffer
<1> DEFINE m(v) == IF v \in ActiveOf(t, k) THEN Marked(v, state, seq) ELSE v
<1>1. PICK v \in chain[k], w \in chain[k] : x = m(v) /\ y = m(w)
  BY MarkVersionsType DEF OrderInv, Typed
<1>2. m(v).place = v.place /\ m(w).place = w.place
  <2>1. v \in Version /\ w \in Version
    BY DEF OrderInv, Typed, ChainsTyped
  <2>2. Marked(v, state, seq).place = v.place /\ Marked(w, state, seq).place = w.place
    BY <2>1, MarkedFields
  <2> QED BY <2>2
<1>3. v = w
  BY <1>1, <1>2 DEF PlacesDiffer
<1> QED BY <1>1, <1>3

LEMMA WriteKeepsStore ==
    ASSUME StoreInv, OrderInv', DurableInv', LayersInv',
           NEW t \in Txns, NEW k \in Keys, NEW kind, Write(t, k, kind)
    PROVE  StoreInv'
<1> USE DEF StoreInv
<1>1. PICK n \in Version :
        /\ chain' = [chain EXCEPT ![k] = @ \cup {n}] /\ n.state = "Active"
        /\ \A v \in chain[k] : v.place < n.place
  BY WriteChain DEF OrderInv
<1>2. UNCHANGED <<lsm, history, lastSeq, flush, pc, owner, commit>>
  BY DEF Write, threads
<1>3. chain'[k] = chain[k] \cup {n} /\ \A j \in Keys \ {k} : chain'[j] = chain[j]
  BY <1>1 DEF OrderInv, Typed, ChainsTyped
<1>4. \A j \in Keys : CommittedOf(chain'[j]) = CommittedOf(chain[j])
  BY <1>1, <1>3 DEF CommittedOf
<1>5. HistoryNumbers' /\ Stored' /\ DroppedAreOlder' /\ NewestStays'
  BY <1>2, <1>4, HistoryKept DEF Numbered, Stored, DroppedAreOlder, NewestStays, Contents
<1>6. PlacesDiffer'
  <2>1. n.place \in Nat /\ \A v \in chain[k] : v.place \in Nat
    BY DEF OrderInv, Typed, ChainsTyped, Version
  <2>2. \A v \in chain[k] : v.place # n.place
    BY <1>1, <2>1
  <2>3. \A v, w \in chain'[k] : v.place = w.place => v = w
    BY <1>3, <2>2 DEF PlacesDiffer
  <2> QED BY <1>3, <2>3 DEF PlacesDiffer
<1> QED BY <1>5, <1>6

LEMMA RollbackKeepsStore ==
    ASSUME StoreInv, OrderInv', DurableInv', LayersInv', NEW t \in Txns, Rollback(t)
    PROVE  StoreInv'
<1> USE DEF StoreInv
<1>1. /\ chain' = MarkVersions(t, "Aborted", 0) /\ pc' = [pc EXCEPT ![t] = "marked"]
      /\ UNCHANGED <<lsm, history, lastSeq, flush, owner, commit>>
  BY DEF Rollback
<1>2. \A u \in Txns : Numbered(u)' => Numbered(u)
  BY <1>1 DEF Numbered, OrderInv, Typed
<1>3. \A k \in Keys : CommittedOf(chain'[k]) = CommittedOf(chain[k])
  BY <1>1, RollbackKeeps
<1>4. HistoryNumbers' /\ Stored' /\ DroppedAreOlder' /\ NewestStays'
  BY <1>1, <1>2, <1>3, HistoryKept DEF Stored, DroppedAreOlder, NewestStays, Contents
<1>5. PlacesDiffer'
  BY <1>1, MarkKeepsPlaces DEF State
<1> QED BY <1>4, <1>5

LEMMA FlushKeepsStore ==
    ASSUME StoreInv, OrderInv', DurableInv', LayersInv', FlushPick \/ FlushFails
    PROVE  StoreInv'
<1> USE DEF StoreInv
<1>1. /\ UNCHANGED <<chain, lsm, history, lastSeq, pc, owner, commit>> /\ flush'.mark = {}
  BY DEF FlushPick, FlushFails, storage, threads
<1>2. HistoryNumbers'
  BY <1>1, HistoryKept DEF Numbered
<1> QED BY <1>1, <1>2 DEF Stored, DroppedAreOlder, PlacesDiffer, NewestStays, CommittedOf,
                          Contents

\* What an item overwrites in the memtable is the item itself, flushed before.
LEMMA FlushItemKeepsStore ==
    ASSUME StoreInv, OrderInv', DurableInv', LayersInv',
           NEW i \in flush.items, FlushItem(i)
    PROVE  StoreInv'
<1> USE DEF StoreInv
<1>1. UNCHANGED <<chain, history, lastSeq, pc, owner, commit>>
  BY DEF FlushItem, threads
<1>2. i.key \in Keys /\ Entry(i.rec) \in history[i.key]
  BY DEF DurableInv, CommitsKnown, OrderInv, Typed, Item
<1>3. flush'.mark = flush.mark \cup {<<i.key, i.rec.seq>>}
  BY DEF FlushItem, OrderInv, Typed
<1>4. /\ \A k \in Keys \ {i.key} : Contents(k)' = Contents(k)
      /\ Entry(i.rec) \in Contents(i.key)'
      /\ \A e \in Contents(i.key) : e \in Contents(i.key)' \/ e.seq = i.rec.seq
  BY <1>2, FlushItemContents DEF DurableInv
<1>5. \A k \in Keys : Contents(k) \subseteq Contents(k)'
  <2>1. \A e \in Contents(i.key) : e.seq = i.rec.seq => e = Entry(i.rec)
    BY <1>2 DEF HistoryNumbers, DurableInv, CommitsKnown, Entry
  <2> QED BY <1>4, <2>1
<1>6. HistoryNumbers'
  BY <1>1, HistoryKept DEF Numbered
<1>7. Stored'
  <2>1. ASSUME NEW k \in Keys, NEW s \in Nat, <<k, s>> \in flush'.mark
        PROVE  \E e \in Contents(k)' : e.seq = s
    <3>1. CASE <<k, s>> \in flush.mark
      BY <1>5, <3>1 DEF Stored
    <3>2. CASE <<k, s>> = <<i.key, i.rec.seq>>
      <4>1. k = i.key /\ s = i.rec.seq
        BY <3>2
      <4>2. Entry(i.rec) \in Contents(k)' /\ Entry(i.rec).seq = s
        BY <1>4, <4>1 DEF Entry
      <4> QED BY <4>2
    <3> QED BY <1>3, <2>1, <3>1, <3>2
  <2> QED BY <1>1, <1>5, <2>1 DEF Stored, CommittedOf
<1> QED BY <1>1, <1>6, <1>7 DEF DroppedAreOlder, PlacesDiffer, NewestStays, CommittedOf

LEMMA MarkFlushedKeepsStore ==
    ASSUME StoreInv, OrderInv', DurableInv', LayersInv', MarkFlushed
    PROVE  StoreInv'
<1> USE DEF StoreInv
<1>1. /\ UNCHANGED <<lsm, history, lastSeq, pc, owner, commit>> /\ flush'.mark = {}
  BY DEF MarkFlushed, threads
<1>2. ASSUME NEW k \in Keys
      PROVE  chain'[k] = {IF v.state = "Committed" /\ <<k, v.seq>> \in flush.mark
                          THEN Flushed(v) ELSE v : v \in chain[k]}
  BY MarkFlushedChain DEF OrderInv, Typed
<1>3. ASSUME NEW k \in Keys, NEW v \in chain[k]
      PROVE  /\ Flushed(v).place = v.place /\ Flushed(v).state = v.state
             /\ Entry(Flushed(v)) = Entry(v)
  <2>1. v \in Version
    BY DEF OrderInv, Typed, ChainsTyped
  <2> QED BY <2>1, FlushedFields DEF Entry
<1>4. ASSUME NEW k \in Keys, NEW v \in CommittedOf(chain[k])
      PROVE  /\ \E w \in CommittedOf(chain'[k]) : Entry(w) = Entry(v)
             /\ <<k, v.seq>> \notin flush.mark => v \in CommittedOf(chain'[k])
  BY <1>2, <1>3 DEF CommittedOf
<1>5. HistoryNumbers'
  BY <1>1, HistoryKept DEF Numbered
<1>6. Stored'
  <2> SUFFICES ASSUME NEW k \in Keys, NEW e \in history[k], NEW v \in CommittedOf(chain[k]),
                      ~v.flushed, Entry(v) = e
               PROVE  \/ e \in Contents(k)
                      \/ \E w \in CommittedOf(chain'[k]) : ~w.flushed /\ Entry(w) = e
    <3>1. \A j \in Keys : Contents(j)' = Contents(j)
      BY <1>1 DEF Contents
    <3> QED BY <1>1, <3>1 DEF Stored
  <2>1. CASE <<k, v.seq>> \in flush.mark
    <3>1. v.seq \in Nat
      BY DEF CommittedOf, OrderInv, Typed, ChainsTyped, Version
    <3>2. PICK f \in Contents(k) : f.seq = v.seq
      BY <2>1, <3>1 DEF Stored
    <3>3. f \in history[k] /\ f.seq = e.seq
      BY <3>2 DEF DurableInv, CommitsKnown, Entry
    <3> QED BY <3>2, <3>3 DEF HistoryNumbers
  <2>2. CASE <<k, v.seq>> \notin flush.mark
    BY <1>4, <2>2
  <2> QED BY <2>1, <2>2
<1>7. DroppedAreOlder'
  <2> SUFFICES ASSUME NEW k \in Keys, NEW e \in history[k]
               PROVE  \/ \E v \in CommittedOf(chain'[k]) : Entry(v) = e
                      \/ \A v \in CommittedOf(chain'[k]) : e.seq < v.seq
      BY <1>1 DEF DroppedAreOlder
  <2>1. CASE \E v \in CommittedOf(chain[k]) : Entry(v) = e
    BY <1>4, <2>1
  <2>2. CASE \A v \in CommittedOf(chain[k]) : e.seq < v.seq
    <3>1. \A w \in CommittedOf(chain'[k]) : \E v \in CommittedOf(chain[k]) : w.seq = v.seq
      <4>1. \A w \in CommittedOf(chain'[k]) :
                \E v \in CommittedOf(chain[k]) : Entry(w) = Entry(v)
        BY MarkFlushedKeeps
      <4> QED BY <4>1 DEF Entry
    <3> QED BY <2>2, <3>1
  <2> QED BY <2>1, <2>2 DEF DroppedAreOlder
<1>8. PlacesDiffer'
  <2> SUFFICES ASSUME NEW k \in Keys, NEW x \in chain'[k], NEW y \in chain'[k],
                      x.place = y.place
               PROVE  x = y
      BY DEF PlacesDiffer
  <2> DEFINE m(v) == IF v.state = "Committed" /\ <<k, v.seq>> \in flush.mark
                     THEN Flushed(v) ELSE v
  <2>1. PICK v \in chain[k], w \in chain[k] : x = m(v) /\ y = m(w)
    <3>1. chain'[k] = {m(v) : v \in chain[k]}
      BY <1>2
    <3> HIDE DEF m
    <3> QED BY <3>1
  <2>2. x.place = v.place /\ y.place = w.place
    BY <1>3, <2>1
  <2>3. v = w
    BY <2>2 DEF PlacesDiffer
  <2> QED BY <2>1, <2>3
<1>9. NewestStays'
  <2>1. \A k \in Keys : CommittedOf(chain[k]) # {} => CommittedOf(chain'[k]) # {}
    BY <1>4
  <2> QED BY <1>1, <2>1 DEF NewestStays
<1> QED BY <1>5, <1>6, <1>7, <1>8, <1>9

\* A version that GarbageCollect drops was flushed, and so was every older one:
\* what it keeps of the committed versions is newer.
LEMMA RunGCKeepsStore ==
    ASSUME StoreInv, OrderInv', DurableInv', LayersInv', RunGC
    PROVE  StoreInv'
<1> USE DEF StoreInv
<1>1. UNCHANGED <<lsm, history, lastSeq, flush, pc, owner, commit>>
  BY DEF RunGC, threads
<1>2. ASSUME NEW k \in Keys
      PROVE  /\ chain'[k] \subseteq chain[k]
             /\ CommittedOf(chain'[k]) = Newest(CommittedOf(chain[k])) \cup Unflushed(k)
  <2>1. chain'[k] = Kept(k)
    BY DEF RunGC
  <2> QED BY <2>1 DEF Kept, CommittedOf, Newest, Unflushed
<1>3. HistoryNumbers'
  BY <1>1, HistoryKept DEF Numbered
<1>4. Stored'
  BY <1>1, <1>2 DEF Stored, Unflushed, Contents
<1>5. ASSUME NEW k \in Keys, NEW v \in CommittedOf(chain[k]), v \notin CommittedOf(chain'[k]),
             NEW w \in CommittedOf(chain'[k])
      PROVE  v.seq < w.seq \/ Entry(v) = Entry(w)
  <2>1. /\ w \in CommittedOf(chain[k]) /\ v \in chain[k] /\ w \in chain[k]
        /\ v.flushed /\ v # w
    BY <1>2, <1>5 DEF Newest, Unflushed, CommittedOf
  <2>2. v.place \in Nat /\ w.place \in Nat /\ v.seq \in Nat /\ w.seq \in Nat
    BY <2>1 DEF OrderInv, Typed, ChainsTyped, Version
  <2>3. v.place # w.place
    BY <2>1 DEF PlacesDiffer
  <2>4. ~(w.place < v.place)
    <3>1. CASE w \in Newest(CommittedOf(chain[k]))
      BY <2>2, <3>1 DEF Newest
    <3>2. CASE w \in Unflushed(k)
      BY <2>1, <3>2 DEF OrderInv, FlushedInOrder, Unflushed
    <3> QED BY <1>2, <3>1, <3>2
  <2>5. v.seq <= w.seq
    BY <2>1, <2>2, <2>3, <2>4 DEF OrderInv, CommitOrder
  <2>6. Entry(v) \in history[k] /\ Entry(w) \in history[k]
    BY <2>1 DEF DurableInv, CommitsKnown
  <2>7. v.seq = w.seq => Entry(v) = Entry(w)
    BY <2>6 DEF HistoryNumbers, Entry
  <2> QED BY <2>2, <2>5, <2>7
<1>6. DroppedAreOlder'
  <2> SUFFICES ASSUME NEW k \in Keys, NEW e \in history[k]
               PROVE  \/ \E v \in CommittedOf(chain'[k]) : Entry(v) = e
                      \/ \A v \in CommittedOf(chain'[k]) : e.seq < v.seq
      BY <1>1 DEF DroppedAreOlder
  <2>1. CASE \E v \in CommittedOf(chain[k]) : Entry(v) = e
    <3>1. PICK v \in CommittedOf(chain[k]) : Entry(v) = e
      BY <2>1
    <3>2. e.seq = v.seq
      BY <3>1 DEF Entry
    <3> QED BY <1>5, <3>1, <3>2
  <2>2. CASE \A v \in CommittedOf(chain[k]) : e.seq < v.seq
    BY <1>2, <2>2 DEF Newest, Unflushed
  <2> QED BY <2>1, <2>2 DEF DroppedAreOlder
<1>7. PlacesDiffer'
  BY <1>2 DEF PlacesDiffer
<1>8. NewestStays'
  <2>1. \A k \in Keys : CommittedOf(chain[k]) # {} => Newest(CommittedOf(chain[k])) # {}
    BY NewestInChain DEF OrderInv, Typed, CommittedOf
  <2> QED BY <1>1, <1>2, <2>1 DEF NewestStays
<1> QED BY <1>3, <1>4, <1>6, <1>7, <1>8

LEMMA MarkKeepsStore ==
    ASSUME StoreInv, OrderInv', DurableInv', LayersInv', NEW t \in Txns, Mark(t)
    PROVE  StoreInv'
<1> USE DEF StoreInv
<1> DEFINE seq == commit[t].seq
<1>1. /\ chain' = MarkVersions(t, "Committed", seq) /\ seq \in Nat
      /\ UNCHANGED <<lsm, lastSeq, flush, owner, commit>>
      /\ \A k \in Keys : history'[k] = history[k] \cup
            {[seq |-> seq, val |-> v.val] : v \in Newest(ActiveOf(t, k))}
  BY DEF Mark, logs, OrderInv, Typed
<1>2. /\ pc[t] = "synced" /\ \A u \in Txns : Numbered(u)' => Numbered(u) /\ u # t
  BY DEF Mark, Step, OrderInv, Typed, Numbered
<1>3. 0 < seq /\ seq <= lastSeq
  BY <1>2 DEF OrderInv, CommitsDrawn, Numbered
<1>4. ASSUME NEW k \in Keys, ActiveOf(t, k) = {}
      PROVE  chain'[k] = chain[k] /\ history'[k] = history[k]
  <2>1. Newest(ActiveOf(t, k)) = {}
    BY <1>4 DEF Newest
  <2>2. chain'[k] = chain[k]
    BY <1>4, MarkCommits
  <2>3. history'[k] = history[k]
    <3>1. {[seq |-> seq, val |-> v.val] : v \in Newest(ActiveOf(t, k))} = {}
      BY <2>1
    <3> QED BY <1>1, <3>1
  <2> QED BY <2>2, <2>3
<1>5. ASSUME NEW k \in Keys, ActiveOf(t, k) # {}
      PROVE  \E w : /\ CommittedOf(chain'[k]) = CommittedOf(chain[k]) \cup {w}
                    /\ history'[k] = history[k] \cup {Entry(w)}
                    /\ w.seq = seq /\ ~w.flushed /\ owner[k] = t
                    /\ \A e \in history[k] : e.seq < seq
  <2>1. PICK v \in ActiveOf(t, k) : ActiveOf(t, k) = {v} /\ ActivesOf(chain[k]) = {v}
    BY <1>5 DEF DurableInv, OneActive, ActiveOf, ActivesOf
  <2>2. v.place \in Nat
    BY DEF ActiveOf, OrderInv, Typed, ChainsTyped, Version
  <2>3. Newest(ActiveOf(t, k)) = {v}
    BY <2>1, <2>2 DEF Newest
  <2>4. LET w == CommitsTo(t, v) IN
            /\ CommittedOf(chain'[k]) = CommittedOf(chain[k]) \cup {w}
            /\ owner[k] = t /\ w.seq = seq /\ ~w.flushed /\ w.val = v.val
    BY <1>5, <2>1, MarkCommits
  <2>5. history'[k] = history[k] \cup {Entry(CommitsTo(t, v))}
    BY <1>1, <2>3, <2>4 DEF Entry
  <2>6. \A e \in history[k] : e.seq < seq
    BY <1>2, <2>4 DEF HistoryNumbers, Committing, Numbered
  <2> QED BY <2>4, <2>5, <2>6
<1>6. HistoryNumbers'
  <2> SUFFICES ASSUME NEW k \in Keys, NEW e \in history'[k]
               PROVE  /\ e.seq \in Nat /\ 0 < e.seq /\ e.seq <= lastSeq
                      /\ \A u \in Txns : Committing(u, k)' => e.seq < commit[u].seq
                      /\ \A f \in history'[k] : e.seq = f.seq => e = f
      BY <1>1 DEF HistoryNumbers
  <2>1. \A u \in Txns : Committing(u, k)' => Committing(u, k) /\ u # t
    BY <1>1, <1>2 DEF Committing
  <2>2. CASE ActiveOf(t, k) = {}
    BY <1>4, <2>1, <2>2 DEF HistoryNumbers
  <2>3. CASE ActiveOf(t, k) # {}
    <3>1. PICK w : /\ history'[k] = history[k] \cup {Entry(w)} /\ w.seq = seq
                   /\ owner[k] = t /\ \A f \in history[k] : f.seq < seq
      BY <1>5, <2>3
    <3>2. \A u \in Txns : ~Committing(u, k)'
      BY <2>1, <3>1 DEF Committing
    <3>3. Entry(w).seq = seq
      BY <3>1 DEF Entry
    <3>4. \A f \in history[k] : f.seq \in Nat
      BY DEF HistoryNumbers
    <3>5. e.seq \in Nat /\ 0 < e.seq /\ e.seq <= lastSeq
      BY <1>1, <1>3, <3>1, <3>3 DEF HistoryNumbers
    <3>6. \A f \in history'[k] : e.seq = f.seq => e = f
      BY <1>1, <3>1, <3>3, <3>4 DEF HistoryNumbers
    <3> QED BY <3>2, <3>5, <3>6
  <2> QED BY <2>2, <2>3
<1>7. Stored' /\ DroppedAreOlder' /\ NewestStays'
  <2>1. ASSUME NEW k \in Keys, NEW e \in history'[k]
        PROVE  /\ e \in Contents(k) \/ \E v \in CommittedOf(chain'[k]) : ~v.flushed /\ Entry(v) = e
               /\ \/ \E v \in CommittedOf(chain'[k]) : Entry(v) = e
                  \/ \A v \in CommittedOf(chain'[k]) : e.seq < v.seq
               /\ e.seq # StartSeq => CommittedOf(chain'[k]) # {}
    <3>1. CASE ActiveOf(t, k) = {}
      BY <1>4, <3>1 DEF Stored, DroppedAreOlder, NewestStays
    <3>2. CASE ActiveOf(t, k) # {}
      <4>1. PICK w : /\ CommittedOf(chain'[k]) = CommittedOf(chain[k]) \cup {w}
                     /\ history'[k] = history[k] \cup {Entry(w)}
                     /\ w.seq = seq /\ ~w.flushed /\ \A f \in history[k] : f.seq < seq
        BY <1>5, <3>2
      <4>2. CASE e = Entry(w)
        BY <4>1, <4>2
      <4>3. CASE e \in history[k]
        BY <4>1, <4>3 DEF Stored, DroppedAreOlder
      <4> QED BY <4>1, <4>2, <4>3
    <3> QED BY <3>1, <3>2
  <2>2. \A k \in Keys : Contents(k)' = Contents(k)
    BY <1>1 DEF Contents
  <2> QED BY <1>1, <2>1, <2>2 DEF Stored, DroppedAreOlder, NewestStays
<1>8. PlacesDiffer'
  BY <1>1, MarkKeepsPlaces DEF State
<1> QED BY <1>6, <1>7, <1>8

LEMMA StoreStep ==
    ASSUME MaxWrites <= 1
    PROVE  StoreInv /\ [Next]_vars => StoreInv'
<1> SUFFICES ASSUME StoreInv, [Next]_vars PROVE StoreInv'
    OBVIOUS
<1>1. OrderInv' /\ DurableInv' /\ LayersInv'
  BY OrderStep, DurableStep, LayersStep DEF StoreInv, OrderInv
<1>2. ThreadMove \/ StoreMove
  BY StepKinds DEF StoreInv
<1>3. CASE ThreadMove
  BY <1>1, <1>3, ThreadsKeepStore
<1>4. CASE StoreMove
  BY <1>1, <1>4, WriteKeepsStore, MarkKeepsStore, RollbackKeepsStore, FlushKeepsStore,
     FlushItemKeepsStore, MarkFlushedKeepsStore, RunGCKeepsStore DEF StoreMove
<1> QED BY <1>2, <1>3, <1>4

-----------------------------------------------------------------------------
(* What is read from the store. *)

\* What lies in the LSM tree was committed, one value to a number.
LEMMA EntriesCommitted ==
    ASSUME StoreInv, NEW k \in Keys, NEW e \in lsm[k]
    PROVE  /\ [seq |-> e.seq, val |-> e.val] \in history[k]
           /\ e.seq \in Nat /\ e.seq <= lastSeq /\ lastSeq \in Nat
           /\ e.layer \in Nat /\ e.layer <= tree.top /\ tree.top \in Nat
           /\ \A f \in lsm[k] : e.seq = f.seq => e.val = f.val
           /\ \A f \in lsm[k] : e.seq = f.seq /\ e.layer = f.layer => e = f
<1> DEFINE plain(f) == [seq |-> f.seq, val |-> f.val]
<1>1. \A f \in lsm[k] : plain(f) \in history[k]
  BY DEF Contents, StoreInv, DurableInv, CommitsKnown
<1>2. \A f : plain(f).seq = f.seq /\ plain(f).val = f.val
  OBVIOUS
<1>3. /\ tree.top \in Nat
      /\ \A f \in lsm[k] : /\ f = [seq |-> f.seq, val |-> f.val, layer |-> f.layer]
                           /\ f.layer \in Nat /\ f.layer <= tree.top
  BY DEF StoreInv, LayersInv
<1>4. lastSeq \in Nat
  BY DEF StoreInv, OrderInv, Typed
<1> HIDE DEF plain
<1>5. e.seq \in Nat /\ e.seq <= lastSeq
  BY <1>1, <1>2 DEF StoreInv, HistoryNumbers
<1>6. \A f \in lsm[k] : e.seq = f.seq => e.val = f.val
  BY <1>1, <1>2 DEF StoreInv, HistoryNumbers
<1>7. \A f \in lsm[k] : e.seq = f.seq /\ e.layer = f.layer => e = f
  BY <1>3, <1>6
<1> QED BY <1>1, <1>3, <1>4, <1>5, <1>6, <1>7 DEF plain

\* What the search of a set of entries passes over.
LEMMA FirstBeats ==
    ASSUME NEW A, NEW e \in FirstOf(A), NEW f \in A
    PROVE  \/ f = e \/ f.layer < e.layer
           \/ f.layer = e.layer /\ (f.seq < e.seq \/ f.seq = e.seq)
<1>1. \/ f = e \/ f.layer < e.layer
      \/ /\ f.layer = e.layer
         /\ f.seq < e.seq \/ (f.seq = e.seq /\ f.val = Absent)
  BY Zenon DEF FirstOf
<1> QED BY <1>1, Zenon

\* A search that is not empty ends in an entry of the last layer, the newest there.
LEMMA FirstExists ==
    ASSUME StoreInv, NEW k \in Keys, NEW A \in SUBSET lsm[k], A # {}
    PROVE  FirstOf(A) # {}
<1>1. ASSUME NEW e \in A
      PROVE  /\ e.seq \in Nat /\ e.seq <= lastSeq /\ lastSeq \in Nat
             /\ e.layer \in Nat /\ e.layer <= tree.top /\ tree.top \in Nat
             /\ \A f \in A : e.seq = f.seq /\ e.layer = f.layer => e = f
  BY EntriesCommitted
<1>2. PICK e \in A : \A f \in A : f.layer <= e.layer
  <2> DEFINE T == {e.layer : e \in A}
  <2>1. T \in SUBSET Nat /\ T # {} /\ tree.top \in Nat /\ \A x \in T : x <= tree.top
    BY <1>1
  <2>2. PICK x \in T : \A y \in T : y <= x
    <3> HIDE DEF T
    <3> QED BY <2>1, Greatest
  <2> QED BY <2>2
<1>3. PICK g \in A : g.layer = e.layer /\ \A f \in A : f.layer = e.layer => f.seq <= g.seq
  <2> DEFINE T == {f.seq : f \in {h \in A : h.layer = e.layer}}
  <2>1. T \in SUBSET Nat /\ T # {} /\ lastSeq \in Nat /\ \A x \in T : x <= lastSeq
    BY <1>1
  <2>2. PICK x \in T : \A y \in T : y <= x
    <3> HIDE DEF T
    <3> QED BY <2>1, Greatest
  <2> QED BY <2>2
<1>4. ASSUME NEW f \in A
      PROVE  \/ f = g \/ f.layer < g.layer
             \/ f.layer = g.layer /\ f.seq < g.seq
  <2>1. f.layer <= g.layer /\ (f.layer = g.layer => f.seq <= g.seq)
    BY <1>2, <1>3
  <2>2. /\ f.layer \in Nat /\ g.layer \in Nat /\ f.seq \in Nat /\ g.seq \in Nat
        /\ f = g \/ f.seq # g.seq \/ f.layer # g.layer
    BY <1>1
  <2> QED BY <2>1, <2>2
<1>5. g \in FirstOf(A)
  <2> DEFINE beats(f) == \/ f = g \/ f.layer < g.layer
                         \/ /\ f.layer = g.layer
                            /\ f.seq < g.seq \/ (f.seq = g.seq /\ f.val = Absent)
  <2>1. \A f \in A : beats(f)
    BY <1>4
  <2> QED BY <2>1 DEF FirstOf
<1> QED BY <1>5

\* LSMTree::Get gives an entry the snapshot shows, the newest of them while they
\* lie straight.
LEMMA LsmGetFound ==
    ASSUME StoreInv, NEW k \in Keys, NEW s \in Nat
    PROVE  \/ Shown(k, s) = {} /\ LsmGet(k, s) = Absent
           \/ \E e \in Shown(k, s) :
                 /\ LsmGet(k, s) = e.val
                 /\ Straight(k, s) => \A f \in Shown(k, s) : f.seq <= e.seq
<1> DEFINE S == Shown(k, s)
           mem == {e \in S : e.layer > tree.disk}
           tab == {e \in S : e.layer <= tree.disk}
           found == IF FirstOf(tab) = {} \/ \E e \in FirstOf(mem) : e.val = Absent
                    THEN FirstOf(mem) ELSE FirstOf(tab)
<1>1. LsmGet(k, s) = IF found = {} THEN Absent ELSE (CHOOSE e \in found : TRUE).val
  BY DEF LsmGet
<1>2. S \subseteq lsm[k] /\ tree.disk \in Nat
  BY DEF Shown, StoreInv, LayersInv
<1>3. mem \subseteq lsm[k] /\ tab \subseteq lsm[k]
  BY <1>2
<1>4. /\ mem # {} => FirstOf(mem) # {}
      /\ tab # {} => FirstOf(tab) # {}
  <2> HIDE DEF mem, tab
  <2> QED BY <1>3, FirstExists
<1>5. FirstOf(mem) \subseteq mem /\ FirstOf(tab) \subseteq tab
  BY DEF FirstOf
<1>6. \A e \in S : e.seq \in Nat /\ e.layer \in Nat
  BY <1>2, EntriesCommitted
<1>7. S = mem \cup tab
  BY <1>2, <1>6
<1>8. CASE found = {}
  <2>1. FirstOf(mem) = {} /\ FirstOf(tab) = {}
    <3> HIDE DEF mem, tab
    <3> QED BY <1>8
  <2>2. S = {}
    <3> HIDE DEF mem, tab, S
    <3> QED BY <1>4, <1>7, <2>1
  <2> HIDE DEF found
  <2> QED BY <1>1, <1>8, <2>2
<1>9. CASE found # {}
  <2>1. PICK e \in found : e = CHOOSE x \in found : TRUE
    BY <1>9
  <2>2. LsmGet(k, s) = e.val
    <3> HIDE DEF found
    <3> QED BY <1>1, <1>9, <2>1
  <2>3. e \in FirstOf(mem) \/ e \in FirstOf(tab)
    <3> HIDE DEF mem, tab
    <3> QED BY <2>1
  <2>4. e \in S
    BY <1>5, <2>3
  <2>5. ASSUME Straight(k, s), NEW f \in S PROVE f.seq <= e.seq
    <3>1. /\ f.layer < e.layer => f.seq <= e.seq
          /\ f.layer <= tree.disk <=> e.layer <= tree.disk
      BY <2>4, <2>5 DEF Straight
    <3>2. \/ f = e \/ f.layer < e.layer
          \/ f.layer = e.layer /\ f.seq <= e.seq
      <4>1. \/ e \in FirstOf(mem) /\ f \in mem
            \/ e \in FirstOf(tab) /\ f \in tab
        BY <1>2, <1>5, <1>6, <2>3, <2>4, <3>1
      <4>2. ASSUME NEW A, e \in FirstOf(A), f \in A
            PROVE  \/ f = e \/ f.layer < e.layer
                   \/ f.layer = e.layer /\ (f.seq < e.seq \/ f.seq = e.seq)
        BY <4>2, FirstBeats
      <4> HIDE DEF mem, tab
      <4>3. \/ f = e \/ f.layer < e.layer
            \/ f.layer = e.layer /\ (f.seq < e.seq \/ f.seq = e.seq)
        BY <4>1, <4>2, Zenon
      <4>4. f.seq \in Nat /\ e.seq \in Nat
        BY <1>6, <2>4, <2>5
      <4> QED BY <4>3, <4>4
    <3> QED BY <1>6, <2>4, <3>1, <3>2
  <2> HIDE DEF found, S
  <2> QED BY <2>2, <2>4, <2>5 DEF S
<1> QED BY <1>8, <1>9

\* The value of a commit is what the history gives at its number, and the newest
\* commit up to a number is what it gives there.
LEMMA LastOfHistory ==
    ASSUME StoreInv, NEW k \in Keys, NEW q \in Nat, NEW e \in history[k], e.seq <= q,
           \A f \in history[k] : f.seq <= q => f.seq <= e.seq
    PROVE  HistoryAt(k, q) = e.val
<1> DEFINE T == {f \in history[k] : f.seq <= q}
           last == {f \in T : \A g \in T : g.seq <= f.seq}
<1>1. \A f \in history[k] : f.seq \in Nat /\ (e.seq = f.seq => e = f)
  BY DEF StoreInv, HistoryNumbers
<1>2. e \in last
  OBVIOUS
<1>3. \A f \in last : f = e
  <2> SUFFICES ASSUME NEW f \in last PROVE f = e
      OBVIOUS
  <2>1. f \in history[k] /\ f.seq <= e.seq /\ e.seq <= f.seq
    OBVIOUS
  <2> QED BY <1>1, <2>1
<1>4. last = {e}
  <2> HIDE DEF last
  <2> QED BY <1>2, <1>3
<1>5. HistoryAt(k, q) = IF last = {} THEN Absent ELSE (CHOOSE f \in last : TRUE).val
  BY DEF HistoryAt
<1> HIDE DEF last
<1> QED BY <1>4, <1>5

\* The LSM tree gives what was committed, if it has all that is asked for and has
\* it straight or has one commit only.
LEMMA LsmIsHistory ==
    ASSUME StoreInv, NEW k \in Keys, NEW s \in Nat, NEW q \in Nat,
           \A e \in history[k] : e.seq <= q => e \in Contents(k),
           \A e \in history[k] : e.seq <= q <=> (s = 0 \/ e.seq <= s),
           \/ Straight(k, s)
           \/ \A e, f \in history[k] : e.seq = f.seq
    PROVE  LsmGet(k, s) = HistoryAt(k, q)
<1> DEFINE plain(e) == [seq |-> e.seq, val |-> e.val]
<1>1. ASSUME NEW e \in Shown(k, s)
      PROVE  plain(e) \in history[k] /\ e.seq <= q /\ e.seq \in Nat
  <2>1. e \in lsm[k] /\ (s = 0 \/ e.seq <= s)
    BY DEF Shown
  <2>2. plain(e) \in history[k] /\ e.seq \in Nat
    BY <2>1, EntriesCommitted
  <2>3. plain(e).seq = e.seq
    OBVIOUS
  <2> HIDE DEF plain
  <2> QED BY <2>1, <2>2, <2>3
<1>2. ASSUME NEW f \in history[k], f.seq <= q
      PROVE  \E e \in Shown(k, s) : e.seq = f.seq
  <2>1. f \in Contents(k) /\ (s = 0 \/ f.seq <= s)
    BY <1>2
  <2>2. PICK e \in lsm[k] : f = plain(e)
    BY <2>1 DEF Contents
  <2>3. plain(e).seq = e.seq
    OBVIOUS
  <2> HIDE DEF plain
  <2> QED BY <2>1, <2>2, <2>3 DEF Shown
<1>3. CASE Shown(k, s) = {} /\ LsmGet(k, s) = Absent
  <2>1. {f \in history[k] : f.seq <= q} = {}
    BY <1>2, <1>3
  <2> QED BY <1>3, <2>1 DEF HistoryAt
<1>4. ASSUME NEW e \in Shown(k, s), LsmGet(k, s) = e.val,
             Straight(k, s) => \A f \in Shown(k, s) : f.seq <= e.seq
      PROVE  LsmGet(k, s) = HistoryAt(k, q)
  <2>1. plain(e).seq = e.seq /\ plain(e).val = e.val
    OBVIOUS
  <2>2. plain(e) \in history[k] /\ e.seq <= q /\ e.seq \in Nat
    BY <1>1
  <2> HIDE DEF plain
  <2>3. \A f \in history[k] : f.seq <= q => f.seq <= e.seq
    BY <1>2, <1>4, <2>1, <2>2
  <2>4. HistoryAt(k, q) = plain(e).val
    BY <2>1, <2>2, <2>3, LastOfHistory
  <2> QED BY <1>4, <2>1, <2>4
<1> QED BY <1>3, <1>4, LsmGetFound

\* However the tree lies, it gives what was committed up to some number.
LEMMA LsmIsSomePast ==
    ASSUME StoreInv, NEW k \in Keys, NEW q \in Nat, q > 0
    PROVE  \E p \in 0 .. q : LsmGet(k, q) = HistoryAt(k, p)
<1> DEFINE plain(e) == [seq |-> e.seq, val |-> e.val]
<1>1. CASE LsmGet(k, q) = Absent /\ Shown(k, q) = {}
  <2>1. {f \in history[k] : f.seq <= 0} = {}
    BY DEF StoreInv, HistoryNumbers
  <2>2. HistoryAt(k, 0) = Absent
    BY <2>1 DEF HistoryAt
  <2> QED BY <1>1, <2>2
<1>2. ASSUME NEW e \in Shown(k, q), LsmGet(k, q) = e.val
      PROVE  \E p \in 0 .. q : LsmGet(k, q) = HistoryAt(k, p)
  <2>1. e \in lsm[k] /\ e.seq <= q
    BY DEF Shown
  <2>2. plain(e) \in history[k] /\ e.seq \in Nat
    BY <2>1, EntriesCommitted
  <2>3. plain(e).seq = e.seq /\ plain(e).val = e.val
    OBVIOUS
  <2> HIDE DEF plain
  <2>4. HistoryAt(k, e.seq) = plain(e).val
    BY <2>2, <2>3, LastOfHistory
  <2>5. e.seq \in 0 .. q
    BY <2>1, <2>2
  <2> QED BY <1>2, <2>3, <2>4, <2>5
<1> QED BY <1>1, <1>2, LsmGetFound

\* The newest version up to a number holds the last value committed up to it.
LEMMA VersionIsHistory ==
    ASSUME StoreInv, NEW k \in Keys, NEW q \in Nat,
           NEW v \in Newest({w \in CommittedOf(chain[k]) : w.seq <= q})
    PROVE  HistoryAt(k, q) = v.val
<1> USE DEF StoreInv
<1> DEFINE T == {e \in history[k] : e.seq <= q}
           last == {e \in T : \A f \in T : f.seq <= e.seq}
<1>1. /\ v \in CommittedOf(chain[k]) /\ v.seq <= q
      /\ \A w \in CommittedOf(chain[k]) : w.seq <= q => w.place <= v.place
  BY DEF Newest
<1>2. \A w \in CommittedOf(chain[k]) : w \in chain[k] /\ w.seq \in Nat /\ w.place \in Nat
  BY DEF CommittedOf, OrderInv, Typed, ChainsTyped, Version
<1>3. Entry(v) \in T /\ Entry(v).seq = v.seq /\ Entry(v).val = v.val
  BY <1>1 DEF DurableInv, CommitsKnown, Entry
<1>4. ASSUME NEW e \in T PROVE e.seq <= v.seq
  <2>1. CASE \E w \in CommittedOf(chain[k]) : Entry(w) = e
    <3>1. PICK w \in CommittedOf(chain[k]) : Entry(w) = e
      BY <2>1
    <3>2. w.seq = e.seq /\ w.place <= v.place
      BY <1>1, <3>1 DEF Entry
    <3>3. CASE w.place = v.place
      <4>1. w = v
        BY <1>1, <1>2, <3>3 DEF PlacesDiffer
      <4> QED BY <1>2, <3>1, <3>2, <4>1
    <3>4. CASE w.place # v.place
      <4>1. w.place < v.place
        BY <1>1, <1>2, <3>2, <3>4
      <4> QED BY <1>1, <3>1, <3>2, <4>1 DEF OrderInv, CommitOrder
    <3> QED BY <3>3, <3>4
  <2>2. CASE \A w \in CommittedOf(chain[k]) : e.seq < w.seq
    <3>1. e.seq < v.seq /\ e.seq \in Nat
      BY <1>1, <2>2 DEF HistoryNumbers
    <3> QED BY <1>1, <1>2, <3>1
  <2> QED BY <2>1, <2>2 DEF DroppedAreOlder
<1>5. last = {Entry(v)}
  <2>1. Entry(v) \in last
    BY <1>3, <1>4
  <2>2. ASSUME NEW e \in last PROVE e = Entry(v)
    <3>1. e \in history[k] /\ Entry(v) \in history[k] /\ e.seq \in Nat /\ v.seq \in Nat
      BY <1>1, <1>2, <1>3 DEF HistoryNumbers
    <3>2. e.seq = Entry(v).seq
      BY <1>3, <1>4, <3>1
    <3> QED BY <3>1, <3>2 DEF HistoryNumbers
  <2> QED BY <2>1, <2>2
<1>6. HistoryAt(k, q) = IF last = {} THEN Absent ELSE (CHOOSE e \in last : TRUE).val
  BY DEF HistoryAt
<1> HIDE DEF last
<1> QED BY <1>3, <1>5, <1>6

\* Without a version up to a number, the LSM tree has all that was committed up
\* to it; without any version, that is what recovery found.
LEMMA LsmHasTheRest ==
    ASSUME StoreInv, NEW k \in Keys, NEW q \in Nat,
           \A v \in CommittedOf(chain[k]) : ~(v.seq <= q)
    PROVE  /\ \A e \in history[k] : e.seq <= q => e \in Contents(k)
           /\ q > 0 /\ Straight(k, q) => LsmGet(k, q) = HistoryAt(k, q)
<1>1. ASSUME NEW e \in history[k], e.seq <= q PROVE e \in Contents(k)
  BY <1>1 DEF StoreInv, Stored, Entry
<1>2. ASSUME q > 0, Straight(k, q) PROVE LsmGet(k, q) = HistoryAt(k, q)
  <2>1. \A e \in history[k] : e.seq <= q <=> (q = 0 \/ e.seq <= q)
    BY <1>2
  <2> QED BY <1>1, <1>2, <2>1, LsmIsHistory
<1> QED BY <1>1, <1>2

LEMMA LsmHasAll ==
    ASSUME StoreInv, NEW k \in Keys, CommittedOf(chain[k]) = {},
           NEW s \in Nat, s = 0 \/ s = lastSeq
    PROVE  LsmGet(k, s) = HistoryAt(k, lastSeq)
<1>1. lastSeq \in Nat
  BY DEF StoreInv, OrderInv, Typed
<1>2. \A e \in history[k] : e.seq <= lastSeq /\ e.seq = StartSeq
  BY DEF StoreInv, HistoryNumbers, NewestStays
<1>3. \A e \in history[k] : e.seq <= lastSeq => e \in Contents(k)
  BY <1>1, LsmHasTheRest
<1>4. \A e, f \in history[k] : e.seq = f.seq
  BY <1>2
<1>5. \A e \in history[k] : e.seq <= lastSeq <=> (s = 0 \/ e.seq <= s)
  BY <1>2
<1> QED BY <1>1, <1>3, <1>4, <1>5, LsmIsHistory

\* A plain read sees the last commit.
LEMMA LatestIsLast ==
    ASSUME StoreInv, NEW k \in Keys
    PROVE  LatestRead(k) = HistoryAt(k, lastSeq)
<1> DEFINE C == CommittedOf(chain[k])
           newest == Newest(C)
<1>1. lastSeq \in Nat /\ C \subseteq chain[k] /\ ChainsTyped
  BY DEF StoreInv, OrderInv, Typed, CommittedOf
<1>2. LatestRead(k) = IF newest = {} THEN LsmGet(k, 0) ELSE (CHOOSE v \in newest : TRUE).val
  BY DEF LatestRead
<1>3. CASE newest = {}
  <2>1. C = {}
    BY <1>1, <1>3, NewestInChain
  <2>2. LsmGet(k, 0) = HistoryAt(k, lastSeq)
    BY <2>1, LsmHasAll
  <2> QED BY <1>2, <1>3, <2>2
<1>4. CASE newest # {}
  <2>1. PICK v \in newest : v = CHOOSE w \in newest : TRUE
    BY <1>4
  <2>2. {w \in C : w.seq <= lastSeq} = C
    BY DEF StoreInv, OrderInv, NumbersDrawn
  <2>3. HistoryAt(k, lastSeq) = v.val
    BY <1>1, <2>1, <2>2, VersionIsHistory
  <2> HIDE DEF newest
  <2> QED BY <1>2, <1>4, <2>1, <2>3
<1> QED BY <1>3, <1>4

\* The invariant of the store holds in every reachable state.
THEOREM StoreKept ==
    ASSUME MaxWrites <= 1
    PROVE  Spec => []StoreInv
<1>1. StoreInv /\ [Next]_vars => StoreInv'
  BY StoreStep
<1> QED BY <1>1, StoreInit, PTL DEF Spec

\* Once every version of a commit is flushed, the LSM tree has what the commit
\* left, and LSMTree::Get gives it while nothing older lies above it, nor in the
\* tables while it lies in a memtable: GarbageCollect may drop the versions.
THEOREM FlushesReadable ==
    ASSUME MaxWrites <= 1
    PROVE  Spec => []FlushedIsReadable
<1>1. ASSUME StoreInv PROVE FlushedIsReadable
  <2> SUFFICES ASSUME NEW k \in Keys, NEW e \in history[k],
                      \A v \in CommittedOf(chain[k]) : v.seq = e.seq => v.flushed
               PROVE  e \in Contents(k) /\ (Straight(k, e.seq) => LsmGet(k, e.seq) = e.val)
      BY DEF FlushedIsReadable
  <2>1. e \in Contents(k)
    BY <1>1 DEF StoreInv, Stored, Entry
  <2>2. e.seq \in Nat /\ e.seq # 0
    BY <1>1 DEF StoreInv, HistoryNumbers
  <2>3. PICK x \in lsm[k] : x.seq = e.seq /\ x.val = e.val
    BY <2>1 DEF Contents
  <2>4. x \in Shown(k, e.seq)
    BY <2>2, <2>3 DEF Shown
  <2>5. ASSUME Straight(k, e.seq) PROVE LsmGet(k, e.seq) = e.val
    <3>1. PICK y \in Shown(k, e.seq) :
            LsmGet(k, e.seq) = y.val /\ \A f \in Shown(k, e.seq) : f.seq <= y.seq
      BY <1>1, <2>2, <2>4, <2>5, LsmGetFound
    <3>2. y \in lsm[k] /\ y.seq <= e.seq /\ e.seq <= y.seq
      BY <2>2, <2>3, <2>4, <3>1 DEF Shown
    <3>3. y.seq \in Nat /\ \A f \in lsm[k] : y.seq = f.seq => y.val = f.val
      BY <1>1, <3>2, EntriesCommitted
    <3>4. y.seq = x.seq
      BY <2>2, <2>3, <3>2, <3>3
    <3> QED BY <2>3, <3>1, <3>3, <3>4
  <2> QED BY <2>1, <2>5
<1> QED BY <1>1, StoreKept, PTL

-----------------------------------------------------------------------------
(* Snapshots. *)

\* t marks its versions of k, which it has locked.
Marks(t, k) == Committing(t, k) /\ pc'[t] = "marked"

\* Commit numbers are drawn in order.
LEMMA NumbersGrow ==
    ASSUME OrderInv, [Next]_vars
    PROVE  /\ lastSeq <= lastSeq'
           /\ \A t \in Txns : Numbered(t)' =>
                  \/ Numbered(t) /\ commit'[t].seq = commit[t].seq
                  \/ lastSeq < commit'[t].seq
<1>1. lastSeq \in Nat
  BY DEF OrderInv, Typed
<1>2. CASE ThreadMove
  BY <1>2 DEF ThreadMove
<1>3. ASSUME UNCHANGED <<lastSeq, commit>>, \A t \in Txns : Numbered(t)' => Numbered(t)
      PROVE  /\ lastSeq <= lastSeq'
             /\ \A t \in Txns : Numbered(t)' => Numbered(t) /\ commit'[t].seq = commit[t].seq
  BY <1>1, <1>3
<1>4. ASSUME NEW t \in Txns, Mark(t) \/ Rollback(t)
      PROVE  UNCHANGED <<lastSeq, commit>> /\ \A u \in Txns : Numbered(u)' => Numbered(u)
  <2>1. UNCHANGED <<lastSeq, commit>> /\ pc' = [pc EXCEPT ![t] = "marked"]
    BY <1>4 DEF Mark, Rollback, Step
  <2> QED BY <2>1 DEF Numbered, OrderInv, Typed
<1>5. ASSUME \/ \E t \in Txns, k \in Keys, kind \in Kinds : Write(t, k, kind)
             \/ FlushPick \/ FlushFails \/ MarkFlushed \/ RunGC
             \/ \E i \in flush.items : FlushItem(i)
      PROVE  UNCHANGED <<lastSeq, commit, pc>>
  BY <1>5 DEF Write, FlushPick, FlushFails, MarkFlushed, RunGC, FlushItem, threads
<1>6. CASE StoreMove
  BY <1>3, <1>4, <1>5, <1>6 DEF StoreMove, Numbered
<1> QED BY <1>2, <1>6, StepKinds

\* What a step adds to the commits to a key, or to its committed versions, has
\* the number of a transaction that marks its versions of that key.
LEMMA GrowsByCommits ==
    ASSUME StoreInv, [Next]_vars, NEW k \in Keys
    PROVE  /\ history[k] \subseteq history'[k]
           /\ \A e \in history'[k] : \/ e \in history[k]
                                     \/ \E t \in Txns : Marks(t, k) /\ e.seq = commit[t].seq
           /\ \A w \in CommittedOf(chain'[k]) :
                  \/ \E v \in CommittedOf(chain[k]) : w.seq = v.seq /\ w.txn = v.txn
                  \/ \E t \in Txns : Marks(t, k) /\ w.seq = commit[t].seq /\ w.txn = t
<1>0. OrderInv
  BY DEF StoreInv
<1>1. CASE ThreadMove
  BY <1>1 DEF ThreadMove
<1>2. ASSUME NEW t \in Txns, NEW j \in Keys, NEW kind, Write(t, j, kind)
      PROVE  history' = history /\ CommittedOf(chain'[k]) = CommittedOf(chain[k])
  <2>1. PICK n \in Version : chain' = [chain EXCEPT ![j] = @ \cup {n}] /\ n.state = "Active"
    BY <1>0, <1>2, WriteChain DEF OrderInv
  <2>2. chain'[k] = chain[k] \/ chain'[k] = chain[k] \cup {n}
    BY <1>0, <2>1 DEF OrderInv, Typed, ChainsTyped
  <2>3. CommittedOf(chain'[k]) = CommittedOf(chain[k])
    BY <2>1, <2>2 DEF CommittedOf
  <2> QED BY <1>2, <2>3 DEF Write
<1>3. ASSUME NEW t \in Txns, Rollback(t)
      PROVE  history' = history /\ CommittedOf(chain'[k]) = CommittedOf(chain[k])
  BY <1>0, <1>3, RollbackKeeps DEF Rollback
<1>4. ASSUME FlushPick \/ FlushFails \/ \E i \in flush.items : FlushItem(i)
      PROVE  UNCHANGED <<history, chain>>
  BY <1>4 DEF FlushPick, FlushFails, FlushItem, storage
<1>5. ASSUME MarkFlushed
      PROVE  /\ history' = history
             /\ \A w \in CommittedOf(chain'[k]) :
                    \E v \in CommittedOf(chain[k]) : w.seq = v.seq /\ w.txn = v.txn
  <2>1. \A w \in CommittedOf(chain'[k]) :
            \E v \in CommittedOf(chain[k]) : Entry(w) = Entry(v) /\ w.txn = v.txn
    BY <1>0, <1>5, MarkFlushedKeeps
  <2> QED BY <1>5, <2>1 DEF Entry, MarkFlushed
<1>6. ASSUME RunGC
      PROVE  history' = history /\ CommittedOf(chain'[k]) \subseteq CommittedOf(chain[k])
  BY <1>6 DEF RunGC, Kept, CommittedOf
<1>7. ASSUME NEW t \in Txns, Mark(t)
      PROVE  /\ history[k] \subseteq history'[k]
             /\ \A e \in history'[k] : e \in history[k] \/ (Marks(t, k) /\ e.seq = commit[t].seq)
             /\ \A w \in CommittedOf(chain'[k]) :
                    \/ w \in CommittedOf(chain[k])
                    \/ Marks(t, k) /\ w.seq = commit[t].seq /\ w.txn = t
  <2>1. history'[k] = history[k] \cup
            {[seq |-> commit[t].seq, val |-> v.val] : v \in Newest(ActiveOf(t, k))}
    BY <1>7 DEF Mark
  <2>2. pc'[t] = "marked" /\ Numbered(t)
    BY <1>0, <1>7 DEF Mark, Step, Numbered, OrderInv, Typed
  <2> DEFINE Grown ==
          /\ \A e \in history'[k] : e \in history[k] \/ (Marks(t, k) /\ e.seq = commit[t].seq)
          /\ \A w \in CommittedOf(chain'[k]) :
                 \/ w \in CommittedOf(chain[k])
                 \/ Marks(t, k) /\ w.seq = commit[t].seq /\ w.txn = t
  <2>3. ASSUME ActiveOf(t, k) = {}, chain'[k] = chain[k] PROVE Grown
    <3>1. Newest(ActiveOf(t, k)) = {}
      BY <2>3 DEF Newest
    <3>2. history'[k] = history[k]
      BY <2>1, <3>1
    <3> QED BY <2>3, <3>2
  <2>4. ASSUME owner[k] = t,
               \A v \in ActivesOf(chain[k]) :
                   CommitsTo(t, v).seq = commit[t].seq /\ CommitsTo(t, v).txn = t,
               CommittedOf(chain'[k]) = CommittedOf(chain[k]) \cup
                    {CommitsTo(t, v) : v \in ActivesOf(chain[k])}
        PROVE  Grown
    <3>1. Marks(t, k)
      BY <2>2, <2>4 DEF Marks, Committing
    <3>2. \A e \in history'[k] : e \in history[k] \/ e.seq = commit[t].seq
      BY <2>1
    <3> QED BY <2>4, <3>1, <3>2
  <2>5. Grown
    <3> HIDE DEF Grown
    <3> QED BY <1>0, <1>7, <2>3, <2>4, MarkCommits
  <2> QED BY <2>1, <2>5
<1>8. CASE StoreMove
  BY <1>2, <1>3, <1>4, <1>5, <1>6, <1>7, <1>8 DEF StoreMove
<1> QED BY <1>0, <1>1, <1>8, StepKinds

\* A read adds what it returned to the results of its reader, or has seen
\* nothing in the chain and waits for the LSM tree.
Result(r, k, val, straight) == [val |-> val, locked |-> owner[k] = r, straight |-> straight]

LEMMA ReadEffect ==
    ASSUME ReadersTyped, NEW r \in Readers, NEW k \in Keys, NEW val, NEW straight,
           Returns(r, k, val, straight)
    PROVE  /\ results' = [q \in Readers |-> [j \in Keys |-> results'[q][j]]]
           /\ \A q \in Readers, j \in Keys :
                  (q = r /\ j = k) \/ results'[q][j] = results[q][j]
           /\ \/ results'[r][k] = results[r][k]
              \/ /\ Recorded(r, k)
                 /\ results'[r][k] = results[r][k] \cup {Result(r, k, val, straight)}
<1>1. CASE ~Recorded(r, k)
  BY <1>1 DEF Returns, ReadersTyped
<1>2. CASE Recorded(r, k)
  <2> DEFINE x == Result(r, k, val, straight)
  <2>1. results' = [results EXCEPT ![r][k] = @ \cup {x}]
    BY <1>2 DEF Returns, Result
  <2> HIDE DEF x
  <2>2. results = [q \in Readers |-> [j \in Keys |-> results[q][j]]]
    BY DEF ReadersTyped
  <2>3. results' = [q \in Readers |-> [j \in Keys |-> results'[q][j]]]
    BY <2>1, <2>2
  <2>4. \A q \in Readers, j \in Keys :
            results'[q][j] = IF q = r /\ j = k THEN results[q][j] \cup {x} ELSE results[q][j]
    BY <2>1, <2>2
  <2> QED BY <1>2, <2>3, <2>4 DEF x
<1> QED BY <1>1, <1>2

\* In particular it returned that value and no reader else returned anything.
LEMMA ReturnedEffect ==
    ASSUME ReadersTyped, NEW r \in Readers, NEW k \in Keys, NEW val, NEW straight,
           Returns(r, k, val, straight)
    PROVE  /\ \A q \in Readers \ {r} : results'[q] = results[q]
           /\ \A j \in Keys \ {k} : Returned(r, j)' = Returned(r, j)
           /\ Returned(r, k)' \subseteq Returned(r, k) \cup {val}
           /\ ~straight => Returned(r, k)' \subseteq Returned(r, k)
           /\ \A j \in Keys : \A x \in results'[r][j] :
                  x \in results[r][j] \/ (j = k /\ Recorded(r, k) /\ x.val = val)
<1>0. results' = [q \in Readers |-> [j \in Keys |-> results'[q][j]]]
  BY ReadEffect
<1>1. /\ results = [q \in Readers |-> [j \in Keys |-> results[q][j]]]
      /\ \A q \in Readers, j \in Keys : (q = r /\ j = k) \/ results'[q][j] = results[q][j]
      /\ \A x \in results'[r][k] :
            x \in results[r][k] \/ (Recorded(r, k) /\ x.val = val /\ x.straight = straight)
  <2>1. \/ results'[r][k] = results[r][k]
        \/ /\ Recorded(r, k)
           /\ results'[r][k] = results[r][k] \cup {Result(r, k, val, straight)}
    BY ReadEffect
  <2>2. \A q \in Readers, j \in Keys : (q = r /\ j = k) \/ results'[q][j] = results[q][j]
    BY ReadEffect
  <2>3. \A x \in results'[r][k] :
            x \in results[r][k] \/ (Recorded(r, k) /\ x.val = val /\ x.straight = straight)
    <3> DEFINE y == Result(r, k, val, straight)
    <3>1. y.val = val /\ y.straight = straight
      BY Zenon DEF Result
    <3>2. \/ Recorded(r, k) /\ results'[r][k] = results[r][k] \cup {y}
          \/ results'[r][k] = results[r][k]
      BY <2>1
    <3> HIDE DEF y
    <3> QED BY <3>1, <3>2
  <2> QED BY <2>2, <2>3 DEF ReadersTyped
<1>2. ASSUME NEW q \in Readers \ {r} PROVE results'[q] = results[q]
  <2>1. /\ results'[q] = [j \in Keys |-> results'[q][j]]
        /\ results[q] = [j \in Keys |-> results[q][j]]
    BY <1>0, <1>1
  <2>2. \A j \in Keys : results'[q][j] = results[q][j]
    BY <1>1, <1>2
  <2> QED BY <2>1, <2>2
<1>3. \A j \in Keys \ {k} : Returned(r, j)' = Returned(r, j)
  BY <1>1 DEF Returned
<1>4. Returned(r, k)' \subseteq Returned(r, k) \cup {val}
  BY <1>1 DEF Returned
<1>5. ASSUME ~straight PROVE Returned(r, k)' \subseteq Returned(r, k)
  <2>1. {x \in results'[r][k] : x.straight} \subseteq {x \in results[r][k] : x.straight}
    BY <1>1, <1>5, Zenon
  <2> QED BY <2>1, Zenon DEF Returned
<1>6. ASSUME NEW j \in Keys, NEW x \in results'[r][j]
      PROVE  x \in results[r][j] \/ (j = k /\ Recorded(r, k) /\ x.val = val)
  BY <1>1
<1> QED BY <1>2, <1>3, <1>4, <1>5, <1>6

LEMMA ReadChainEffect ==
    ASSUME ReadersTyped, NEW r \in Readers, NEW k \in Keys, NEW found,
           ReadChain(r, k, found), UNCHANGED snap
    PROVE  /\ ReadersTyped'
           /\ \A q \in Readers \ {r} : reading'[q] = reading[q]
           /\ \/ found = {} /\ reading'[r] = {k} /\ results' = results
              \/ reading' = reading /\ \E v \in found : Returns(r, k, v.val, TRUE)
<1>1. CASE found = {}
  <2>1. reading' = [reading EXCEPT ![r] = {k}] /\ results' = results
    BY <1>1 DEF ReadChain
  <2> QED BY <1>1, <2>1 DEF ReadersTyped
<1>2. CASE found # {}
  <2>1. PICK v \in found : reading' = reading /\ Returns(r, k, v.val, TRUE)
    BY <1>2 DEF ReadChain
  <2>2. results' = [q \in Readers |-> [j \in Keys |-> results'[q][j]]]
    BY <2>1, ReadEffect
  <2>3. ReadersTyped'
    BY <2>1, <2>2 DEF ReadersTyped
  <2> QED BY <2>1, <2>3
<1> QED BY <1>1, <1>2

LEMMA ReadLsmEffect ==
    ASSUME ReadersTyped, NEW r \in Readers, NEW k \in Keys, NEW seq,
           ReadLsm(r, k, seq), UNCHANGED snap
    PROVE  /\ ReadersTyped' /\ reading'[r] = {}
           /\ Returns(r, k, LsmGet(k, seq), Straight(k, seq))
           /\ \A q \in Readers \ {r} : reading'[q] = reading[q]
<1>1. /\ reading' = [reading EXCEPT ![r] = {}]
      /\ Returns(r, k, LsmGet(k, seq), Straight(k, seq))
  BY DEF ReadLsm
<1>2. results' = [q \in Readers |-> [j \in Keys |-> results'[q][j]]]
  BY <1>1, ReadEffect
<1>3. reading' = [q \in Readers |-> IF q = r THEN {} ELSE reading[q]]
  BY <1>1 DEF ReadersTyped
<1> QED BY <1>1, <1>2, <1>3 DEF ReadersTyped

\* A step reads, takes the snapshot, or is nothing to a reader.
LEMMA ReaderSteps ==
    ASSUME [Next]_vars
    PROVE  \/ UNCHANGED <<reading, results, snap>>
           \/ \E t \in Txns, k \in Keys : GetChain(t, k) \/ GetLsm(t, k)
           \/ TakeSnapshot
           \/ \E k \in Keys : SnapshotChain(k) \/ SnapshotLsm(k)
<1> USE DEF observed
<1>1. ASSUME NEW t \in Txns,
             BeginId(t) \/ BeginInsert(t) \/ BeginView(t) \/ BeginLimit(t) \/ BeginSeq(t)
      PROVE  UNCHANGED <<reading, results, snap>>
  BY <1>1 DEF BeginId, BeginInsert, BeginView, BeginLimit, BeginSeq
<1>2. ASSUME NEW t \in Txns, NEW k \in Keys, Lock(t, k) \/ Log(t, k)
      PROVE  UNCHANGED <<reading, results, snap>>
  BY <1>2 DEF Lock, Log
<1>3. ASSUME NEW t \in Txns, NEW k \in Keys, NEW kind, Write(t, k, kind)
      PROVE  UNCHANGED <<reading, results, snap>>
  BY <1>3 DEF Write
<1>4. ASSUME NEW t \in Txns,
             \/ Prepare(t) \/ SyncLog(t) \/ Mark(t)
             \/ Rollback(t) \/ Leave(t) \/ Unlock(t)
      PROVE  UNCHANGED <<reading, results, snap>>
  BY <1>4 DEF Prepare, SyncLog, Mark, Rollback, Leave, Unlock
<1>5. ASSUME \/ FlushPick \/ FlushFails \/ MarkFlushed \/ RunGC
             \/ \E i \in flush.items : FlushItem(i)
             \/ SwitchMemTable \/ FlushMemTable
      PROVE  UNCHANGED <<reading, results, snap>>
  BY <1>5 DEF FlushPick, FlushFails, MarkFlushed, RunGC, FlushItem, SwitchMemTable,
              FlushMemTable
<1>6. CASE UNCHANGED vars
  BY <1>6 DEF vars
<1> QED BY <1>1, <1>2, <1>3, <1>4, <1>5, <1>6 DEF Next

\* What was committed up to a number does not change if nothing is added there.
LEMMA HistoryAtKept ==
    ASSUME NEW k \in Keys, NEW p, NEW q,
           {e \in history'[k] : e.seq <= p} = {e \in history[k] : e.seq <= q}
    PROVE  HistoryAt(k, p)' = HistoryAt(k, q)
<1> DEFINE last(upTo) == {e \in upTo : \A f \in upTo : f.seq <= e.seq}
           value(upTo) == IF last(upTo) = {} THEN Absent
                          ELSE (CHOOSE e \in last(upTo) : TRUE).val
<1>1. HistoryAt(k, q) = value({e \in history[k] : e.seq <= q})
  BY DEF HistoryAt
<1>2. HistoryAt(k, p)' = value({e \in history'[k] : e.seq <= p})
  BY DEF HistoryAt
<1> HIDE DEF value
<1> QED BY <1>1, <1>2

\* Nor if all commits under way have drawn greater numbers.
LEMMA PastIsSettled ==
    ASSUME StoreInv, [Next]_vars, NEW q \in Nat, NEW k \in Keys,
           \A t \in Txns : Numbered(t) => q < commit[t].seq
    PROVE  HistoryAt(k, q)' = HistoryAt(k, q)
<1>1. history[k] \subseteq history'[k]
  BY GrowsByCommits
<1>2. ASSUME NEW e \in history'[k], e.seq <= q, e \notin history[k] PROVE FALSE
  <2>1. PICK t \in Txns : Marks(t, k) /\ e.seq = commit[t].seq
    BY <1>2, GrowsByCommits
  <2>2. commit[t].seq \in Nat
    BY DEF StoreInv, OrderInv, Typed
  <2> QED BY <1>2, <2>1, <2>2 DEF Marks, Committing
<1> QED BY <1>1, <1>2, HistoryAtKept

\* Commits that the snapshot is not to see change nothing for it.
LEMMA SnapshotKept ==
    ASSUME StoreInv, StoreInv', SnapshotInv, [Next]_vars,
           UNCHANGED <<snap, reading[Snapshot], results[Snapshot]>>
    PROVE  /\ SnapshotInv'
           /\ snap.settled => \A k \in Keys : HistoryAt(k, snap.seq)' = HistoryAt(k, snap.seq)
           /\ snap.settled => \A k \in Keys, p \in 0 .. snap.seq :
                                  HistoryAt(k, p)' = HistoryAt(k, p)
<1>1. PICK q \in Nat : q = snap.seq /\ q = snap'.seq
  BY DEF SnapshotInv
<1>2. q <= lastSeq /\ lastSeq \in Nat /\ lastSeq' \in Nat
  BY <1>1 DEF SnapshotInv, StoreInv, OrderInv, Typed
<1>3. ASSUME NEW t \in Txns PROVE commit[t].seq \in Nat /\ commit'[t].seq \in Nat
  BY DEF StoreInv, OrderInv, Typed
<1>4. ASSUME NEW k \in Keys
      PROVE  /\ \A v \in CommittedOf(chain[k]) : v.seq \in Nat
             /\ \A v \in CommittedOf(chain'[k]) : v.seq \in Nat
  BY DEF CommittedOf, StoreInv, OrderInv, Typed, ChainsTyped, Version
<1>5. ASSUME snap.settled, NEW t \in Txns PROVE Numbered(t) => q < commit[t].seq
  BY <1>1, <1>5 DEF SnapshotInv
<1>6. ASSUME snap.settled, NEW t \in Txns, Numbered(t)' PROVE q < commit'[t].seq
  <2>1. CASE Numbered(t) /\ commit'[t].seq = commit[t].seq
    BY <1>5, <1>6, <2>1
  <2>2. CASE lastSeq < commit'[t].seq
    BY <1>2, <1>3, <2>2
  <2> QED BY <1>6, <2>1, <2>2, NumbersGrow DEF StoreInv
<1>7. ASSUME snap.settled, NEW k \in Keys, k \in reading[Snapshot], NEW w \in CommittedOf(chain'[k])
      PROVE  q < w.seq
  <2>1. CASE \E v \in CommittedOf(chain[k]) : w.seq = v.seq
    BY <1>1, <1>7, <2>1 DEF SnapshotInv
  <2>2. CASE \E t \in Txns : Marks(t, k) /\ w.seq = commit[t].seq
    BY <1>5, <1>7, <2>2 DEF Marks, Committing
  <2> QED BY <2>1, <2>2, GrowsByCommits
<1>8. q <= lastSeq'
  <2>1. lastSeq <= lastSeq'
    BY NumbersGrow DEF StoreInv
  <2> QED BY <1>2, <2>1
<1>9. SnapshotInv'
  BY <1>1, <1>6, <1>7, <1>8 DEF SnapshotInv
<1>10. ASSUME snap.settled, NEW k \in Keys, NEW p \in 0 .. q
       PROVE  HistoryAt(k, p)' = HistoryAt(k, p)
  <2>1. \A t \in Txns : Numbered(t) => p < commit[t].seq
    BY <1>3, <1>5, <1>10
  <2> QED BY <2>1, PastIsSettled
<1> QED BY <1>1, <1>9, <1>10

\* What a read returns, from a tree that is not straight too, was committed once
\* and not after the snapshot.
SnapshotReadsSomePast ==
    snap.settled /\ snap.seq > 0 =>
        \A k \in Keys : \A x \in results[Snapshot][k] :
            \E p \in 0 .. snap.seq : x.val = HistoryAt(k, p)

SnapshotReadsExactly ==
    snap.settled /\ snap.seq > 0 =>
        \A k \in Keys : Returned(Snapshot, k) \subseteq {HistoryAt(k, snap.seq)}

LEMMA SnapshotParts ==
    SnapshotReadsItsPast <=> SnapshotReadsExactly /\ SnapshotReadsSomePast
BY DEF SnapshotReadsItsPast, SnapshotReadsExactly, SnapshotReadsSomePast

\* One more read keeps that, if the commits up to the snapshot are as they were.
LEMMA SomePastKept ==
    ASSUME ReadersTyped, SnapshotReadsSomePast, UNCHANGED <<snap, history>>,
           NEW k \in Keys, NEW val, NEW straight, Returns(Snapshot, k, val, straight),
           snap.settled /\ snap.seq > 0 => \E p \in 0 .. snap.seq : val = HistoryAt(k, p)
    PROVE  SnapshotReadsSomePast'
<1>1. Snapshot \in Readers
  BY DEF Readers
<1>2. \A j \in Keys : \A p : HistoryAt(j, p)' = HistoryAt(j, p)
  BY DEF HistoryAt
<1>3. \A j \in Keys : \A x \in results'[Snapshot][j] :
          x \in results[Snapshot][j] \/ (j = k /\ x.val = val)
  BY <1>1, ReturnedEffect
<1>4. ASSUME snap.settled, snap.seq > 0, NEW j \in Keys, NEW x \in results'[Snapshot][j]
      PROVE  \E p \in 0 .. snap.seq : x.val = HistoryAt(j, p)
  <2>1. CASE x \in results[Snapshot][j]
    BY <1>4, <2>1 DEF SnapshotReadsSomePast
  <2>2. CASE j = k /\ x.val = val
    BY <1>4, <2>2
  <2> QED BY <1>3, <1>4, <2>1, <2>2
<1> QED BY <1>2, <1>4 DEF SnapshotReadsSomePast

LEMMA SnapshotStep ==
    ASSUME StoreInv, StoreInv', ReadersTyped, SnapshotInv, SnapshotReadsItsPast, [Next]_vars
    PROVE  ReadersTyped' /\ SnapshotInv' /\ SnapshotReadsItsPast'
<1>1. Snapshot \in Readers /\ Snapshot \notin Txns
  BY NobodyAssumption DEF Readers, Snapshot
<1>2. snap.seq \in Nat
  BY DEF SnapshotInv
<1>3. ASSUME UNCHANGED <<snap, reading[Snapshot], results[Snapshot]>>
      PROVE  SnapshotInv' /\ SnapshotReadsItsPast'
  <2>1. \A k \in Keys : snap.settled => HistoryAt(k, snap.seq)' = HistoryAt(k, snap.seq)
    BY <1>3, SnapshotKept
  <2>2. \A k \in Keys : Returned(Snapshot, k)' = Returned(Snapshot, k)
    BY <1>3 DEF Returned
  <2>3. SnapshotReadsExactly'
    BY <1>3, <2>1, <2>2, SnapshotParts DEF SnapshotReadsExactly
  <2>4. SnapshotReadsSomePast'
    <3>1. snap.settled => \A k \in Keys, p \in 0 .. snap.seq :
              HistoryAt(k, p)' = HistoryAt(k, p)
      BY <1>3, SnapshotKept
    <3> QED BY <1>3, <3>1, SnapshotParts DEF SnapshotReadsSomePast
  <2> QED BY <1>3, <2>3, <2>4, SnapshotKept, SnapshotParts, PTL
<1>4. CASE UNCHANGED <<reading, results, snap>>
  BY <1>3, <1>4 DEF ReadersTyped
<1>5. ASSUME NEW t \in Txns, NEW k \in Keys, GetChain(t, k) \/ GetLsm(t, k)
      PROVE  ReadersTyped' /\ SnapshotInv' /\ SnapshotReadsItsPast'
  <2>1. t \in Readers /\ t # Snapshot /\ UNCHANGED snap
    BY <1>1, <1>5 DEF Readers, GetChain, GetLsm, ReadChain, ReadLsm
  <2>2. ASSUME NEW val, NEW straight, Returns(t, k, val, straight)
        PROVE  results'[Snapshot] = results[Snapshot]
    BY <1>1, <2>1, <2>2, ReturnedEffect
  <2>3. CASE GetChain(t, k)
    <3>1. ReadChain(t, k, GetVisible(t, k))
      BY <2>3 DEF GetChain
    <3>2. ReadersTyped' /\ reading'[Snapshot] = reading[Snapshot]
      BY <1>1, <2>1, <3>1, ReadChainEffect
    <3>3. results'[Snapshot] = results[Snapshot]
      BY <2>1, <2>2, <3>1, ReadChainEffect
    <3> QED BY <1>3, <2>1, <3>2, <3>3
  <2>4. CASE GetLsm(t, k)
    <3>1. ReadLsm(t, k, LsmReadSeq(t))
      BY <2>4 DEF GetLsm
    <3>2. ReadersTyped' /\ reading'[Snapshot] = reading[Snapshot]
      BY <1>1, <2>1, <3>1, ReadLsmEffect
    <3>3. results'[Snapshot] = results[Snapshot]
      BY <2>1, <2>2, <3>1, ReadLsmEffect
    <3> QED BY <1>3, <2>1, <3>2, <3>3
  <2> QED BY <1>5, <2>3, <2>4
<1>6. CASE TakeSnapshot
  <2>1. /\ ~snap.taken /\ UNCHANGED <<reading, results, lastSeq, pc, commit>>
        /\ snap' = [seq |-> lastSeq, taken |-> TRUE,
                    settled |-> \A t \in Txns : pc[t] \notin {"logging", "synced"}]
    BY <1>6 DEF TakeSnapshot, observed, threads
  <2>2. lastSeq \in Nat
    BY DEF StoreInv, OrderInv, Typed
  <2>3. /\ reading'[Snapshot] = {} /\ \A k \in Keys : results'[Snapshot][k] = {}
        /\ snap'.seq = lastSeq /\ snap'.taken
        /\ snap'.settled => \A t \in Txns : ~Numbered(t)'
    BY <2>1 DEF SnapshotInv, Numbered
  <2>4. ReadersTyped'
    BY <2>1 DEF ReadersTyped
  <2>5. SnapshotInv'
    BY <2>1, <2>2, <2>3 DEF SnapshotInv
  <2>6. \A k \in Keys : Returned(Snapshot, k)' = {}
    BY <2>3 DEF Returned
  <2>7. \A k \in Keys : results'[Snapshot][k] = {}
    BY <2>3
  <2> QED BY <2>4, <2>5, <2>6, <2>7, Zenon DEF SnapshotReadsItsPast
<1>7. ASSUME NEW k \in Keys, SnapshotChain(k)
      PROVE  ReadersTyped' /\ SnapshotInv' /\ SnapshotReadsItsPast'
  <2> DEFINE old == {v \in CommittedOf(chain[k]) : v.seq <= snap.seq}
  <2>1. /\ ReadChain(Snapshot, k, Newest(old)) /\ snap.taken /\ reading[Snapshot] = {}
        /\ UNCHANGED <<snap, lastSeq, chain, history, pc, commit>>
    BY <1>7 DEF SnapshotChain, GetVisibleBySnapshot, ReadChain, storage, threads
  <2>2. \A j \in Keys : \A p : HistoryAt(j, p)' = HistoryAt(j, p)
    BY <2>1 DEF HistoryAt
  <2>3. ReadersTyped'
    BY <1>1, <2>1, ReadChainEffect
  <2>4. CASE Newest(old) = {} /\ reading'[Snapshot] = {k} /\ results' = results
    <3>1. old = {}
      BY <2>4, NewestInChain DEF StoreInv, OrderInv, Typed, CommittedOf
    <3>2. \A v \in CommittedOf(chain[k]) : snap.seq < v.seq
      <4>1. \A v \in CommittedOf(chain[k]) : v.seq \in Nat
        BY DEF CommittedOf, StoreInv, OrderInv, Typed, ChainsTyped, Version
      <4> QED BY <1>2, <3>1, <4>1
    <3>3. SnapshotInv'
      BY <2>1, <2>4, <3>2 DEF SnapshotInv, Numbered, CommittedOf
    <3>4. \A j \in Keys : Returned(Snapshot, j)' = Returned(Snapshot, j)
      BY <2>4 DEF Returned
    <3> QED BY <2>1, <2>2, <2>3, <2>4, <3>3, <3>4 DEF SnapshotReadsItsPast
  <2>5. CASE reading' = reading /\ \E v \in Newest(old) : Returns(Snapshot, k, v.val, TRUE)
    <3>1. PICK v \in Newest(old) : Returns(Snapshot, k, v.val, TRUE)
      BY <2>5
    <3>2. v.val = HistoryAt(k, snap.seq)
      BY <1>2, <3>1, VersionIsHistory
    <3>3. SnapshotInv'
      BY <2>1, <2>5 DEF SnapshotInv, Numbered, CommittedOf
    <3>4. /\ \A j \in Keys \ {k} : Returned(Snapshot, j)' = Returned(Snapshot, j)
          /\ Returned(Snapshot, k)' \subseteq Returned(Snapshot, k) \cup {v.val}
      BY <1>1, <3>1, ReturnedEffect
    <3>5. SnapshotReadsSomePast'
      <4>1. snap.seq \in 0 .. snap.seq
        BY <1>2
      <4> QED BY <2>1, <3>1, <3>2, <4>1, SomePastKept, SnapshotParts
    <3>6. SnapshotReadsExactly'
      BY <2>1, <2>2, <3>2, <3>4, SnapshotParts DEF SnapshotReadsExactly
    <3> QED BY <2>3, <3>3, <3>5, <3>6, SnapshotParts, PTL
  <2> QED BY <1>1, <2>1, <2>3, <2>4, <2>5, ReadChainEffect
<1>8. ASSUME NEW k \in Keys, SnapshotLsm(k)
      PROVE  ReadersTyped' /\ SnapshotInv' /\ SnapshotReadsItsPast'
  <2>1. /\ k \in reading[Snapshot] /\ ReadLsm(Snapshot, k, snap.seq)
        /\ UNCHANGED <<snap, lastSeq, chain, history, pc, commit>>
    BY <1>8 DEF SnapshotLsm, ReadLsm, storage, threads
  <2>2. \A j \in Keys : \A p : HistoryAt(j, p)' = HistoryAt(j, p)
    BY <2>1 DEF HistoryAt
  <2>3. /\ ReadersTyped' /\ reading'[Snapshot] = {}
        /\ Returns(Snapshot, k, LsmGet(k, snap.seq), Straight(k, snap.seq))
    BY <1>1, <2>1, ReadLsmEffect
  <2>4. snap.taken
    BY <2>1 DEF SnapshotInv
  <2>5. SnapshotInv'
    BY <2>1, <2>3, <2>4 DEF SnapshotInv, Numbered
  <2>6. ASSUME snap.settled, snap.seq > 0, Straight(k, snap.seq)
        PROVE  LsmGet(k, snap.seq) = HistoryAt(k, snap.seq)
    <3>1. \A v \in CommittedOf(chain[k]) : snap.seq < v.seq /\ v.seq \in Nat
      BY <2>1, <2>6 DEF SnapshotInv, CommittedOf, StoreInv, OrderInv, Typed, ChainsTyped,
                        Version
    <3>2. \A v \in CommittedOf(chain[k]) : ~(v.seq <= snap.seq)
      BY <1>2, <3>1
    <3> QED BY <1>2, <2>6, <3>2, LsmHasTheRest
  <2>7. /\ \A j \in Keys \ {k} : Returned(Snapshot, j)' = Returned(Snapshot, j)
        /\ Returned(Snapshot, k)' \subseteq
               Returned(Snapshot, k) \cup {LsmGet(k, snap.seq)}
        /\ ~Straight(k, snap.seq) => Returned(Snapshot, k)' \subseteq Returned(Snapshot, k)
    BY <1>1, <2>3, ReturnedEffect
  <2>8. SnapshotReadsSomePast'
    <3>1. snap.seq > 0 => \E p \in 0 .. snap.seq : LsmGet(k, snap.seq) = HistoryAt(k, p)
      BY <1>2, LsmIsSomePast
    <3> QED BY <2>1, <2>3, <3>1, SomePastKept, SnapshotParts
  <2>9. SnapshotReadsExactly'
    BY <2>1, <2>2, <2>6, <2>7, SnapshotParts DEF SnapshotReadsExactly
  <2> QED BY <2>3, <2>5, <2>8, <2>9, SnapshotParts, PTL
<1> QED BY <1>4, <1>5, <1>6, <1>7, <1>8, ReaderSteps

LEMMA SnapshotStart == Init => ReadersTyped /\ SnapshotInv /\ SnapshotReadsItsPast
<1> SUFFICES ASSUME Init PROVE ReadersTyped /\ SnapshotInv /\ SnapshotReadsItsPast
    OBVIOUS
<1>1. Snapshot \in Readers
  BY DEF Readers
<1>2. ReadersTyped
  BY DEF Init, ReadersTyped
<1>3. /\ reading[Snapshot] = {} /\ \A k \in Keys : results[Snapshot][k] = {}
      /\ snap = [seq |-> 0, taken |-> FALSE, settled |-> FALSE]
      /\ lastSeq \in Nat
  BY <1>1, BoundsAssumption DEF Init
<1> QED BY <1>2, <1>3 DEF SnapshotInv, SnapshotReadsItsPast

\* A snapshot reads what was committed up to its number, whatever is committed,
\* flushed (FlushCommittedToLSM) and collected (GarbageCollect) after it was taken.
THEOREM SnapshotsReadThePast ==
    ASSUME MaxWrites <= 1
    PROVE  Spec => []SnapshotReadsItsPast
<1> DEFINE Inv == StoreInv /\ ReadersTyped /\ SnapshotInv /\ SnapshotReadsItsPast
<1>1. Init => Inv
  BY StoreInit, SnapshotStart
<1>2. Inv /\ [Next]_vars => Inv'
  BY StoreStep, SnapshotStep
<1> QED BY <1>1, <1>2, PTL DEF Spec

-----------------------------------------------------------------------------
(* Reads under a lock. *)

\* Who waits for the LSM tree stays where it is, and who lives keeps its locks.
LEMMA LiveKeepsLocks ==
    ASSUME Typed, [Next]_vars, NEW t \in Txns
    PROVE  /\ pc'[t] \in Before => pc[t] \in Before
           /\ pc'[t] \in Live =>
                  /\ pc[t] \in Live \cup Before
                  /\ \A k \in Keys : owner[k] = t => owner'[k] = t
           /\ reading[t] # {} /\ pc[t] = "running" =>
                  /\ pc'[t] = "running"
                  /\ \A k \in Keys : owner'[k] = t => owner[k] = t
<1> USE DEF Typed, Before, Beginning, Live
<1>1. ASSUME NEW u \in Txns,
             BeginId(u) \/ BeginInsert(u) \/ BeginView(u) \/ BeginLimit(u) \/ BeginSeq(u)
      PROVE  /\ UNCHANGED owner /\ \A w \in Txns \ {u} : pc'[w] = pc[w]
             /\ pc[u] \in Before /\ pc'[u] \in Before \cup {"running"}
  BY <1>1 DEF BeginId, BeginInsert, BeginView, BeginLimit, BeginSeq, Step
<1>2. ASSUME NEW u \in Txns, NEW k \in Keys, Lock(u, k)
      PROVE  UNCHANGED pc /\ reading[u] = {} /\ owner[k] = Nobody
             /\ owner' = [owner EXCEPT ![k] = u]
  BY <1>2 DEF Lock, Ready
<1>3. ASSUME NEW u \in Txns, NEW k \in Keys, NEW kind,
             GetChain(u, k) \/ GetLsm(u, k) \/ Log(u, k) \/ Write(u, k, kind)
      PROVE  UNCHANGED <<pc, owner>>
  BY <1>3 DEF GetChain, GetLsm, ReadChain, ReadLsm, Log, Write, threads
<1>4. ASSUME NEW u \in Txns, Prepare(u) \/ SyncLog(u) \/ Mark(u) \/ Rollback(u) \/ Leave(u)
      PROVE  /\ UNCHANGED owner /\ \A w \in Txns \ {u} : pc'[w] = pc[w]
             /\ pc'[u] \in {"logging", "synced", "marked", "leaving"}
             /\ pc'[u] \in Live => pc[u] \in Live
             /\ pc[u] = "running" => reading[u] = {}
  BY <1>4 DEF Prepare, SyncLog, Mark, Rollback, Leave, Step, Ready
<1>5. ASSUME NEW u \in Txns, Unlock(u)
      PROVE  /\ \A w \in Txns \ {u} : pc'[w] = pc[w]
             /\ pc[u] = "leaving" /\ pc'[u] = "done"
             /\ \A k \in Keys : owner'[k] = IF owner[k] = u THEN Nobody ELSE owner[k]
  BY <1>5 DEF Unlock, Step
<1>6. ASSUME \/ TakeSnapshot \/ \E k \in Keys : SnapshotChain(k) \/ SnapshotLsm(k)
             \/ FlushPick \/ FlushFails \/ MarkFlushed \/ RunGC
             \/ \E i \in flush.items : FlushItem(i)
             \/ SwitchMemTable \/ FlushMemTable \/ UNCHANGED vars
      PROVE  UNCHANGED <<pc, owner>>
  BY <1>6 DEF TakeSnapshot, SnapshotChain, SnapshotLsm, ReadChain, ReadLsm, FlushPick,
              FlushFails, MarkFlushed, RunGC, FlushItem, SwitchMemTable, FlushMemTable,
              vars, threads
<1>7. CASE UNCHANGED <<pc, owner>>
  BY <1>7
<1>8. ASSUME NEW u \in Txns,
             BeginId(u) \/ BeginInsert(u) \/ BeginView(u) \/ BeginLimit(u) \/ BeginSeq(u)
      PROVE  /\ pc'[t] \in Before => pc[t] \in Before
             /\ pc'[t] \in Live =>
                    /\ pc[t] \in Live \cup Before
                    /\ \A k \in Keys : owner[k] = t => owner'[k] = t
             /\ reading[t] # {} /\ pc[t] = "running" =>
                    /\ pc'[t] = "running"
                    /\ \A k \in Keys : owner'[k] = t => owner[k] = t
  BY <1>1, <1>8
<1>9. ASSUME NEW u \in Txns, NEW k \in Keys, Lock(u, k)
      PROVE  /\ \A j \in Keys : owner[j] = t => owner'[j] = t
             /\ reading[t] # {} => \A j \in Keys : owner'[j] = t => owner[j] = t
             /\ pc'[t] = pc[t]
  BY <1>2, <1>9, NobodyAssumption
<1>10. ASSUME NEW u \in Txns, Prepare(u) \/ SyncLog(u) \/ Mark(u) \/ Rollback(u) \/ Leave(u)
       PROVE  /\ pc'[t] \in Before => pc[t] \in Before
              /\ pc'[t] \in Live => pc[t] \in Live
              /\ reading[t] # {} /\ pc[t] = "running" => pc'[t] = "running"
              /\ UNCHANGED owner
  BY <1>4, <1>10
<1>11. ASSUME NEW u \in Txns, Unlock(u)
       PROVE  /\ pc'[t] \in Before => pc[t] \in Before
              /\ pc'[t] \in Live =>
                     pc[t] \in Live /\ \A k \in Keys : owner[k] = t => owner'[k] = t
              /\ reading[t] # {} /\ pc[t] = "running" =>
                     /\ pc'[t] = "running"
                     /\ \A k \in Keys : owner'[k] = t => owner[k] = t
  BY <1>5, <1>11, NobodyAssumption
<1> QED
  BY <1>3, <1>6, <1>7, <1>8, <1>9, <1>10, <1>11 DEF Next

\* What a transaction read under a lock stays true while others step.
LEMMA LockedReadsKept ==
    ASSUME StoreInv, StoreInv', [Next]_vars, NEW t \in Txns, LockedReadsOf(t),
           UNCHANGED <<reading[t], results[t]>>
    PROVE  LockedReadsOf(t)'
<1> USE DEF LockedReadsOf
<1>1. Typed
  BY DEF StoreInv, OrderInv
<1>2. /\ reading'[t] # {} => pc'[t] = "running"
      /\ pc'[t] \in Before => \A k \in Keys : results'[t][k] = {}
  BY <1>1, LiveKeepsLocks
<1>3. ASSUME Isolation[t] = "RC", NEW k \in Keys, k \in reading[t], owner'[k] = t
      PROVE  CommittedOf(chain'[k]) = {}
  <2>1. pc[t] = "running" /\ owner[k] = t
    BY <1>1, <1>3, LiveKeepsLocks
  <2>2. CommittedOf(chain[k]) = {}
    BY <1>3, <2>1
  <2>3. \A u \in Txns : ~Marks(u, k)
    BY <2>1 DEF Marks, Committing, Numbered
  <2> QED BY <2>2, <2>3, GrowsByCommits
<1>4. ASSUME Isolation[t] = "RC", NEW k \in Keys, pc'[t] \in Live,
             NEW x \in results[t][k], x.locked
      PROVE  owner'[k] = t /\ x.val = HistoryAt(k, lastSeq)'
  <2>1. pc[t] \in Live /\ owner[k] = t /\ owner'[k] = t
    BY <1>1, <1>4, LiveKeepsLocks
  <2>2. x.val = HistoryAt(k, lastSeq)
    BY <1>4, <2>1
  <2>3. \A u \in Txns : ~Marks(u, k)
    BY <1>4, <2>1 DEF Marks, Committing, Live
  <2>4. history'[k] = history[k]
    BY <2>3, GrowsByCommits
  <2>5. PICK p \in Nat, q \in Nat : p = lastSeq' /\ q = lastSeq
    BY DEF StoreInv, OrderInv, Typed
  <2>6. {e \in history'[k] : e.seq <= p} = {e \in history[k] : e.seq <= q}
    <3>1. \A e \in history[k] : e.seq <= lastSeq
      BY DEF StoreInv, HistoryNumbers
    <3>2. \A e \in history'[k] : e.seq <= lastSeq'
      BY DEF StoreInv, HistoryNumbers
    <3> QED BY <2>4, <2>5, <3>1, <3>2
  <2>7. HistoryAt(k, p)' = HistoryAt(k, q)
    BY <2>6, HistoryAtKept
  <2> QED BY <2>1, <2>2, <2>5, <2>7
<1> QED BY <1>2, <1>3, <1>4

\* A read-committed transaction sees the committed versions of a key, as long as
\* it has not written the key itself.
LEMMA VisibleIsCommitted ==
    ASSUME Typed, NEW t \in Txns, Isolation[t] = "RC", NEW k \in Keys
    PROVE  /\ CommittedOf(chain[k]) \subseteq {v \in chain[k] : IsVisible(t, v)}
           /\ k \notin Touched(t) =>
                  {v \in chain[k] : IsVisible(t, v)} = CommittedOf(chain[k])
<1>1. CommittedOf(chain[k]) \subseteq {v \in chain[k] : IsVisible(t, v)}
  BY DEF CommittedOf, IsVisible
<1>2. ASSUME k \notin Touched(t), NEW v \in chain[k], IsVisible(t, v)
      PROVE  v \in CommittedOf(chain[k])
  <2>1. v \notin ActiveOf(t, k)
    BY <1>2 DEF Touched
  <2>2. v.state \in {"Active", "Committed", "Aborted"}
    BY DEF Typed, ChainsTyped, Version, State
  <2> QED BY <1>2, <2>1, <2>2 DEF ActiveOf, CommittedOf, IsVisible
<1> QED BY <1>1, <1>2

LEMMA LockedReadsGet ==
    ASSUME StoreInv, ReadersTyped, NEW t \in Txns, LockedReadsOf(t), NEW k \in Keys,
           GetChain(t, k)
    PROVE  LockedReadsOf(t)'
<1> USE DEF LockedReadsOf
<1> DEFINE shown == {v \in chain[k] : IsVisible(t, v)}
<1>1. /\ ReadChain(t, k, Newest(shown)) /\ pc[t] = "running" /\ reading[t] = {}
      /\ UNCHANGED <<snap, lastSeq, chain, history, pc, owner>>
  BY DEF GetChain, GetVisible, Ready, ReadChain, storage, threads
<1>2. t \in Readers /\ "running" \notin Before /\ Typed
  BY DEF Readers, Before, Beginning, StoreInv, OrderInv
<1>3. \A j \in Keys : HistoryAt(j, lastSeq)' = HistoryAt(j, lastSeq)
  BY <1>1 DEF HistoryAt
<1>4. \A j \in Keys : CommittedOf(chain'[j]) = CommittedOf(chain[j])
  BY <1>1
<1>5. CASE Newest(shown) = {} /\ reading'[t] = {k} /\ results' = results
  <2>1. ASSUME Isolation[t] = "RC" PROVE CommittedOf(chain[k]) = {}
    <3>1. shown = {}
      BY <1>2, <1>5, NewestInChain DEF Typed
    <3> QED BY <1>2, <2>1, <3>1, VisibleIsCommitted
  <2> QED BY <1>1, <1>2, <1>3, <1>4, <1>5, <2>1
<1>6. CASE reading' = reading /\ \E v \in Newest(shown) : Returns(t, k, v.val, TRUE)
  <2>1. PICK v \in Newest(shown) : Returns(t, k, v.val, TRUE)
    BY <1>6
  <2>2. \A j \in Keys : \A x \in results'[t][j] :
            x \in results[t][j] \/ (j = k /\ Recorded(t, k) /\ x.val = v.val)
    <3>1. PICK val, straight : val = v.val /\ Returns(t, k, val, straight)
      BY <2>1
    <3> QED BY <1>2, <3>1, ReturnedEffect
  <2>3. ASSUME Isolation[t] = "RC", Recorded(t, k)
        PROVE  owner[k] = t /\ v.val = HistoryAt(k, lastSeq)
    <3>1. owner[k] = t /\ k \notin Touched(t)
      BY <2>3 DEF Recorded
    <3>2. v \in Newest(CommittedOf(chain[k]))
      BY <1>2, <2>1, <2>3, <3>1, VisibleIsCommitted
    <3>3. {w \in CommittedOf(chain[k]) : w.seq <= lastSeq} = CommittedOf(chain[k])
      BY DEF StoreInv, OrderInv, NumbersDrawn
    <3>4. lastSeq \in Nat
      BY <1>2 DEF Typed
    <3> QED BY <3>1, <3>2, <3>3, <3>4, VersionIsHistory
  <2>4. reading'[t] = {} /\ pc'[t] = "running"
    BY <1>1, <1>6
  <2>5. ASSUME Isolation[t] = "RC", NEW j \in Keys, NEW x \in results'[t][j], x.locked
        PROVE  owner'[j] = t /\ x.val = HistoryAt(j, lastSeq)'
    <3>1. CASE x \in results[t][j]
      <4>1. owner[j] = t /\ x.val = HistoryAt(j, lastSeq)
        BY <1>1, <2>5, <3>1 DEF Live
      <4> QED BY <1>1, <1>3, <4>1
    <3>2. CASE j = k /\ Recorded(t, k) /\ x.val = v.val
      <4>1. owner[j] = t /\ x.val = HistoryAt(j, lastSeq)
        BY <2>3, <2>5, <3>2
      <4> QED BY <1>1, <1>3, <4>1
    <3> QED BY <2>2, <3>1, <3>2
  <2>6. /\ reading'[t] # {} => pc'[t] = "running"
        /\ pc'[t] \in Before => \A j \in Keys : results'[t][j] = {}
        /\ Isolation[t] = "RC" => \A j \in Keys :
               j \in reading'[t] /\ owner'[j] = t => CommittedOf(chain'[j]) = {}
    BY <1>2, <2>4
  <2>7. Isolation[t] = "RC" /\ pc'[t] \in Live => \A j \in Keys : \A x \in results'[t][j] :
            x.locked => owner'[j] = t /\ x.val = HistoryAt(j, lastSeq)'
    BY <2>5
  <2> QED BY <2>6, <2>7, Zenon
<1>7. \/ Newest(shown) = {} /\ reading'[t] = {k} /\ results' = results
      \/ reading' = reading /\ \E v \in Newest(shown) : Returns(t, k, v.val, TRUE)
  <2> HIDE DEF shown, LockedReadsOf
  <2> QED BY <1>1, <1>2, ReadChainEffect
<1> QED BY <1>5, <1>6, <1>7

LEMMA LockedReadsLsm ==
    ASSUME StoreInv, ReadersTyped, NEW t \in Txns, LockedReadsOf(t), NEW k \in Keys,
           GetLsm(t, k)
    PROVE  LockedReadsOf(t)'
<1> USE DEF LockedReadsOf
<1> DEFINE val == LsmGet(k, LsmReadSeq(t))
<1>1. /\ ReadLsm(t, k, LsmReadSeq(t)) /\ k \in reading[t]
      /\ UNCHANGED <<snap, lastSeq, chain, history, pc, owner>>
  BY DEF GetLsm, ReadLsm, storage, threads
<1>2. t \in Readers /\ pc[t] = "running" /\ "running" \notin Before /\ lastSeq \in Nat
  BY <1>1 DEF Readers, Before, Beginning, StoreInv, OrderInv, Typed
<1>3. \A j \in Keys : HistoryAt(j, lastSeq)' = HistoryAt(j, lastSeq)
  BY <1>1 DEF HistoryAt
<1>4. Returns(t, k, val, Straight(k, LsmReadSeq(t))) /\ reading'[t] = {}
  BY <1>1, <1>2, ReadLsmEffect
<1>5. \A j \in Keys : \A x \in results'[t][j] :
          x \in results[t][j] \/ (j = k /\ Recorded(t, k) /\ x.val = val)
  <2> HIDE DEF val
  <2> QED BY <1>2, <1>4, ReturnedEffect
<1>6. ASSUME Isolation[t] = "RC", Recorded(t, k)
      PROVE  owner[k] = t /\ val = HistoryAt(k, lastSeq)
  <2>1. owner[k] = t /\ CommittedOf(chain[k]) = {}
    BY <1>1, <1>6 DEF Recorded
  <2>2. LsmGet(k, lastSeq) = HistoryAt(k, lastSeq)
    BY <1>2, <2>1, LsmHasAll
  <2> QED BY <1>6, <2>1, <2>2 DEF LsmReadSeq
<1> HIDE DEF val
<1> QED BY <1>1, <1>2, <1>3, <1>4, <1>5, <1>6

\* A step that does not read for t leaves its reads alone.
LEMMA OthersRead ==
    ASSUME ReadersTyped, [Next]_vars, NEW t \in Txns,
           \A k \in Keys : ~GetChain(t, k) /\ ~GetLsm(t, k)
    PROVE  UNCHANGED <<reading[t], results[t]>>
<1>1. t \in Readers /\ Snapshot \in Readers /\ t # Snapshot
  BY NobodyAssumption DEF Readers, Snapshot
<1>2. ASSUME NEW r \in Readers \ {t}, NEW k \in Keys, NEW found, ReadChain(r, k, found),
             UNCHANGED snap
      PROVE  UNCHANGED <<reading[t], results[t]>>
  <2>1. reading'[t] = reading[t]
    BY <1>1, <1>2, ReadChainEffect
  <2>2. results' = results \/ \E v \in found : Returns(r, k, v.val, TRUE)
    BY <1>2, ReadChainEffect
  <2>3. results'[t] = results[t]
    BY <1>1, <2>2, ReturnedEffect
  <2> QED BY <2>1, <2>3
<1>3. ASSUME NEW r \in Readers \ {t}, NEW k \in Keys, NEW seq, ReadLsm(r, k, seq),
             UNCHANGED snap
      PROVE  UNCHANGED <<reading[t], results[t]>>
  <2>1. reading'[t] = reading[t] /\ Returns(r, k, LsmGet(k, seq), Straight(k, seq))
    BY <1>1, <1>3, ReadLsmEffect
  <2>2. results'[t] = results[t]
    BY <1>1, <2>1, ReturnedEffect
  <2> QED BY <2>1, <2>2
<1>4. ASSUME NEW u \in Txns \ {t}, NEW k \in Keys, GetChain(u, k) \/ GetLsm(u, k)
      PROVE  UNCHANGED <<reading[t], results[t]>>
  <2>1. u \in Readers \ {t} /\ UNCHANGED snap
    BY <1>4 DEF Readers, GetChain, GetLsm, ReadChain, ReadLsm
  <2>2. ReadChain(u, k, GetVisible(u, k)) \/ ReadLsm(u, k, LsmReadSeq(u))
    BY <1>4 DEF GetChain, GetLsm
  <2> QED BY <1>2, <1>3, <2>1, <2>2
<1>5. ASSUME NEW k \in Keys, SnapshotChain(k) \/ SnapshotLsm(k)
      PROVE  UNCHANGED <<reading[t], results[t]>>
  <2>1. UNCHANGED snap
    BY <1>5 DEF SnapshotChain, SnapshotLsm, ReadChain, ReadLsm
  <2>2. \/ ReadChain(Snapshot, k, GetVisibleBySnapshot(k, snap.seq))
        \/ ReadLsm(Snapshot, k, snap.seq)
    BY <1>5 DEF SnapshotChain, SnapshotLsm
  <2> QED BY <1>1, <1>2, <1>3, <2>1, <2>2
<1>6. CASE TakeSnapshot \/ UNCHANGED <<reading, results, snap>>
  BY <1>6 DEF TakeSnapshot, observed
<1> QED BY <1>4, <1>5, <1>6, ReaderSteps

LEMMA LockedReadsStep ==
    ASSUME StoreInv, StoreInv', ReadersTyped, [Next]_vars, NEW t \in Txns, LockedReadsOf(t)
    PROVE  LockedReadsOf(t)'
<1>1. ASSUME NEW k \in Keys, GetChain(t, k) \/ GetLsm(t, k) PROVE LockedReadsOf(t)'
  BY <1>1, LockedReadsGet, LockedReadsLsm
<1>2. CASE UNCHANGED <<reading[t], results[t]>>
  BY <1>2, LockedReadsKept
<1> QED BY <1>1, <1>2, OthersRead

\* What GetForUpdate returned to a read-committed transaction is still the latest
\* commit to the key when the transaction marks its own: no update is lost.
THEOREM LockedReadsStayLatest ==
    ASSUME MaxWrites <= 1
    PROVE  Spec => []LockedReadsLatest
<1> DEFINE Inv == /\ StoreInv /\ ReadersTyped /\ SnapshotInv /\ SnapshotReadsItsPast
                  /\ \A t \in Txns : LockedReadsOf(t)
<1>1. Init => Inv
  <2> SUFFICES ASSUME Init
               PROVE  /\ ReadersTyped /\ SnapshotInv /\ SnapshotReadsItsPast
                      /\ \A t \in Txns : LockedReadsOf(t)
      BY StoreInit
  <2>1. \A r \in Readers : reading[r] = {} /\ \A k \in Keys : results[r][k] = {}
    BY DEF Init
  <2>2. ASSUME NEW t \in Txns PROVE LockedReadsOf(t)
    <3>1. reading[t] = {} /\ \A k \in Keys : results[t][k] = {}
      BY <2>1 DEF Readers
    <3> QED BY <3>1 DEF LockedReadsOf
  <2> QED BY <2>2, SnapshotStart
<1>2. Inv /\ [Next]_vars => Inv'
  BY StoreStep, SnapshotStep, LockedReadsStep
<1>3. Inv => LockedReadsLatest
  BY DEF LockedReadsLatest, LockedReadsOf, Live
<1> QED BY <1>1, <1>2, <1>3, PTL DEF Spec

-----------------------------------------------------------------------------
(* Repeatable reads of a transaction that began alone. *)

Ended == {"marked", "leaving", "done"}
View == [active : SUBSET Txns, up : Nat, seq : Nat, quiet : BOOLEAN]

\* Ids are given in order, and a committed version is of a transaction that has
\* left the list of active ones or is about to.
ViewsInv ==
    /\ lastId \in Nat /\ id \in [Txns -> Nat] /\ view \in [Txns -> View]
    /\ active \subseteq Txns
    /\ \A t \in Txns :
        /\ id[t] <= lastId
        /\ pc[t] = "idle" => ~view[t].quiet
        /\ t \in active => pc[t] \notin {"idle", "leaving", "done"}
    /\ \A k \in Keys : \A v \in CommittedOf(chain[k]) : pc[v.txn] \in Ended

(***************************************************************************)
(* Who begins alone finds nobody active, the next id after its own and a   *)
(* number that all commits of older transactions are below.  Transactions  *)
(* that begin later have greater ids and draw greater numbers: what the    *)
(* view shows in the chain is what the number shows in the LSM tree.       *)
(***************************************************************************)
QuietView(t) ==
    /\ pc[t] \in Beginning =>
           lastId = id[t] /\ \A w \in Txns \ {t} : Settled(w)
    /\ pc[t] \notin {"idle", "insert", "view"} => view[t].active \subseteq {t}
    /\ pc[t] \notin {"idle", "insert", "view", "limit"} => view[t].up = id[t] + 1
    /\ pc[t] \notin Before =>
        /\ view[t].seq <= lastSeq
        /\ \A w \in Txns \ {t} : id[w] <= id[t] => Settled(w)
        /\ \A w \in Txns : Numbered(w) => view[t].seq < commit[w].seq
        /\ \A k \in Keys : \A v \in CommittedOf(chain[k]) :
               v.txn # t => (id[v.txn] <= id[t] <=> v.seq <= view[t].seq)

QuietReads(t) ==
    pc[t] \notin Before => \A k \in Keys :
        /\ k \in reading[t] => \A v \in CommittedOf(chain[k]) : view[t].seq < v.seq
        /\ view[t].seq > 0 => Returned(t, k) \subseteq {HistoryAt(k, view[t].seq)}

QuietOf(t) == Isolation[t] = "RR" /\ view[t].quiet => QuietView(t) /\ QuietReads(t)

\* A step of Begin changes the view of its transaction, or ends that nobody
\* else lived while another one began.
BeginMove(t) ==
    BeginId(t) \/ BeginInsert(t) \/ BeginView(t) \/ BeginLimit(t) \/ BeginSeq(t)

OtherMove ==
    /\ UNCHANGED <<lastId, id, view>> /\ active' \subseteq active
    /\ \A t \in Txns :
        /\ pc[t] \in Before => pc'[t] = pc[t]
        /\ pc[t] \notin Before => pc'[t] \notin Before
        /\ pc[t] \in Ended => pc'[t] \in Ended
        /\ pc[t] = "done" => pc'[t] = "done"
        /\ t \in active' /\ pc[t] \notin {"leaving", "done"} => pc'[t] \notin {"leaving", "done"}

LEMMA BeginOrOther ==
    ASSUME Typed, [Next]_vars
    PROVE  OtherMove \/ \E t \in Txns : BeginMove(t)
<1> SUFFICES ASSUME \A t \in Txns : ~BeginMove(t) PROVE OtherMove
    OBVIOUS
<1> USE DEF Typed, Before, Beginning, Ended
<1>1. ASSUME UNCHANGED <<lastId, id, view, active, pc>> PROVE OtherMove
  BY <1>1 DEF OtherMove
<1>2. ASSUME NEW t \in Txns, NEW k \in Keys, NEW kind,
             Lock(t, k) \/ GetChain(t, k) \/ GetLsm(t, k) \/ Log(t, k) \/ Write(t, k, kind)
      PROVE  UNCHANGED <<lastId, id, view, active, pc>>
  BY <1>2 DEF Lock, GetChain, GetLsm, ReadChain, ReadLsm, Log, Write, threads
<1>3. ASSUME \/ TakeSnapshot \/ \E k \in Keys : SnapshotChain(k) \/ SnapshotLsm(k)
             \/ FlushPick \/ FlushFails \/ MarkFlushed \/ RunGC
             \/ \E i \in flush.items : FlushItem(i)
             \/ SwitchMemTable \/ FlushMemTable \/ UNCHANGED vars
      PROVE  UNCHANGED <<lastId, id, view, active, pc>>
  BY <1>3 DEF TakeSnapshot, SnapshotChain, SnapshotLsm, ReadChain, ReadLsm, FlushPick,
              FlushFails, MarkFlushed, RunGC, FlushItem, SwitchMemTable, FlushMemTable,
              vars, threads
<1>4. ASSUME NEW t \in Txns, Prepare(t) \/ SyncLog(t) \/ Mark(t) \/ Rollback(t)
      PROVE  OtherMove
  <2>1. /\ UNCHANGED <<lastId, id, view, active>>
        /\ \A w \in Txns \ {t} : pc'[w] = pc[w]
        /\ pc[t] \in {"running", "logging", "synced"}
        /\ pc'[t] \in {"logging", "synced", "marked"}
    BY <1>4 DEF Prepare, SyncLog, Mark, Rollback, Step, Ready
  <2> QED BY <2>1 DEF OtherMove
<1>5. ASSUME NEW t \in Txns, Leave(t) PROVE OtherMove
  <2>1. /\ UNCHANGED <<lastId, id, view>> /\ active' = active \ {t}
        /\ \A w \in Txns \ {t} : pc'[w] = pc[w]
        /\ pc[t] = "marked" /\ pc'[t] = "leaving"
    BY <1>5 DEF Leave, Step
  <2> QED BY <2>1 DEF OtherMove
<1>6. ASSUME NEW t \in Txns, Unlock(t) PROVE OtherMove
  <2>1. /\ UNCHANGED <<lastId, id, view, active>>
        /\ \A w \in Txns \ {t} : pc'[w] = pc[w]
        /\ pc[t] = "leaving" /\ pc'[t] = "done"
    BY <1>6 DEF Unlock, Step
  <2> QED BY <2>1 DEF OtherMove
<1> QED BY <1>1, <1>2, <1>3, <1>4, <1>5, <1>6 DEF Next, BeginMove

\* What the steps of Begin do.
LEMMA BeginEffect ==
    ASSUME Typed, ViewsInv, NEW u \in Txns, BeginMove(u)
    PROVE  /\ UNCHANGED <<lastSeq, chain, history, commit, reading, results, owner>>
           /\ view' \in [Txns -> View] /\ id' \in [Txns -> Nat] /\ lastId' \in Nat
           /\ active' \subseteq active \cup {u}
           /\ pc[u] \in Before /\ pc'[u] \in Beginning \cup {"running"}
           /\ \A w \in Txns \ {u} : pc'[w] = pc[w] /\ id'[w] = id[w]
<1> USE DEF Before, Beginning
<1>1. /\ view \in [Txns -> View] /\ id \in [Txns -> Nat] /\ lastId \in Nat
      /\ lastSeq \in Nat /\ active \subseteq Txns /\ lastId + 1 \in Nat
  BY DEF ViewsInv, Typed
<1>2. /\ UNCHANGED <<lastSeq, chain, history, commit, reading, results, owner>>
      /\ pc[u] \in Before /\ pc'[u] \in Beginning \cup {"running"}
      /\ \A w \in Txns \ {u} : pc'[w] = pc[w]
  BY DEF Typed, storage, observed, BeginMove, BeginId, BeginInsert, BeginView, BeginLimit,
         BeginSeq, Step
<1>3. /\ active' \subseteq active \cup {u} /\ id' \in [Txns -> Nat] /\ lastId' \in Nat
      /\ \A w \in Txns \ {u} : id'[w] = id[w]
  BY <1>1 DEF BeginMove, BeginId, BeginInsert, BeginView, BeginLimit, BeginSeq
<1>4. view' \in [Txns -> View]
  <2>1. CASE BeginId(u)
    <3> DEFINE alone(w) == IF w = u THEN \A x \in Txns \ {u} : Settled(x)
                           ELSE view[w].quiet /\ pc[w] \notin Beginning
    <3>1. view' = [w \in Txns |-> [view[w] EXCEPT !.quiet = alone(w)]]
      BY <2>1 DEF BeginId
    <3>2. \A w \in Txns : alone(w) \in BOOLEAN
      OBVIOUS
    <3>3. \A r \in View, b \in BOOLEAN : [r EXCEPT !.quiet = b] \in View
      BY DEF View
    <3> HIDE DEF alone, View
    <3> QED BY <1>1, <3>1, <3>2, <3>3
  <2>2. CASE BeginInsert(u)
    BY <1>1, <2>2 DEF BeginInsert
  <2>3. CASE BeginView(u)
    BY <1>1, <2>3 DEF BeginView, View
  <2>4. CASE BeginLimit(u)
    BY <1>1, <2>4 DEF BeginLimit, View
  <2>5. CASE BeginSeq(u)
    BY <1>1, <2>5 DEF BeginSeq, View
  <2> QED BY <2>1, <2>2, <2>3, <2>4, <2>5 DEF BeginMove
<1> QED BY <1>2, <1>3, <1>4

LEMMA ViewsKept ==
    ASSUME StoreInv, ViewsInv, [Next]_vars
    PROVE  ViewsInv'
<1> USE DEF Before, Beginning, Ended
<1>1. Typed /\ \A k \in Keys : \A v \in CommittedOf(chain[k]) : v.txn \in Txns
  BY DEF StoreInv, OrderInv, Typed, ChainsTyped, Version, CommittedOf
<1>2. ASSUME \A t \in Txns : pc[t] \in Ended => pc'[t] \in Ended
      PROVE  \A k \in Keys : \A v \in CommittedOf(chain'[k]) : pc'[v.txn] \in Ended
  <2> TAKE k \in Keys
  <2> TAKE w \in CommittedOf(chain'[k])
  <2>1. CASE \E v \in CommittedOf(chain[k]) : w.seq = v.seq /\ w.txn = v.txn
    BY <1>1, <1>2, <2>1 DEF ViewsInv
  <2>2. CASE \E t \in Txns : Marks(t, k) /\ w.seq = commit[t].seq /\ w.txn = t
    BY <2>2 DEF Marks
  <2> QED BY <2>1, <2>2, GrowsByCommits
<1>3. CASE OtherMove
  <2>1. \A t \in Txns : pc[t] \in Ended => pc'[t] \in Ended
    BY <1>3 DEF OtherMove
  <2>2. \A t \in Txns : /\ id'[t] <= lastId' /\ (pc'[t] = "idle" => ~view'[t].quiet)
                       /\ t \in active' => pc'[t] \notin {"idle", "leaving", "done"}
    BY <1>3 DEF OtherMove, ViewsInv
  <2> QED BY <1>2, <1>3, <2>1, <2>2 DEF OtherMove, ViewsInv
<1>4. ASSUME NEW u \in Txns, BeginMove(u) PROVE ViewsInv'
  <2>1. /\ view' \in [Txns -> View] /\ id' \in [Txns -> Nat] /\ lastId' \in Nat
        /\ active' \subseteq active \cup {u}
        /\ pc[u] \in Before /\ pc'[u] \in Beginning \cup {"running"}
        /\ \A w \in Txns \ {u} : pc'[w] = pc[w] /\ id'[w] = id[w]
    BY <1>1, <1>4, BeginEffect
  <2>2. \A t \in Txns : pc[t] \in Ended => pc'[t] \in Ended
    BY <2>1
  <2>3. \A t \in Txns : id'[t] <= lastId'
    <3>1. /\ lastId \in Nat /\ id \in [Txns -> Nat]
          /\ \A t \in Txns : id[t] <= lastId
      BY DEF ViewsInv
    <3>2. CASE BeginId(u)
      BY <3>1, <3>2 DEF BeginId
    <3>3. CASE UNCHANGED <<id, lastId>>
      BY <3>1, <3>3
    <3> QED BY <1>4, <3>2, <3>3 DEF BeginMove, BeginInsert, BeginView, BeginLimit, BeginSeq
  <2>4. ASSUME NEW t \in Txns, pc'[t] = "idle" PROVE ~view'[t].quiet
    <3>1. t # u /\ pc[t] = "idle" /\ ~view[t].quiet
      BY <2>1, <2>4 DEF ViewsInv
    <3>2. view'[t] = view[t] \/ BeginId(u)
      BY <1>4, <3>1 DEF BeginMove, BeginInsert, BeginView, BeginLimit, BeginSeq, ViewsInv
    <3>3. BeginId(u) => ~view'[t].quiet
      BY <3>1 DEF BeginId, ViewsInv, View
    <3> QED BY <3>1, <3>2, <3>3
  <2>5. \A t \in Txns : t \in active' => pc'[t] \notin {"idle", "leaving", "done"}
    BY <2>1 DEF ViewsInv
  <2>6. active' \subseteq Txns
    BY <2>1 DEF ViewsInv
  <2> QED BY <1>2, <2>1, <2>2, <2>3, <2>4, <2>5, <2>6 DEF ViewsInv
<1> QED BY <1>1, <1>3, <1>4, BeginOrOther

\* A transaction that begins while t begins ends that t began alone, and one that
\* begins later is newer than t.
LEMMA QuietBesideBegin ==
    ASSUME StoreInv, ViewsInv, NEW t \in Txns, NEW u \in Txns \ {t}, BeginMove(u),
           QuietOf(t)
    PROVE  QuietOf(t)'
<1> USE DEF Before, Beginning, Ended
<1>1. /\ UNCHANGED <<lastSeq, chain, history, commit, reading, results, owner>>
      /\ pc[u] \in Before /\ pc'[u] \in Beginning \cup {"running"}
      /\ \A w \in Txns \ {u} : pc'[w] = pc[w] /\ id'[w] = id[w]
  BY BeginEffect DEF StoreInv, OrderInv
<1>2. CASE view'[t] = view[t] /\ pc[u] # "idle" /\ UNCHANGED <<id, lastId>>
  <2> SUFFICES ASSUME Isolation[t] = "RR", view[t].quiet
               PROVE  QuietView(t)' /\ QuietReads(t)'
      BY <1>2 DEF QuietOf
  <2>1. QuietView(t) /\ QuietReads(t)
    BY DEF QuietOf
  <2>2. pc'[t] = pc[t] /\ pc[t] \notin Before
    BY <1>1, <1>2, <2>1 DEF QuietView, Settled, ViewsInv
  <2>3. QuietView(t)'
    <3>1. \A w \in Txns : Numbered(w)' => Numbered(w)
      BY <1>1 DEF Numbered
    <3>2. ASSUME pc[t] \notin Before, NEW w \in Txns \ {t}, id[w] <= id[t] PROVE Settled(w)'
      BY <1>1, <1>2, <2>1, <3>2 DEF QuietView, Settled
    <3> QED BY <1>1, <1>2, <2>1, <2>2, <3>1, <3>2 DEF QuietView
  <2>4. QuietReads(t)'
    <3>1. view'[t].seq = view[t].seq
      BY <1>2
    <3>2. \A k \in Keys : /\ HistoryAt(k, view[t].seq)' = HistoryAt(k, view[t].seq)
                          /\ Returned(t, k)' = Returned(t, k)
      BY <1>1, <3>1 DEF HistoryAt, Returned
    <3> QED BY <1>1, <2>1, <2>2, <3>1, <3>2 DEF QuietReads
  <2> QED BY <2>3, <2>4
<1>3. CASE BeginId(u)
  <2>1. /\ view'[t] = [view[t] EXCEPT !.quiet = view[t].quiet /\ pc[t] \notin Beginning]
        /\ lastId' = lastId + 1 /\ id'[u] = lastId + 1 /\ pc[u] = "idle"
    BY <1>3 DEF BeginId, Step, ViewsInv
  <2>2. ASSUME view'[t].quiet PROVE view[t].quiet /\ pc[t] \notin Beginning
    BY <2>1, <2>2 DEF ViewsInv, View
  <2>3. view'[t].active = view[t].active /\ view'[t].up = view[t].up /\ view'[t].seq = view[t].seq
    BY <2>1 DEF ViewsInv, View
  <2> SUFFICES ASSUME Isolation[t] = "RR", view[t].quiet, pc[t] \notin Beginning
               PROVE  QuietView(t)' /\ QuietReads(t)'
      BY <2>2 DEF QuietOf
  <2>4. QuietView(t) /\ QuietReads(t)
    BY DEF QuietOf
  <2>5. pc'[t] = pc[t] /\ pc[t] \notin Before /\ id'[t] = id[t]
    BY <1>1 DEF ViewsInv
  <2>6. id[t] \in Nat /\ lastId \in Nat /\ id[t] <= lastId
    BY DEF ViewsInv
  <2>7. \A w \in Txns : Numbered(w)' => Numbered(w)
    BY <1>1 DEF Numbered
  <2>8. ASSUME NEW w \in Txns \ {t}, id'[w] <= id[t] PROVE Settled(w)'
    <3>1. w # u
      BY <2>1, <2>6, <2>8
    <3> QED BY <1>1, <2>4, <2>5, <2>8, <3>1 DEF QuietView, Settled
  <2>9. ASSUME NEW k \in Keys, NEW v \in CommittedOf(chain[k]) PROVE id'[v.txn] = id[v.txn]
    <3>1. v.txn \in Txns
      BY DEF StoreInv, OrderInv, Typed, ChainsTyped, Version, CommittedOf
    <3>2. pc[v.txn] # "idle"
      BY DEF ViewsInv
    <3> QED BY <1>1, <2>1, <3>1, <3>2
  <2>10. QuietView(t)'
    BY <1>1, <2>3, <2>4, <2>5, <2>7, <2>8, <2>9 DEF QuietView
  <2>11. QuietReads(t)'
    <3>1. \A k \in Keys : /\ HistoryAt(k, view[t].seq)' = HistoryAt(k, view[t].seq)
                          /\ Returned(t, k)' = Returned(t, k)
      BY <1>1, <2>3 DEF HistoryAt, Returned
    <3> QED BY <1>1, <2>3, <2>4, <2>5, <3>1 DEF QuietReads
  <2> QED BY <2>10, <2>11
<1>4. ASSUME BeginInsert(u) \/ BeginView(u) \/ BeginLimit(u) \/ BeginSeq(u)
      PROVE  view'[t] = view[t] /\ pc[u] # "idle" /\ UNCHANGED <<id, lastId>>
  BY <1>4 DEF BeginInsert, BeginView, BeginLimit, BeginSeq, Step, ViewsInv
<1> QED BY <1>2, <1>3, <1>4 DEF BeginMove

\* Begin itself.  When it draws the number all other transactions are settled.
LEMMA QuietBegin ==
    ASSUME StoreInv, ViewsInv, NEW t \in Txns, LockedReadsOf(t), BeginMove(t), QuietOf(t)
    PROVE  QuietOf(t)'
<1> USE DEF Before, Beginning, Ended
<1> SUFFICES ASSUME Isolation[t] = "RR", view'[t].quiet
             PROVE  QuietView(t)' /\ QuietReads(t)'
    BY DEF QuietOf
<1>1. /\ UNCHANGED <<lastSeq, chain, history, commit, reading, results, owner>>
      /\ pc[t] \in Before /\ \A w \in Txns \ {t} : pc'[w] = pc[w] /\ id'[w] = id[w]
  BY BeginEffect DEF StoreInv, OrderInv
<1>2. view[t] \in View /\ id[t] \in Nat /\ lastId \in Nat /\ lastSeq \in Nat
  BY DEF ViewsInv, StoreInv, OrderInv, Typed
<1>3. CASE BeginId(t)
  <2>1. /\ pc'[t] = "insert" /\ lastId' = id'[t]
        /\ view'[t] = [view[t] EXCEPT !.quiet = \A w \in Txns \ {t} : Settled(w)]
    BY <1>3 DEF BeginId, Step, ViewsInv, StoreInv, OrderInv, Typed
  <2>2. \A w \in Txns \ {t} : Settled(w)
    BY <1>2, <2>1 DEF View
  <2>3. \A w \in Txns \ {t} : Settled(w)'
    BY <1>1, <2>2 DEF Settled
  <2> QED BY <2>1, <2>3 DEF QuietView, QuietReads
<1>4. ASSUME ~BeginId(t), view'[t].quiet <=> view[t].quiet, UNCHANGED <<lastId, id>>,
             pc[t] \in Beginning
      PROVE  /\ QuietView(t) /\ lastId = id[t]
             /\ \A w \in Txns \ {t} : Settled(w) /\ Settled(w)'
  <2>1. QuietView(t)
    BY <1>4 DEF QuietOf
  <2> QED BY <1>1, <1>4, <2>1 DEF QuietView, Settled
<1>5. CASE BeginInsert(t)
  <2>1. pc[t] = "insert" /\ pc'[t] = "view" /\ UNCHANGED <<lastId, id, view>>
    BY <1>5 DEF BeginInsert, Step, StoreInv, OrderInv, Typed
  <2> QED BY <1>4, <2>1, <1>5 DEF QuietView, QuietReads, BeginId, Step
<1>6. CASE BeginView(t)
  <2>1. /\ pc[t] = "view" /\ pc'[t] = "limit" /\ UNCHANGED <<lastId, id>>
        /\ view'[t] = [view[t] EXCEPT !.active = active]
    BY <1>6 DEF BeginView, Step, ViewsInv, StoreInv, OrderInv, Typed
  <2>2. (view'[t].quiet <=> view[t].quiet) /\ view'[t].active = active
    BY <1>2, <2>1 DEF View
  <2>3. lastId = id[t] /\ \A w \in Txns \ {t} : Settled(w) /\ Settled(w)'
    BY <1>4, <2>1, <2>2 DEF BeginId, Step
  <2>4. active \subseteq {t}
    BY <2>3 DEF ViewsInv, Settled
  <2> QED BY <2>1, <2>2, <2>3, <2>4 DEF QuietView, QuietReads
<1>7. CASE BeginLimit(t)
  <2>1. /\ pc[t] = "limit" /\ pc'[t] = "seq" /\ UNCHANGED <<lastId, id>>
        /\ view'[t] = [view[t] EXCEPT !.up = lastId + 1]
    BY <1>7 DEF BeginLimit, Step, ViewsInv, StoreInv, OrderInv, Typed
  <2>2. /\ view'[t].quiet <=> view[t].quiet
        /\ view'[t].active = view[t].active /\ view'[t].up = lastId + 1
    BY <1>2, <2>1 DEF View
  <2>3. QuietView(t) /\ lastId = id[t] /\ \A w \in Txns \ {t} : Settled(w) /\ Settled(w)'
    BY <1>4, <2>1, <2>2 DEF BeginId, Step
  <2> QED BY <2>1, <2>2, <2>3 DEF QuietView, QuietReads
<1>8. CASE BeginSeq(t)
  <2>1. /\ pc[t] = "seq" /\ pc'[t] = "running" /\ UNCHANGED <<lastId, id>>
        /\ view'[t] = [view[t] EXCEPT !.seq = lastSeq]
    BY <1>8 DEF BeginSeq, Step, ViewsInv, StoreInv, OrderInv, Typed
  <2>2. /\ view'[t].quiet <=> view[t].quiet
        /\ view'[t].active = view[t].active /\ view'[t].up = view[t].up
        /\ view'[t].seq = lastSeq
    BY <1>2, <2>1 DEF View
  <2>3. QuietView(t) /\ lastId = id[t] /\ \A w \in Txns \ {t} : Settled(w) /\ Settled(w)'
    BY <1>4, <2>1, <2>2 DEF BeginId, Step
  <2>4. \A w \in Txns : ~Numbered(w)'
    BY <2>1, <2>3 DEF Numbered, Settled
  <2>5. \A k \in Keys : \A v \in CommittedOf(chain[k]) : id[v.txn] <= id[t] /\ v.seq <= lastSeq
    <3>1. \A k \in Keys : \A v \in CommittedOf(chain[k]) : v.txn \in Txns /\ v.seq <= lastSeq
      BY DEF StoreInv, OrderInv, NumbersDrawn, Typed, ChainsTyped, Version, CommittedOf
    <3> QED BY <2>3, <3>1 DEF ViewsInv
  <2>6. reading[t] = {} /\ \A k \in Keys : results[t][k] = {}
    BY <2>1 DEF LockedReadsOf
  <2>7. QuietView(t)'
    BY <1>1, <1>2, <2>1, <2>2, <2>3, <2>4, <2>5 DEF QuietView
  <2>8. QuietReads(t)'
    BY <1>1, <2>6 DEF QuietReads, Returned
  <2> QED BY <2>7, <2>8
<1> QED BY <1>3, <1>5, <1>6, <1>7, <1>8 DEF BeginMove

\* What t drew when it began stays as it is to all that commit later.
LEMMA QuietViewKept ==
    ASSUME StoreInv, StoreInv', ViewsInv, [Next]_vars, OtherMove, NEW t \in Txns, QuietView(t)
    PROVE  QuietView(t)'
<1> USE DEF Before, Beginning
<1>1. /\ UNCHANGED <<lastId, id, view>>
      /\ \A w \in Txns : Settled(w) => Settled(w)'
      /\ pc[t] \in Before => pc'[t] = pc[t]
      /\ pc[t] \notin Before => pc'[t] \notin Before
  BY DEF OtherMove, Settled
<1>2. CASE pc[t] \in Before
  BY <1>1, <1>2 DEF QuietView
<1>3. CASE pc[t] \notin Before
  <2> DEFINE q == view[t].seq
  <2>1. /\ view[t].active \subseteq {t} /\ view[t].up = id[t] + 1
        /\ q \in Nat /\ q <= lastSeq
        /\ \A w \in Txns \ {t} : id[w] <= id[t] => Settled(w)
        /\ \A w \in Txns : Numbered(w) => q < commit[w].seq
        /\ \A k \in Keys : \A v \in CommittedOf(chain[k]) :
               v.txn # t => (id[v.txn] <= id[t] <=> v.seq <= q)
    BY <1>3 DEF QuietView, ViewsInv, View
  <2>2. lastSeq \in Nat /\ \A w \in Txns : commit[w].seq \in Nat /\ commit'[w].seq \in Nat
    BY DEF StoreInv, OrderInv, Typed
  <2>3. lastSeq' \in Nat /\ lastSeq <= lastSeq'
    BY NumbersGrow DEF StoreInv, OrderInv, Typed
  <2>4. ASSUME NEW w \in Txns, Numbered(w)' PROVE q < commit'[w].seq
    <3>1. CASE Numbered(w) /\ commit'[w].seq = commit[w].seq
      BY <2>1, <3>1
    <3>2. CASE lastSeq < commit'[w].seq
      BY <2>1, <2>2, <3>2
    <3> QED BY <2>4, <3>1, <3>2, NumbersGrow DEF StoreInv
  <2>5. ASSUME NEW k \in Keys, NEW v \in CommittedOf(chain'[k]), v.txn # t
        PROVE  id[v.txn] <= id[t] <=> v.seq <= q
    <3>1. CASE \E w \in CommittedOf(chain[k]) : v.seq = w.seq /\ v.txn = w.txn
      BY <2>1, <2>5, <3>1
    <3>2. CASE \E w \in Txns : Marks(w, k) /\ v.seq = commit[w].seq /\ v.txn = w
      <4>1. PICK w \in Txns : Numbered(w) /\ v.seq = commit[w].seq /\ v.txn = w
        BY <3>2 DEF Marks, Committing
      <4>2. ~(id[w] <= id[t])
        BY <2>1, <2>5, <4>1 DEF Numbered, Settled
      <4>3. ~(v.seq <= q)
        BY <2>1, <2>2, <4>1
      <4> QED BY <4>1, <4>2, <4>3
    <3> QED BY <3>1, <3>2, GrowsByCommits
  <2>6. q <= lastSeq'
    BY <2>1, <2>2, <2>3
  <2>7. /\ view'[t].active \subseteq {t} /\ view'[t].up = id'[t] + 1 /\ view'[t].seq = q
        /\ \A w \in Txns \ {t} : id'[w] <= id'[t] => Settled(w)'
    BY <1>1, <2>1
  <2> HIDE DEF q
  <2> QED BY <1>1, <1>3, <2>4, <2>5, <2>6, <2>7 DEF QuietView
<1> QED BY <1>2, <1>3

LEMMA QuietKept ==
    ASSUME StoreInv, ViewsInv, [Next]_vars, OtherMove, NEW t \in Txns,
           QuietView(t), QuietReads(t), UNCHANGED <<reading[t], results[t]>>
    PROVE  QuietReads(t)'
<1>1. view'[t] = view[t] /\ (pc'[t] \notin Before => pc[t] \notin Before)
  BY DEF OtherMove
<1> SUFFICES ASSUME pc[t] \notin Before PROVE QuietReads(t)'
    BY <1>1 DEF QuietReads
<1>2. PICK q \in Nat : q = view[t].seq /\ q = view'[t].seq
  BY <1>1 DEF ViewsInv, View
<1>3. \A w \in Txns : Numbered(w) => q < commit[w].seq
  BY <1>2 DEF QuietView
<1>4. ASSUME NEW k \in Keys, k \in reading[t], NEW w \in CommittedOf(chain'[k])
      PROVE  q < w.seq
  <2>1. CASE \E v \in CommittedOf(chain[k]) : w.seq = v.seq
    BY <1>2, <1>4, <2>1 DEF QuietReads
  <2>2. CASE \E u \in Txns : Marks(u, k) /\ w.seq = commit[u].seq
    BY <1>3, <2>2 DEF Marks, Committing
  <2> QED BY <2>1, <2>2, GrowsByCommits
<1>5. \A k \in Keys : HistoryAt(k, q)' = HistoryAt(k, q) /\ Returned(t, k)' = Returned(t, k)
  BY <1>3, PastIsSettled DEF Returned
<1> QED BY <1>2, <1>4, <1>5 DEF QuietReads

\* What the view shows in the chain.
LEMMA QuietVisible ==
    ASSUME StoreInv, ViewsInv, NEW t \in Txns, Isolation[t] = "RR", QuietView(t),
           pc[t] = "running", NEW k \in Keys
    PROVE  LET shown == {v \in chain[k] : IsVisible(t, v)}
               old == {v \in CommittedOf(chain[k]) : v.seq <= view[t].seq}
           IN  old \subseteq shown /\ (k \notin Touched(t) => shown = old)
<1> DEFINE shown == {v \in chain[k] : IsVisible(t, v)}
           old == {v \in CommittedOf(chain[k]) : v.seq <= view[t].seq}
<1> USE DEF Before, Beginning, Ended
<1>1. ASSUME NEW v \in CommittedOf(chain[k])
      PROVE  v \in chain[k] /\ (IsVisible(t, v) <=> v.seq <= view[t].seq)
  <2>1. v \in chain[k] /\ v.txn \in Txns /\ v.state = "Committed" /\ v.txn # t
    BY DEF ViewsInv, StoreInv, OrderInv, Typed, ChainsTyped, Version, CommittedOf
  <2>2. IsVisible(t, v) <=> id[v.txn] < view[t].up /\ v.txn \notin view[t].active
    BY <2>1 DEF IsVisible
  <2>3. view[t].up = id[t] + 1 /\ v.txn \notin view[t].active
    BY <2>1 DEF QuietView
  <2>4. id[v.txn] < id[t] + 1 <=> id[v.txn] <= id[t]
    BY <2>1 DEF ViewsInv
  <2> QED BY <2>1, <2>2, <2>3, <2>4 DEF QuietView
<1>2. ASSUME k \notin Touched(t), NEW v \in chain[k], IsVisible(t, v)
      PROVE  v \in CommittedOf(chain[k])
  <2>1. v \notin ActiveOf(t, k)
    BY <1>2 DEF Touched
  <2>2. v.state \in {"Active", "Committed", "Aborted"}
    BY DEF StoreInv, OrderInv, Typed, ChainsTyped, Version, State
  <2> QED BY <1>2, <2>1, <2>2 DEF ActiveOf, CommittedOf, IsVisible
<1> QED BY <1>1, <1>2

\* Both halves of a read give what was committed up to the number of the view.
LEMMA QuietGet ==
    ASSUME StoreInv, ViewsInv, ReadersTyped, NEW t \in Txns, Isolation[t] = "RR",
           QuietView(t), QuietReads(t), NEW k \in Keys, GetChain(t, k)
    PROVE  QuietReads(t)'
<1> DEFINE shown == {v \in chain[k] : IsVisible(t, v)}
           old == {v \in CommittedOf(chain[k]) : v.seq <= view[t].seq}
<1>1. /\ ReadChain(t, k, Newest(shown)) /\ pc[t] = "running" /\ reading[t] = {}
      /\ UNCHANGED <<snap, lastSeq, chain, history, pc, owner, view>>
  BY DEF GetChain, GetVisible, Ready, ReadChain, storage, threads
<1>2. PICK q \in Nat : q = view[t].seq /\ q = view'[t].seq
  BY <1>1 DEF ViewsInv, View
<1>3. t \in Readers /\ "running" \notin Before
  BY DEF Readers, Before, Beginning
<1>4. old \subseteq shown /\ (k \notin Touched(t) => shown = old)
  BY <1>1, QuietVisible
<1>5. \A j \in Keys : HistoryAt(j, q)' = HistoryAt(j, q)
  BY <1>1 DEF HistoryAt
<1>6. \A j \in Keys : q > 0 => Returned(t, j) \subseteq {HistoryAt(j, q)}
  BY <1>1, <1>2, <1>3 DEF QuietReads
<1>7. CASE Newest(shown) = {} /\ reading'[t] = {k} /\ results' = results
  <2>1. shown = {}
    BY <1>7, NewestInChain DEF StoreInv, OrderInv, Typed
  <2>2. old = {}
    BY <1>4, <2>1
  <2>3. \A v \in CommittedOf(chain[k]) : v.seq \in Nat
    BY DEF StoreInv, OrderInv, Typed, ChainsTyped, Version, CommittedOf
  <2>4. \A v \in CommittedOf(chain[k]) : q < v.seq
    BY <1>2, <2>2, <2>3
  <2>5. \A j \in Keys : Returned(t, j)' = Returned(t, j)
    BY <1>7 DEF Returned
  <2> HIDE DEF shown, old
  <2> QED BY <1>1, <1>2, <1>5, <1>6, <1>7, <2>4, <2>5 DEF QuietReads
<1>8. CASE reading' = reading /\ \E v \in Newest(shown) : Returns(t, k, v.val, TRUE)
  <2>1. PICK v \in Newest(shown) : Returns(t, k, v.val, TRUE)
    BY <1>8
  <2>2. \A j \in Keys : \A x \in results'[t][j] :
            x \in results[t][j] \/ (j = k /\ Recorded(t, k) /\ x.val = v.val)
    <3>1. PICK val, straight : val = v.val /\ Returns(t, k, val, straight)
      BY <2>1
    <3> QED BY <1>3, <3>1, ReturnedEffect
  <2>3. ASSUME Recorded(t, k) PROVE v.val = HistoryAt(k, q)
    <3>1. shown = old
      BY <1>4, <2>3 DEF Recorded
    <3>2. v \in Newest({w \in CommittedOf(chain[k]) : w.seq <= q})
      BY <1>2, <2>1, <3>1
    <3> QED BY <3>2, VersionIsHistory
  <2>4. ASSUME q > 0, NEW j \in Keys, NEW x \in results'[t][j], x.straight
        PROVE  x.val = HistoryAt(j, q)
    <3>1. x \in results[t][j] => x.val \in Returned(t, j)
      BY <2>4 DEF Returned
    <3> QED BY <1>6, <2>2, <2>3, <2>4, <3>1
  <2>5. reading'[t] = {}
    BY <1>1, <1>8
  <2>6. \A j \in Keys : q > 0 => Returned(t, j)' \subseteq {HistoryAt(j, q)'}
    BY <1>5, <2>4 DEF Returned
  <2> QED BY <1>2, <2>5, <2>6 DEF QuietReads
<1>9. \/ Newest(shown) = {} /\ reading'[t] = {k} /\ results' = results
      \/ reading' = reading /\ \E v \in Newest(shown) : Returns(t, k, v.val, TRUE)
  <2> HIDE DEF shown
  <2> QED BY <1>1, <1>3, ReadChainEffect
<1> QED BY <1>7, <1>8, <1>9

LEMMA QuietLsm ==
    ASSUME StoreInv, ViewsInv, ReadersTyped, NEW t \in Txns, Isolation[t] = "RR",
           LockedReadsOf(t), QuietReads(t), NEW k \in Keys, GetLsm(t, k)
    PROVE  QuietReads(t)'
<1>1. /\ ReadLsm(t, k, view[t].seq) /\ k \in reading[t]
      /\ UNCHANGED <<snap, lastSeq, chain, history, pc, owner, view>>
  BY DEF GetLsm, LsmReadSeq, ReadLsm, storage, threads
<1>2. PICK q \in Nat : q = view[t].seq /\ q = view'[t].seq
  BY <1>1 DEF ViewsInv, View
<1>3. t \in Readers /\ pc[t] \notin Before
  BY <1>1 DEF Readers, Before, Beginning, LockedReadsOf
<1>4. \A j \in Keys : HistoryAt(j, q)' = HistoryAt(j, q)
  BY <1>1 DEF HistoryAt
<1>5. ASSUME q > 0, Straight(k, q) PROVE LsmGet(k, q) = HistoryAt(k, q)
  <2>1. \A v \in CommittedOf(chain[k]) : q < v.seq /\ v.seq \in Nat
    BY <1>1, <1>2, <1>3
       DEF QuietReads, StoreInv, OrderInv, Typed, ChainsTyped, Version, CommittedOf
  <2>2. \A v \in CommittedOf(chain[k]) : ~(v.seq <= q)
    BY <2>1
  <2> QED BY <1>5, <2>2, LsmHasTheRest
<1>6. Returns(t, k, LsmGet(k, q), Straight(k, q)) /\ reading'[t] = {}
  BY <1>1, <1>2, <1>3, ReadLsmEffect
<1>7. /\ \A j \in Keys \ {k} : Returned(t, j)' = Returned(t, j)
      /\ Returned(t, k)' \subseteq Returned(t, k) \cup {LsmGet(k, q)}
      /\ ~Straight(k, q) => Returned(t, k)' \subseteq Returned(t, k)
  BY <1>3, <1>6, ReturnedEffect
<1>8. \A j \in Keys : q > 0 => Returned(t, j) \subseteq {HistoryAt(j, q)}
  BY <1>2, <1>3 DEF QuietReads
<1>9. \A j \in Keys : q > 0 => Returned(t, j)' \subseteq {HistoryAt(j, q)'}
  BY <1>4, <1>5, <1>7, <1>8
<1> QED BY <1>2, <1>6, <1>9 DEF QuietReads

LEMMA QuietStep ==
    ASSUME StoreInv, StoreInv', ViewsInv, ReadersTyped, [Next]_vars, NEW t \in Txns,
           LockedReadsOf(t), QuietOf(t)
    PROVE  QuietOf(t)'
<1>1. ASSUME NEW u \in Txns, BeginMove(u) PROVE QuietOf(t)'
  <2>1. CASE u = t
    BY <1>1, <2>1, QuietBegin
  <2>2. CASE u # t
    BY <1>1, <2>2, QuietBesideBegin
  <2> QED BY <2>1, <2>2
<1>2. CASE OtherMove
  <2> SUFFICES ASSUME Isolation[t] = "RR", view[t].quiet
               PROVE  QuietView(t)' /\ QuietReads(t)'
      BY <1>2 DEF OtherMove, QuietOf
  <2>1. QuietView(t) /\ QuietReads(t)
    BY DEF QuietOf
  <2>2. QuietView(t)'
    BY <1>2, <2>1, QuietViewKept
  <2>3. ASSUME NEW k \in Keys, GetChain(t, k) PROVE QuietReads(t)'
    BY <2>1, <2>3, QuietGet
  <2>4. ASSUME NEW k \in Keys, GetLsm(t, k) PROVE QuietReads(t)'
    BY <2>1, <2>4, QuietLsm
  <2>5. CASE UNCHANGED <<reading[t], results[t]>>
    BY <1>2, <2>1, <2>2, <2>5, QuietKept
  <2> QED BY <2>2, <2>3, <2>4, <2>5, OthersRead
<1>3. OtherMove \/ \E u \in Txns : BeginMove(u)
  BY BeginOrOther DEF StoreInv, OrderInv
<1> QED BY <1>1, <1>2, <1>3

\* A repeatable-read transaction that began alone reads the same value of a key
\* every time: its view (BuildReadView) and its number (LsmReadSeq) are drawn one
\* after the other, and separate the same commits.
THEOREM QuietReadsAreRepeatable ==
    ASSUME MaxWrites <= 1
    PROVE  Spec => []QuietReadsRepeat
<1> DEFINE Inv == /\ StoreInv /\ ReadersTyped /\ SnapshotInv /\ SnapshotReadsItsPast
                  /\ \A t \in Txns : LockedReadsOf(t)
                  /\ ViewsInv /\ \A t \in Txns : QuietOf(t)
<1>1. Init => Inv
  <2> SUFFICES ASSUME Init
               PROVE  /\ \A t \in Txns : LockedReadsOf(t)
                      /\ ViewsInv /\ \A t \in Txns : QuietOf(t)
      BY StoreInit, SnapshotStart
  <2>1. /\ \A t \in Txns : /\ reading[t] = {} /\ \A k \in Keys : results[t][k] = {}
                           /\ pc[t] = "idle" /\ id[t] = 0
                           /\ view[t] = [active |-> {}, up |-> 0, seq |-> 0, quiet |-> FALSE]
        /\ lastId = 0 /\ active = {} /\ \A k \in Keys : CommittedOf(chain[k]) = {}
        /\ id \in [Txns -> Nat] /\ view = [t \in Txns |-> view[t]]
    BY DEF Init, Readers, CommittedOf
  <2>2. \A t \in Txns : LockedReadsOf(t)
    BY <2>1 DEF LockedReadsOf
  <2>3. \A t \in Txns : view[t] \in View /\ ~view[t].quiet
    <3> DEFINE first == [active |-> {}, up |-> 0, seq |-> 0, quiet |-> FALSE]
    <3>1. first \in View
      BY DEF View
    <3>2. ~first.quiet
      OBVIOUS
    <3> HIDE DEF first
    <3>3. \A t \in Txns : view[t] = first
      BY <2>1 DEF first
    <3> QED BY <3>1, <3>2, <3>3
  <2>4. ViewsInv
    BY <2>1, <2>3 DEF ViewsInv
  <2> QED BY <2>2, <2>3, <2>4 DEF QuietOf
<1>2. Inv /\ [Next]_vars => Inv'
  BY StoreStep, SnapshotStep, LockedReadsStep, ViewsKept, QuietStep
<1>3. Inv => QuietReadsRepeat
  <2> SUFFICES ASSUME Inv, NEW t \in Txns, NEW k \in Keys, Isolation[t] = "RR",
                      view[t].quiet, view[t].seq > 0
               PROVE  Cardinality(Returned(t, k)) <= 1
      BY DEF QuietReadsRepeat
  <2>1. \E x : Returned(t, k) \subseteq {x}
    <3>1. CASE pc[t] \in Before
      BY <3>1 DEF LockedReadsOf, Returned
    <3>2. CASE pc[t] \notin Before
      BY <3>2 DEF QuietOf, QuietReads
    <3> QED BY <3>1, <3>2
  <2>2. PICK x : Returned(t, k) \subseteq {x}
    BY <2>1
  <2>3. Cardinality({x}) = 1 /\ IsFiniteSet({x})
    BY FS_Singleton
  <2> QED BY <2>2, <2>3, FS_Subset
<1> QED BY <1>1, <1>2, <1>3, PTL DEF Spec

-----------------------------------------------------------------------------
(***************************************************************************)
(* Mvcc implements AtomicStore.  A step writes, commits or aborts in the   *)
(* abstract store, or is nothing to it: what a plain read gives is what    *)
(* was committed last to the key, wherever the commit is now, and only     *)
(* MarkTransactionCommitted commits.                                       *)
(***************************************************************************)
\* The variables of the abstract store.
Latest == [k \in Keys |-> LatestRead(k)]
Written == [t \in Txns |-> [k \in Keys |-> WrittenBy(t, k)]]

\* What a transaction has written to a key is the value of its version.
LEMMA WrittenValue ==
    ASSUME StoreInv, NEW t \in Txns, NEW k \in Keys
    PROVE  /\ ActiveOf(t, k) = {} => WrittenBy(t, k) = Nothing
           /\ \A v \in ActiveOf(t, k) :
                  ActiveOf(t, k) = {v} /\ WrittenBy(t, k) = v.val /\ v.val \in Held
<1>1. ASSUME ActiveOf(t, k) = {} PROVE WrittenBy(t, k) = Nothing
  <2>1. Newest(ActiveOf(t, k)) = {}
    BY <1>1 DEF Newest
  <2> QED BY <2>1 DEF WrittenBy
<1>2. ASSUME NEW v \in ActiveOf(t, k)
      PROVE  ActiveOf(t, k) = {v} /\ WrittenBy(t, k) = v.val /\ v.val \in Held
  <2>1. v \in Version /\ v.place \in Nat
    BY DEF ActiveOf, StoreInv, OrderInv, Typed, ChainsTyped, Version
  <2>2. ActiveOf(t, k) = {v}
    BY DEF ActiveOf, ActivesOf, StoreInv, DurableInv, OneActive
  <2>3. Newest(ActiveOf(t, k)) = {v}
    BY <2>1, <2>2 DEF Newest
  <2>4. WrittenBy(t, k) = v.val
    BY <2>3 DEF WrittenBy
  <2> QED BY <2>1, <2>2, <2>4 DEF Version, Held
<1> QED BY <1>1, <1>2

LEMMA WrittenKept ==
    ASSUME NEW t \in Txns, NEW k \in Keys, ActiveOf(t, k)' = ActiveOf(t, k)
    PROVE  WrittenBy(t, k)' = WrittenBy(t, k)
<1> DEFINE value(S) == IF S = {} THEN Nothing ELSE (CHOOSE v \in S : TRUE).val
<1>1. WrittenBy(t, k) = value(Newest(ActiveOf(t, k)))
  BY DEF WrittenBy
<1>2. WrittenBy(t, k)' = value(Newest(ActiveOf(t, k))')
  BY DEF WrittenBy
<1>3. Newest(ActiveOf(t, k))' = Newest(ActiveOf(t, k))
  BY DEF Newest
<1> HIDE DEF value
<1> QED BY <1>1, <1>2, <1>3

\* A plain read gives what was committed last, before a step and after it.
ReadsLast == \A k \in Keys : LatestRead(k) = HistoryAt(k, lastSeq)

LEMMA LatestIsLastNext == StoreInv' => ReadsLast'
<1>1. StoreInv => ReadsLast
  BY LatestIsLast DEF ReadsLast
<1> QED BY <1>1, PTL

WrittenIsVersion ==
    \A t \in Txns, k \in Keys :
        /\ ActiveOf(t, k) = {} => WrittenBy(t, k) = Nothing
        /\ \A v \in ActiveOf(t, k) : WrittenBy(t, k) = v.val /\ v.val \in Held

LEMMA WrittenNext ==
    StoreInv' => \A t \in Txns, k \in Keys :
        /\ ActiveOf(t, k)' = {} => WrittenBy(t, k)' = Nothing
        /\ \A v \in ActiveOf(t, k)' : WrittenBy(t, k)' = v.val /\ v.val \in Held
<1>1. StoreInv => WrittenIsVersion
  BY WrittenValue DEF WrittenIsVersion
<1>2. StoreInv' => WrittenIsVersion'
  BY <1>1, PTL
<1> QED BY <1>2 DEF WrittenIsVersion

\* A plain read of a key changes only with the commits to it.
LEMMA LatestKept ==
    ASSUME StoreInv, StoreInv', NEW k \in Keys, history'[k] = history[k]
    PROVE  LatestRead(k)' = LatestRead(k)
<1>1. PICK p \in Nat, q \in Nat : p = lastSeq' /\ q = lastSeq
  BY DEF StoreInv, OrderInv, Typed
<1>2. {e \in history'[k] : e.seq <= p} = {e \in history[k] : e.seq <= q}
  BY <1>1 DEF StoreInv, HistoryNumbers
<1>3. HistoryAt(k, p)' = HistoryAt(k, q)
  BY <1>2, HistoryAtKept
<1>4. LatestRead(k) = HistoryAt(k, q)
  BY <1>1, LatestIsLast
<1>5. LatestRead(k)' = HistoryAt(k, lastSeq)'
  BY LatestIsLastNext DEF ReadsLast
<1> QED BY <1>1, <1>3, <1>4, <1>5

\* A step that neither commits nor changes an uncommitted version.
LEMMA NothingToStore ==
    ASSUME StoreInv, StoreInv', UNCHANGED history,
           \A t \in Txns, k \in Keys : ActiveOf(t, k)' = ActiveOf(t, k)
    PROVE  UNCHANGED <<Latest, Written>>
<1>1. \A k \in Keys : LatestRead(k)' = LatestRead(k)
  BY LatestKept
<1>2. \A t \in Txns, k \in Keys : WrittenBy(t, k)' = WrittenBy(t, k)
  BY WrittenKept
<1> QED BY <1>1, <1>2 DEF Latest, Written

\* A transaction of which no uncommitted version is left has written nothing.
LEMMA EndsWrites ==
    ASSUME StoreInv', NEW t \in Txns,
           \A k \in Keys : /\ ActiveOf(t, k)' = {}
                           /\ \A u \in Txns \ {t} : ActiveOf(u, k)' = ActiveOf(u, k)
    PROVE  Written' = [Written EXCEPT ![t] = [k \in Keys |-> Nothing]]
<1>1. \A k \in Keys : WrittenBy(t, k)' = Nothing
  BY WrittenNext
<1>2. \A u \in Txns \ {t}, k \in Keys : WrittenBy(u, k)' = WrittenBy(u, k)
  BY WrittenKept
<1> QED BY <1>1, <1>2 DEF Written

LEMMA WriteIsWrite ==
    ASSUME StoreInv, StoreInv', NEW t \in Txns, NEW k \in Keys, NEW kind, Write(t, k, kind)
    PROVE  \E v \in Held : Store!Write(t, k, v)
<1>1. PICK n \in Version : /\ chain' = [chain EXCEPT ![k] = @ \cup {n}]
                           /\ n.txn = t /\ n.state = "Active"
  BY WriteChain DEF StoreInv, OrderInv
<1>2. chain'[k] = chain[k] \cup {n} /\ \A j \in Keys \ {k} : chain'[j] = chain[j]
  BY <1>1 DEF StoreInv, OrderInv, Typed, ChainsTyped
<1>3. history' = history /\ owner[k] = t
  BY DEF Write
<1>4. \A j \in Keys : LatestRead(j)' = LatestRead(j)
  BY <1>3, LatestKept
<1>5. \A u \in Txns, j \in Keys : (u = t /\ j = k) \/ ActiveOf(u, j)' = ActiveOf(u, j)
  BY <1>1, <1>2 DEF ActiveOf
<1>6. \A u \in Txns, j \in Keys : (u = t /\ j = k) \/ WrittenBy(u, j)' = WrittenBy(u, j)
  BY <1>5, WrittenKept
<1>7. WrittenBy(t, k)' = n.val /\ n.val \in Held
  <2>1. n \in ActiveOf(t, k)'
    BY <1>1, <1>2 DEF ActiveOf
  <2> QED BY <2>1, WrittenNext
<1>8. \A u \in Txns \ {t} : WrittenBy(u, k) = Nothing
  <2>1. \A u \in Txns \ {t} : ActiveOf(u, k) = {}
    BY <1>3 DEF ActiveOf, ActivesOf, StoreInv, OrderInv, WritersLive
  <2> QED BY <2>1, WrittenValue
<1>9. UNCHANGED Latest
  BY <1>4 DEF Latest
<1>10. Written' = [Written EXCEPT ![t][k] = n.val]
  BY <1>6, <1>7 DEF Written
<1>11. \A u \in Txns \ {t} : Written[u][k] = Nothing
  BY <1>8 DEF Written
<1> QED BY <1>7, <1>9, <1>10, <1>11 DEF Store!Write, Latest, Written

\* The versions that a commit marks are the last commit to their keys.
LEMMA MarkCommitsWritten ==
    ASSUME StoreInv, StoreInv', NEW t \in Txns, Mark(t), NEW k \in Keys
    PROVE  LatestRead(k)' = IF WrittenBy(t, k) = Nothing THEN LatestRead(k)
                            ELSE WrittenBy(t, k)
<1> DEFINE seq == commit[t].seq
<1>1. history'[k] = history[k] \cup {[seq |-> seq, val |-> v.val] : v \in Newest(ActiveOf(t, k))}
  BY DEF Mark
<1>2. CASE ActiveOf(t, k) = {}
  <2>1. Newest(ActiveOf(t, k)) = {}
    BY <1>2 DEF Newest
  <2>2. history'[k] = history[k]
    BY <1>1, <2>1
  <2> QED BY <1>2, <2>2, WrittenValue, LatestKept
<1>3. CASE ActiveOf(t, k) # {}
  <2>1. PICK v \in ActiveOf(t, k) : TRUE
    BY <1>3
  <2>2. /\ ActiveOf(t, k) = {v} /\ WrittenBy(t, k) = v.val /\ WrittenBy(t, k) # Nothing
        /\ v.place \in Nat
    <3>1. v.place \in Nat
      BY DEF ActiveOf, StoreInv, OrderInv, Typed, ChainsTyped, Version
    <3> QED BY <2>1, <3>1, WrittenValue, NothingAssumption
  <2>3. Newest(ActiveOf(t, k)) = {v}
    BY <2>2 DEF Newest
  <2> DEFINE e == [seq |-> seq, val |-> v.val]
  <2>4. history'[k] = history[k] \cup {e} /\ e.seq = seq /\ e.val = v.val
    BY <1>1, <2>3
  <2>5. seq \in Nat /\ seq <= lastSeq /\ lastSeq \in Nat /\ lastSeq' = lastSeq
        /\ \A f \in history[k] : f.seq \in Nat /\ f.seq < seq
    <3>1. Numbered(t) /\ owner[k] = t
      BY <2>1 DEF Mark, Step, Numbered, ActiveOf, ActivesOf, StoreInv, OrderInv, WritersLive
    <3>2. seq \in Nat /\ seq <= lastSeq /\ lastSeq \in Nat
      BY <3>1 DEF StoreInv, OrderInv, CommitsDrawn, Typed
    <3>3. \A f \in history[k] : f.seq \in Nat /\ f.seq < seq
      BY <3>1 DEF StoreInv, HistoryNumbers, Committing
    <3> QED BY <3>2, <3>3 DEF Mark
  <2> HIDE DEF e
  <2> DEFINE upTo == {f \in history'[k] : f.seq <= lastSeq'}
             last == {f \in upTo : \A g \in upTo : g.seq <= f.seq}
  <2>6. upTo = history'[k]
    BY <2>4, <2>5
  <2>7. last = {e}
    <3> HIDE DEF upTo, seq
    <3> QED BY <2>4, <2>5, <2>6
  <2>8. HistoryAt(k, lastSeq)' = IF last = {} THEN Absent ELSE (CHOOSE f \in last : TRUE).val
    BY DEF HistoryAt
  <2>9. HistoryAt(k, lastSeq)' = v.val
    <3> HIDE DEF last
    <3> QED BY <2>4, <2>7, <2>8
  <2> QED BY <2>2, <2>9, LatestIsLastNext DEF ReadsLast
<1> QED BY <1>2, <1>3

LEMMA MarkIsCommit ==
    ASSUME StoreInv, StoreInv', NEW t \in Txns, Mark(t)
    PROVE  Store!Commit(t)
<1>1. \A k \in Keys : LatestRead(k)' = IF WrittenBy(t, k) = Nothing THEN LatestRead(k)
                                       ELSE WrittenBy(t, k)
  BY MarkCommitsWritten
<1>2. ASSUME NEW k \in Keys
      PROVE  /\ ActiveOf(t, k)' = {}
             /\ \A u \in Txns \ {t} : ActiveOf(u, k)' = ActiveOf(u, k)
  <2>1. CASE chain'[k] = chain[k] /\ \A v \in ActivesOf(chain[k]) : v.txn # t
    BY <2>1 DEF ActiveOf, ActivesOf
  <2>2. CASE ActiveOf(t, k) = ActivesOf(chain[k]) /\ ActivesOf(chain'[k]) = {}
    BY <2>2 DEF ActiveOf, ActivesOf
  <2> QED BY <2>1, <2>2, MarkCommits DEF StoreInv
<1> QED BY <1>1, <1>2, EndsWrites DEF Store!Commit, Store!NoWrites, Latest, Written

LEMMA RollbackIsAbort ==
    ASSUME StoreInv, StoreInv', NEW t \in Txns, Rollback(t)
    PROVE  Store!Abort(t)
<1>1. history' = history
  BY DEF Rollback
<1>2. \A k \in Keys : LatestRead(k)' = LatestRead(k)
  BY <1>1, LatestKept
<1>3. ASSUME NEW k \in Keys
      PROVE  /\ ActiveOf(t, k)' = {}
             /\ \A u \in Txns \ {t} : ActiveOf(u, k)' = ActiveOf(u, k)
  <2>1. ActivesOf(chain'[k]) = {v \in ActivesOf(chain[k]) : v.txn # t}
    BY RollbackKeeps DEF StoreInv, Rollback
  <2> QED BY <2>1 DEF ActiveOf, ActivesOf
<1> QED BY <1>2, <1>3, EndsWrites DEF Store!Abort, Store!NoWrites, Latest, Written

\* The steps that neither write, commit nor abort.
LEMMA OthersStutter ==
    ASSUME StoreInv, StoreInv',
           \/ ThreadMove \/ FlushPick \/ FlushFails \/ MarkFlushed \/ RunGC
           \/ \E i \in flush.items : FlushItem(i)
    PROVE  UNCHANGED <<Latest, Written>>
<1>1. CASE UNCHANGED <<chain, history>>
  BY <1>1, NothingToStore DEF ActiveOf
<1>2. ASSUME ThreadMove \/ FlushPick \/ FlushFails \/ \E i \in flush.items : FlushItem(i)
      PROVE  UNCHANGED <<chain, history>>
  BY <1>2 DEF ThreadMove, FlushPick, FlushFails, FlushItem, storage
<1>3. CASE MarkFlushed
  <2>1. ASSUME NEW t \in Txns, NEW k \in Keys PROVE ActiveOf(t, k)' = ActiveOf(t, k)
    <3>1. chain'[k] = {IF v.state = "Committed" /\ <<k, v.seq>> \in flush.mark
                       THEN Flushed(v) ELSE v : v \in chain[k]}
      BY <1>3, MarkFlushedChain DEF StoreInv, OrderInv, Typed
    <3>2. \A v \in chain[k] : Flushed(v).state = v.state
      BY FlushedFields DEF StoreInv, OrderInv, Typed, ChainsTyped
    <3> QED BY <3>1, <3>2 DEF ActiveOf
  <2>2. history' = history
    BY <1>3 DEF MarkFlushed
  <2> QED BY <2>1, <2>2, NothingToStore
<1>4. CASE RunGC
  <2>1. \A t \in Txns, k \in Keys : ActiveOf(t, k)' = ActiveOf(t, k)
    BY <1>4 DEF RunGC, Kept, ActiveOf
  <2>2. history' = history
    BY <1>4 DEF RunGC
  <2> QED BY <2>1, <2>2, NothingToStore
<1> QED BY <1>1, <1>2, <1>3, <1>4

LEMMA StoreStarts ==
    ASSUME Init
    PROVE  Store!Init
<1>1. StoreInv
  BY StoreInit
<1>2. \A k \in Keys : chain[k] = {} /\ \A e \in lsm[k] : e.val = Recovered
  <2>1. \A k \in Keys : chain[k] = {} /\ \A e \in history[k] : e.val = Recovered
    BY DEF Init
  <2>2. ASSUME NEW k \in Keys, NEW e \in lsm[k] PROVE e.val = Recovered
    <3>1. [seq |-> e.seq, val |-> e.val] \in history[k]
      BY <1>1, EntriesCommitted
    <3> QED BY <2>1, <3>1
  <2> QED BY <2>1, <2>2
<1>3. ASSUME NEW k \in Keys PROVE LatestRead(k) \in Held
  <2>1. Newest(CommittedOf(chain[k])) = {}
    BY <1>2 DEF Newest, CommittedOf
  <2>2. LatestRead(k) = LsmGet(k, 0)
    BY <2>1 DEF LatestRead
  <2>3. LsmGet(k, 0) = Absent \/ \E e \in lsm[k] : LsmGet(k, 0) = e.val
    BY <1>1, LsmGetFound DEF Shown
  <2> QED BY <1>2, <2>2, <2>3 DEF Held
<1>4. \A t \in Txns, k \in Keys : WrittenBy(t, k) = Nothing
  <2>1. \A t \in Txns, k \in Keys : ActiveOf(t, k) = {}
    BY <1>2 DEF ActiveOf
  <2> QED BY <1>1, <2>1, WrittenValue
<1> QED BY <1>3, <1>4 DEF Store!Init, Store!NoWrites

\* The chains and the LSM tree together are an atomic store: a commit takes effect
\* in one step, MarkTransactionCommitted, for all keys that the transaction wrote,
\* a rollback in none, and neither flushing nor collecting changes what is read.
THEOREM StoreIsAtomic ==
    ASSUME MaxWrites <= 1
    PROVE  Spec => ImplementsAtomicStore
<1>1. Init => Store!Init
  BY StoreStarts
<1>2. ASSUME StoreInv, StoreInv', [Next]_vars
      PROVE  [Store!Next]_<<Latest, Written>>
  <2>1. ASSUME NEW t \in Txns, NEW k \in Keys, NEW kind, Write(t, k, kind) PROVE Store!Next
    BY <1>2, <2>1, WriteIsWrite DEF Store!Next
  <2>2. ASSUME NEW t \in Txns, Mark(t) PROVE Store!Next
    BY <1>2, <2>2, MarkIsCommit DEF Store!Next
  <2>3. ASSUME NEW t \in Txns, Rollback(t) PROVE Store!Next
    BY <1>2, <2>3, RollbackIsAbort DEF Store!Next
  <2>4. CASE \/ ThreadMove \/ FlushPick \/ FlushFails \/ MarkFlushed \/ RunGC
             \/ \E i \in flush.items : FlushItem(i)
    BY <1>2, <2>4, OthersStutter
  <2>5. ThreadMove \/ StoreMove
    BY <1>2, StepKinds DEF StoreInv
  <2> QED BY <2>1, <2>2, <2>3, <2>4, <2>5 DEF StoreMove
<1>3. StoreInv /\ StoreInv' /\ [Next]_vars => [Store!Next]_<<Latest, Written>>
  BY <1>2
<1>4. Store!Spec <=> Store!Init /\ [][Store!Next]_<<Latest, Written>>
  BY DEF Store!Spec, Latest, Written
<1> QED BY <1>1, <1>3, <1>4, StoreKept, PTL DEF Spec, ImplementsAtomicStore
=============================================================================
