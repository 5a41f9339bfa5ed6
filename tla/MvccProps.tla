----------------------------- MODULE MvccProps -----------------------------
(***************************************************************************)
(* What the transactions of a column family promise, over the state of     *)
(* Mvcc, and the abstract store they implement.                            *)
(***************************************************************************)
EXTENDS Mvcc

CONSTANT Nothing  \* what a transaction that has not written a key wrote to it
ASSUME NothingAssumption == Nothing \notin Held

\* The uncommitted versions of a key are of the transaction that holds its
\* lock and newer than all that is committed: a commit, a rollback or a
\* failed log write marks its versions before it gives the lock away.
SingleWriter ==
    \A k \in Keys : \A v \in chain[k] :
        v.state = "Active" =>
            /\ owner[k] = v.txn
            /\ \A w \in CommittedOf(chain[k]) : w.place < v.place

\* Sequence numbers grow along a chain, although they are drawn long before
\* the versions are marked: the scan of GetVisibleBySnapshot from the newest
\* version relies on it.
CommitOrder ==
    \A k \in Keys : \A v, w \in CommittedOf(chain[k]) :
        v.place < w.place => v.seq <= w.seq

\* No version is flushed before an older one of its key.  If one were,
\* GarbageCollect could drop it and leave the older one to be read in its place.
FlushedInOrder ==
    \A k \in Keys : \A v, w \in CommittedOf(chain[k]) :
        v.place < w.place /\ w.flushed => v.flushed

\* What the commits to k up to seq left there.
HistoryAt(k, seq) ==
    LET upTo == {e \in history[k] : e.seq <= seq}
        last == {e \in upTo : \A f \in upTo : f.seq <= e.seq}
    IN  IF last = {} THEN Absent ELSE (CHOOSE e \in last : TRUE).val

\* What the reads returned that found the LSM tree straight or did without it.
Returned(r, k) == {x.val : x \in {y \in results[r][k] : y.straight}}

\* A snapshot taken while no commit was half done reads what was committed up
\* to its number, whatever is flushed and collected between two reads or between
\* the two halves of one (GarbageCollect's comment: a reader of a dropped version
\* "falls back to the LSM").  Where the LSM tree is not straight, a read may
\* return an older commit, but never a newer one or what nobody committed.
SnapshotReadsItsPast ==
    snap.settled /\ snap.seq > 0 =>
        \A k \in Keys :
            /\ Returned(Snapshot, k) \subseteq {HistoryAt(k, snap.seq)}
            /\ \A x \in results[Snapshot][k] :
                   x.val \in {HistoryAt(k, q) : q \in 0 .. snap.seq}

\* What the LSM tree holds of k, in whatever layer.
Contents(k) == {[seq |-> e.seq, val |-> e.val] : e \in lsm[k]}

\* Once every version of a commit is flushed or gone, the LSM tree has what it
\* left, and reading it there gives that while the tree is straight: GarbageCollect
\* may drop the versions, and a clean restart does (GarbageCollect: flushed
\* versions "can safely be dropped").
FlushedIsReadable ==
    \A k \in Keys : \A e \in history[k] :
        (\A v \in CommittedOf(chain[k]) : v.seq = e.seq => v.flushed)
            => e \in Contents(k) /\ (Straight(k, e.seq) => LsmGet(k, e.seq) = e.val)

\* A repeatable-read transaction that began alone reads the same value of a key
\* every time, from the chain or from the LSM tree while that is straight
\* (BuildReadView, LsmReadSeq).
QuietReadsRepeat ==
    \A t \in Txns, k \in Keys :
        Isolation[t] = "RR" /\ view[t].quiet /\ view[t].seq > 0 =>
            Cardinality(Returned(t, k)) <= 1

\* What a read-committed GetForUpdate returned stays the latest commit to the
\* key until the transaction ends: read, change and write loses no update.
LockedReadsLatest ==
    \A t \in Txns, k \in Keys :
        Isolation[t] = "RC" /\ pc[t] \in {"running", "logging", "synced"} =>
            \A x \in results[t][k] :
                x.locked => x.val = HistoryAt(k, lastSeq)

\* Whatever another transaction can read has been synced to the log first: the
\* committed versions, and the entries of the LSM tree.
DurableBeforeVisible ==
    \A k \in Keys : \A e \in history[k] \cup Contents(k) :
        \/ e \in history[k] /\ e.seq = StartSeq
        \/ [key |-> k, seq |-> e.seq, val |-> e.val] \in synced

\* The chains and the LSM tree together are an AtomicStore: the store is what a
\* plain read sees (the newest committed version, or the LSM tree when there
\* is none), and commits take effect at once at MarkTransactionCommitted.
LatestRead(k) ==
    LET newest == Newest(CommittedOf(chain[k]))
    IN  IF newest = {} THEN LsmGet(k, 0) ELSE (CHOOSE v \in newest : TRUE).val

WrittenBy(t, k) ==
    LET newest == Newest(ActiveOf(t, k))
    IN  IF newest = {} THEN Nothing ELSE (CHOOSE v \in newest : TRUE).val

Store == INSTANCE AtomicStore WITH
            Vals <- Held,
            store <- [k \in Keys |-> LatestRead(k)],
            pending <- [t \in Txns |-> [k \in Keys |-> WrittenBy(t, k)]]

ImplementsAtomicStore == Store!Spec

=============================================================================
