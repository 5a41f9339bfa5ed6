------------------------------- MODULE Mvcc --------------------------------
(***************************************************************************)
(* The transactions of one column family: TxManager, TransactionImpl,      *)
(* VersionChainManager and ReadView (src/src/concurrency), with the task   *)
(* that flushes committed versions to the LSM tree and the one that        *)
(* collects old versions.                                                  *)
(*                                                                         *)
(* An action is what runs under one lock: Begin and Commit are chains of   *)
(* actions, a read looks at the version chain and then, if it saw nothing, *)
(* at the LSM tree.                                                        *)
(*                                                                         *)
(* Three neighbours are seen through what they promise here: the lock      *)
(* manager as the owner of each key (module LockManager), the WAL as a set *)
(* of records written and a set of records synced, and the LSM tree (whose *)
(* blocks, files and compaction are in module LsmTree) as its layers: the  *)
(* tables of level 0, and above them the memtables.                        *)
(* Options have their defaults: enable_rr_validation is off.               *)
(***************************************************************************)
EXTENDS Naturals, FiniteSets

CONSTANTS Txns,       \* transactions, each begun at most once
          Keys,
          Isolation,  \* transaction -> "RC" or "RR"
          Users,      \* the readers in use: transactions, or the snapshot
          Writers,    \* transactions that lock, write and commit
          Kinds,      \* what transactions write: "put", "delete"
          StartSeq,   \* last sequence number that recovery found
          MaxWrites,  \* bound: writes of one transaction to one key
          MaxItems,   \* options.mvcc_flush_max_items
          MaxLayers,  \* bound: tables and memtables of the LSM tree
          Recovered,  \* the value of every key after recovery
          Absent,     \* a tombstone, and what reading one returns
          Nobody      \* the owner of a key that is not locked

ASSUME FiniteAssumption == IsFiniteSet(Txns) /\ IsFiniteSet(Keys)
ASSUME IsolationAssumption == Isolation \in [Txns -> {"RC", "RR"}]
ASSUME KindsAssumption == Kinds \subseteq {"put", "delete"}
ASSUME BoundsAssumption ==
    StartSeq \in Nat /\ MaxWrites \in Nat /\ MaxItems \in Nat /\ MaxLayers \in Nat
ASSUME NobodyAssumption == Nobody \notin Txns

VARIABLES lastId,    \* txn_gen_.Current()
          lastSeq,   \* snap_gen_.Current()
          active,    \* active_txns_
          chain,     \* key -> set of versions, each with its place
          lsm,       \* key -> set of entries, each in a layer of the tree
          tree,      \* the layer of the mutable memtable, and of the last table
          wal,       \* records written to the log
          synced,    \* records that a Sync has made durable
          owner,     \* key -> transaction that holds its X lock
          pc,        \* transaction -> what its thread is doing
          id,        \* transaction -> txn_id_
          view,      \* transaction -> its ReadView and lsm_read_seq_
          commit,    \* transaction -> commit_seq and keys still to log
          reading,   \* reader -> keys it is between chain and LSM with
          flush,     \* items still to write, and (key, seq) to mark
          snap,      \* the snapshot a user holds, if any
          history,   \* ghost: key -> commits to it
          results    \* ghost: reader -> key -> what its reads returned

storage == <<chain, lsm, tree>>
logs == <<wal, synced>>
threads == <<lastId, active, owner, pc, id, view, commit>>
observed == <<reading, results>>
vars == <<lastId, lastSeq, active, chain, lsm, tree, wal, synced, owner, pc,
          id, view, commit, reading, flush, snap, history, results>>

Snapshot == Nobody  \* the reader that is no transaction
Readers == Txns \cup {Snapshot}
ASSUME UsersAssumption == Users \subseteq Readers /\ Writers \subseteq Txns
Values == Txns \X (1 .. MaxWrites)
Held == Values \cup {Recovered, Absent}
State == {"Active", "Committed", "Aborted"}
Version == [txn : Txns, val : Values \cup {Absent}, state : State,
            seq : Nat, flushed : BOOLEAN, place : Nat]
Beginning == {"insert", "view", "limit", "seq"}

\* After Open: recovery leaves every key at StartSeq, in a table of level 0
\* below an empty memtable (FinishRecovery), or nothing at all in a new database.
Init ==
    /\ lastId = 0 /\ lastSeq = StartSeq
    /\ active = {}
    /\ chain = [k \in Keys |-> {}]
    /\ lsm = [k \in Keys |->
                IF StartSeq = 0 THEN {}
                ELSE {[seq |-> StartSeq, val |-> Recovered, layer |-> 1]}]
    /\ tree = IF StartSeq = 0 THEN [top |-> 1, disk |-> 0] ELSE [top |-> 2, disk |-> 1]
    /\ wal = {} /\ synced = {}
    /\ owner = [k \in Keys |-> Nobody]
    /\ pc = [t \in Txns |-> "idle"]
    /\ id = [t \in Txns |-> 0]
    /\ view = [t \in Txns |-> [active |-> {}, up |-> 0, seq |-> 0, quiet |-> FALSE]]
    /\ commit = [t \in Txns |-> [seq |-> 0, keys |-> {}]]
    /\ reading = [r \in Readers |-> {}]
    /\ flush = [items |-> {}, mark |-> {}, on |-> FALSE]
    /\ snap = [seq |-> 0, taken |-> FALSE, settled |-> FALSE]
    /\ history = [k \in Keys |->
                    IF StartSeq = 0 THEN {} ELSE {[seq |-> StartSeq, val |-> Recovered]}]
    /\ results = [r \in Readers |-> [k \in Keys |-> {}]]

-----------------------------------------------------------------------------
(* Version chains and the LSM tree. *)

Newest(versions) ==
    {v \in versions : \A w \in versions : w.place <= v.place}

CommittedOf(versions) == {v \in versions : v.state = "Committed"}

ActiveOf(t, k) == {v \in chain[k] : v.txn = t /\ v.state = "Active"}

\* The keys that t has written: touched_keys_ until the end of Commit.
Touched(t) == {k \in Keys : ActiveOf(t, k) # {}}

\* Mutation of MarkVersions: the scan ends at the first chain it changes.
MarkVersionsOfOneKey(t, state, seq) ==
    LET first == CHOOSE k \in Keys : ActiveOf(t, k) # {} \/ Touched(t) = {}
    IN  [k \in Keys |-> {IF v \in ActiveOf(t, k) /\ k = first
                         THEN [v EXCEPT !.state = state, !.seq = seq] ELSE v :
                         v \in chain[k]}]

\* MarkTransactionCommitted and MarkTransactionAborted, over all chains.
MarkVersions(t, state, seq) ==
    [k \in Keys |-> {IF v \in ActiveOf(t, k)
                     THEN [v EXCEPT !.state = state, !.seq = seq] ELSE v :
                     v \in chain[k]}]

\* Mutations of IsVisible: the upper limit is included; the frozen view is used
\* for every isolation level.
IsVisibleAtLimit(t, v) ==
    \/ v.txn = t /\ v.state # "Aborted"
    \/ /\ v.state = "Committed"
       /\ \/ Isolation[t] = "RC"
          \/ id[v.txn] <= view[t].up /\ v.txn \notin view[t].active
IsVisibleFrozen(t, v) ==
    \/ v.txn = t /\ v.state # "Aborted"
    \/ /\ v.state = "Committed"
       /\ id[v.txn] < view[t].up /\ v.txn \notin view[t].active

\* ReadView::IsVisible for the view of t.
IsVisible(t, v) ==
    \/ v.txn = t /\ v.state # "Aborted"
    \/ /\ v.state = "Committed"
       /\ \/ Isolation[t] = "RC"
          \/ id[v.txn] < view[t].up /\ v.txn \notin view[t].active

\* GetVisible: the newest version that the view shows, if any.
GetVisible(t, k) == Newest({v \in chain[k] : IsVisible(t, v)})

\* GetVisibleBySnapshot: the scan starts at the newest version.
GetVisibleBySnapshot(k, seq) ==
    Newest({v \in CommittedOf(chain[k]) : v.seq <= seq})

\* The snapshot 0 shows everything.
Shown(k, seq) == {e \in lsm[k] : seq = 0 \/ e.seq <= seq}

\* Layers are asked from the newest, and the first that shows the key ends the
\* search; in a layer, the newest sequence number is found, a value before a
\* tombstone.
FirstOf(entries) ==
    {e \in entries : \A f \in entries :
        \/ f = e \/ f.layer < e.layer
        \/ /\ f.layer = e.layer
           /\ f.seq < e.seq \/ (f.seq = e.seq /\ f.val = Absent)}

\* LSMTree::Get: a tombstone in a memtable ends the search; a value there does
\* not, and what a table has takes its place.
LsmGet(k, seq) ==
    LET memory == FirstOf({e \in Shown(k, seq) : e.layer > tree.disk})
        table == FirstOf({e \in Shown(k, seq) : e.layer <= tree.disk})
        found == IF table = {} \/ \E e \in memory : e.val = Absent THEN memory ELSE table
    IN  IF found = {} THEN Absent ELSE (CHOOSE e \in found : TRUE).val

\* Of what the snapshot shows of k, nothing lies above something newer, and not
\* one part in memtables and another in tables.
Straight(k, seq) ==
    \A e, f \in Shown(k, seq) :
        /\ e.layer < f.layer => e.seq <= f.seq
        /\ e.layer <= tree.disk => f.layer <= tree.disk

\* Where a put may go: the mutable memtable or, if that is full, a new one.
Filled == \E k \in Keys : \E e \in lsm[k] : e.layer = tree.top
PutLayers ==
    {tree.top} \cup (IF Filled /\ tree.top < MaxLayers THEN {tree.top + 1} ELSE {})

\* LSMTree::Put and Delete: an entry of the same internal key (sequence number
\* and type) in the memtable is overwritten.
LsmWrite(k, seq, val) ==
    \E l \in PutLayers :
        /\ tree' = [tree EXCEPT !.top = l]
        /\ lsm' = [lsm EXCEPT ![k] = {[seq |-> seq, val |-> val, layer |-> l]} \cup
                {e \in @ : \/ e.layer # l \/ e.seq # seq
                           \/ (e.val = Absent) # (val = Absent)}]

-----------------------------------------------------------------------------
(* Begin. *)

Step(t, from, to) == pc[t] = from /\ pc' = [pc EXCEPT ![t] = to]

Settled(t) == pc[t] \in {"idle", "done"}

\* The ghost `quiet` says that no other transaction lived during Begin.
BeginId(t) ==
    /\ Step(t, "idle", "insert")
    /\ lastId' = lastId + 1
    /\ id' = [id EXCEPT ![t] = lastId + 1]
    /\ view' = [u \in Txns |-> [view[u] EXCEPT !.quiet =
                    IF u = t THEN \A w \in Txns \ {t} : Settled(w)
                    ELSE @ /\ pc[u] \notin Beginning]]
    /\ UNCHANGED <<lastSeq, active, storage, logs, owner, commit, observed,
                   flush, snap, history>>

BeginInsert(t) ==
    /\ Step(t, "insert", IF Isolation[t] = "RR" THEN "view" ELSE "running")
    /\ active' = active \cup {t}
    /\ UNCHANGED <<lastId, lastSeq, storage, logs, owner, id, view, commit,
                   observed, flush, snap, history>>

\* The three reads of BuildReadView and Begin for a repeatable read.
BeginView(t) ==
    /\ Step(t, "view", "limit")
    /\ view' = [view EXCEPT ![t].active = active]
    /\ UNCHANGED <<lastId, lastSeq, active, storage, logs, owner, id, commit,
                   observed, flush, snap, history>>

BeginLimit(t) ==
    /\ Step(t, "limit", "seq")
    /\ view' = [view EXCEPT ![t].up = lastId + 1]
    /\ UNCHANGED <<lastId, lastSeq, active, storage, logs, owner, id, commit,
                   observed, flush, snap, history>>

BeginSeq(t) ==
    /\ Step(t, "seq", "running")
    /\ view' = [view EXCEPT ![t].seq = lastSeq]
    /\ UNCHANGED <<lastId, lastSeq, active, storage, logs, owner, id, commit,
                   observed, flush, snap, history>>

-----------------------------------------------------------------------------
(* Reads and writes. *)

Ready(t) == pc[t] = "running" /\ reading[t] = {}

\* Mutation of Lock: a lock that is held is granted again.
LockHeld(t, k) ==
    /\ t \in Writers /\ Ready(t)
    /\ owner' = [owner EXCEPT ![k] = t]
    /\ UNCHANGED <<lastId, lastSeq, active, storage, logs, pc, id, view,
                   commit, observed, flush, snap, history>>

\* LockManager::Acquire of the X lock, by Put, Delete and GetForUpdate.
Lock(t, k) ==
    /\ t \in Writers /\ Ready(t) /\ owner[k] = Nobody
    /\ owner' = [owner EXCEPT ![k] = t]
    /\ UNCHANGED <<lastId, lastSeq, active, storage, logs, pc, id, view,
                   commit, observed, flush, snap, history>>

\* PutActive or DeleteActive, once the lock is held.
Write(t, k, kind) ==
    LET number == Cardinality({v \in chain[k] : v.txn = t}) + 1
        after == {v.place + 1 : v \in Newest(chain[k])}
    IN  /\ Ready(t) /\ owner[k] = t
        /\ number <= MaxWrites
        /\ chain' = [chain EXCEPT ![k] = @ \cup
                {[txn |-> t, val |-> IF kind = "put" THEN <<t, number>> ELSE Absent,
                  state |-> "Active", seq |-> 0, flushed |-> FALSE, place |-> p] :
                  p \in IF after = {} THEN {1} ELSE after}]
        /\ UNCHANGED <<lastSeq, lsm, tree, logs, threads, observed, flush, snap, history>>

\* A read returns.  It is recorded unless it saw the reader's own write, or was
\* one of a read-committed transaction that has not locked the key; the ghost
\* `straight' says how what was read lay in the LSM tree, if it was read there.
Recorded(r, k) ==
    r \in Txns => k \notin Touched(r) /\ (Isolation[r] = "RR" \/ owner[k] = r)

Returns(r, k, val, straight) ==
    results' = IF ~Recorded(r, k) THEN results
               ELSE [results EXCEPT ![r][k] = @ \cup
                        {[val |-> val, locked |-> owner[k] = r, straight |-> straight]}]

\* The first half of a read, of the versions that the chain shows.
ReadChain(r, k, found) ==
    /\ IF found = {}
       THEN reading' = [reading EXCEPT ![r] = {k}] /\ UNCHANGED results
       ELSE UNCHANGED reading /\ \E v \in found : Returns(r, k, v.val, TRUE)
    /\ UNCHANGED <<lastSeq, storage, logs, threads, flush, snap, history>>

ReadLsm(r, k, seq) ==
    /\ Returns(r, k, LsmGet(k, seq), Straight(k, seq))
    /\ reading' = [reading EXCEPT ![r] = {}]
    /\ UNCHANGED <<lastSeq, storage, logs, threads, flush, snap, history>>

\* TransactionImpl::Get, and GetForUpdate when t has locked k.
GetChain(t, k) == t \in Users /\ Ready(t) /\ ReadChain(t, k, GetVisible(t, k))

LsmReadSeq(t) == IF Isolation[t] = "RC" THEN lastSeq ELSE view[t].seq

GetLsm(t, k) == k \in reading[t] /\ ReadLsm(t, k, LsmReadSeq(t))

-----------------------------------------------------------------------------
(* Commit, Rollback. *)

Prepare(t) ==
    /\ t \in Writers /\ Ready(t) /\ Step(t, "running", "logging")
    /\ lastSeq' = lastSeq + 1
    /\ commit' = [commit EXCEPT ![t] = [seq |-> lastSeq + 1, keys |-> Touched(t)]]
    /\ UNCHANGED <<lastId, active, storage, logs, owner, id, view, observed,
                   flush, snap, history>>

\* WritePut or WriteDelete of the latest version that t wrote.
Log(t, k) ==
    /\ pc[t] = "logging" /\ k \in commit[t].keys
    /\ wal' = wal \cup {[key |-> k, seq |-> commit[t].seq, val |-> v.val] :
                            v \in Newest(ActiveOf(t, k))}
    /\ commit' = [commit EXCEPT ![t].keys = @ \ {k}]
    /\ UNCHANGED <<lastId, lastSeq, active, storage, synced, owner, pc, id, view,
                   observed, flush, snap, history>>

\* Mutation of SyncLog: the call of Sync is missing.
SyncLogSkipped(t) ==
    /\ commit[t].keys = {} /\ Step(t, "logging", "synced")
    /\ UNCHANGED <<lastId, lastSeq, active, storage, logs, owner, id, view, commit,
                   observed, flush, snap, history>>

SyncLog(t) ==
    /\ commit[t].keys = {} /\ Step(t, "logging", "synced")
    /\ synced' = wal
    /\ UNCHANGED <<lastId, lastSeq, active, storage, wal, owner, id, view, commit,
                   observed, flush, snap, history>>

Mark(t) ==
    /\ Step(t, "synced", "marked")
    /\ chain' = MarkVersions(t, "Committed", commit[t].seq)
    /\ history' = [k \in Keys |-> history[k] \cup
                    {[seq |-> commit[t].seq, val |-> v.val] : v \in Newest(ActiveOf(t, k))}]
    /\ UNCHANGED <<lastId, lastSeq, active, lsm, tree, logs, owner, id, view, commit,
                   observed, flush, snap>>

\* Rollback, the destructor of an unfinished transaction, and Abort when a
\* write to the log or its Sync fails.
Rollback(t) ==
    /\ Ready(t) \/ pc[t] = "logging"
    /\ pc' = [pc EXCEPT ![t] = "marked"]
    /\ chain' = MarkVersions(t, "Aborted", 0)
    /\ UNCHANGED <<lastId, lastSeq, active, lsm, tree, logs, owner, id, view, commit,
                   observed, flush, snap, history>>

\* OnCommitted or OnAborted, then ReleaseAll: the entries are released one by
\* one, but what a transaction locked has no uncommitted version by now.
Leave(t) ==
    /\ Step(t, "marked", "leaving")
    /\ active' = active \ {t}
    /\ UNCHANGED <<lastId, lastSeq, storage, logs, owner, id, view, commit,
                   observed, flush, snap, history>>

Unlock(t) ==
    /\ Step(t, "leaving", "done")
    /\ owner' = [k \in Keys |-> IF owner[k] = t THEN Nobody ELSE owner[k]]
    /\ UNCHANGED <<lastId, lastSeq, active, storage, logs, id, view, commit,
                   observed, flush, snap, history>>

-----------------------------------------------------------------------------
(* Snapshots. *)

\* The ghost `settled` says that no commit had its number and was not marked.
TakeSnapshot ==
    /\ Snapshot \in Users /\ ~snap.taken
    /\ snap' = [seq |-> lastSeq, taken |-> TRUE,
                settled |-> \A t \in Txns : pc[t] \notin {"logging", "synced"}]
    /\ UNCHANGED <<lastSeq, storage, logs, threads, observed, flush, history>>

\* DefaultColumnFamily::Get with a sequence number.
SnapshotChain(k) ==
    /\ snap.taken /\ reading[Snapshot] = {}
    /\ ReadChain(Snapshot, k, GetVisibleBySnapshot(k, snap.seq))

SnapshotLsm(k) == k \in reading[Snapshot] /\ ReadLsm(Snapshot, k, snap.seq)

-----------------------------------------------------------------------------
(* FlushCommittedToLSM and RunGC. *)

Unflushed(k) == {v \in CommittedOf(chain[k]) : ~v.flushed}

\* Mutation of ItemsOf: of each key only the newest version is flushed.
ItemsOfNewest(S) ==
    UNION {{[key |-> k, rec |-> v] : v \in Newest(Unflushed(k))} : k \in S}

ItemsOf(S) == UNION {{[key |-> k, rec |-> v] : v \in Unflushed(k)} : k \in S}

\* PickCommittedNotFlushed: all versions of a key, key after key, until there
\* are MaxItems of them.
FlushPick ==
    /\ ~flush.on
    /\ \E S \in SUBSET Keys :
        /\ ItemsOf(S) # {}
        /\ S = Keys \/ Cardinality(ItemsOf(S)) >= MaxItems
        /\ \E last \in S : Cardinality(ItemsOf(S \ {last})) < MaxItems
        /\ flush' = [items |-> ItemsOf(S), mark |-> {}, on |-> TRUE]
    /\ UNCHANGED <<lastSeq, storage, logs, threads, observed, snap, history>>

\* One call of LSMTree::Put or Delete; of a key, the newest version first.
FlushItem(i) ==
    /\ i \in flush.items
    /\ \A j \in flush.items : j.key = i.key => j.rec.place <= i.rec.place
    /\ LsmWrite(i.key, i.rec.seq, i.rec.val)
    /\ flush' = [flush EXCEPT !.items = @ \ {i},
                              !.mark = @ \cup {<<i.key, i.rec.seq>>}]
    /\ UNCHANGED <<lastSeq, chain, logs, threads, observed, snap, history>>

\* Mutation of FlushFails: the items that were not written are marked as well.
FlushFailsMarks ==
    /\ flush.items # {}
    /\ flush' = [flush EXCEPT !.items = {}, !.mark = @ \cup
                    {<<i.key, i.rec.seq>> : i \in flush.items}]
    /\ UNCHANGED <<lastSeq, storage, logs, threads, observed, snap, history>>

\* A write to the LSM tree is refused: nothing is marked.
FlushFails ==
    /\ flush.items # {}
    /\ flush' = [items |-> {}, mark |-> {}, on |-> FALSE]
    /\ UNCHANGED <<lastSeq, storage, logs, threads, observed, snap, history>>

MarkFlushed ==
    /\ flush.on /\ flush.items = {}
    /\ chain' = [k \in Keys |->
                    {IF v.state = "Committed" /\ <<k, v.seq>> \in flush.mark
                     THEN [v EXCEPT !.flushed = TRUE] ELSE v : v \in chain[k]}]
    /\ flush' = [items |-> {}, mark |-> {}, on |-> FALSE]
    /\ UNCHANGED <<lastSeq, lsm, tree, logs, threads, observed, snap, history>>

\* Mutation of Kept: versions that are not flushed are dropped like the others.
KeptNewest(k) ==
    {v \in chain[k] : v.state = "Active" \/ v \in Newest(CommittedOf(chain[k]))}

\* GarbageCollect keeps what is active, the newest committed version and the
\* committed versions that are not flushed.
Kept(k) ==
    {v \in chain[k] :
        v.state = "Active" \/ v \in Newest(CommittedOf(chain[k])) \cup Unflushed(k)}

RunGC ==
    /\ chain' = [k \in Keys |-> Kept(k)]
    /\ UNCHANGED <<lastSeq, lsm, tree, logs, threads, observed, flush, snap, history>>

\* FlushAll makes the mutable memtable immutable (the flushes it goes on to may
\* fail, so a put may follow).
SwitchMemTable ==
    /\ Filled /\ tree.top < MaxLayers
    /\ tree' = [tree EXCEPT !.top = @ + 1]
    /\ UNCHANGED <<lastSeq, chain, lsm, logs, threads, observed, flush, snap, history>>

\* FlushOldestMemTable, by the background task or FlushAll: the oldest immutable
\* memtable becomes the newest table.
FlushMemTable ==
    /\ tree.disk + 1 < tree.top
    /\ tree' = [tree EXCEPT !.disk = @ + 1]
    /\ UNCHANGED <<lastSeq, chain, lsm, logs, threads, observed, flush, snap, history>>

-----------------------------------------------------------------------------

Next ==
    \/ \E t \in Txns :
        \/ BeginId(t) \/ BeginInsert(t)
        \/ BeginView(t) \/ BeginLimit(t) \/ BeginSeq(t)
        \/ \E k \in Keys : Lock(t, k) \/ GetChain(t, k) \/ GetLsm(t, k) \/ Log(t, k)
        \/ \E k \in Keys, kind \in Kinds : Write(t, k, kind)
        \/ Prepare(t) \/ SyncLog(t) \/ Mark(t)
        \/ Rollback(t) \/ Leave(t) \/ Unlock(t)
    \/ TakeSnapshot
    \/ \E k \in Keys : SnapshotChain(k) \/ SnapshotLsm(k)
    \/ FlushPick \/ FlushFails \/ MarkFlushed \/ RunGC
    \/ \E i \in flush.items : FlushItem(i)
    \/ SwitchMemTable \/ FlushMemTable

Spec == Init /\ [][Next]_vars
=============================================================================
