------------------------------ MODULE LsmProps -----------------------------
(* What the LSM tree promises to those who write to it and read from it. *)
EXTENDS LsmTree

(***************************************************************************)
(* An entry the writer was told is in the tree is in a memtable or in a    *)
(* registered table, and in a file once the tree is closed, through        *)
(* switches, flushes in any interleaving, failed flushes, compactions and  *)
(* a close that reports no error (SwitchMemTable, CompleteFlushedMemTable, *)
(* DoLevelCompaction, Close).  And a committed version that is not there   *)
(* will be picked again: a batch that ended early has marked none of it    *)
(* (FlushCommittedToLSM).                                                  *)
(***************************************************************************)
NothingLost ==
    /\ accepted \subseteq
          MemEntries \cup (IF phase = "closed" THEN FileEntries ELSE TableEntries)
    /\ phase = "open" => log \subseteq unflushed \cup MemEntries \cup TableEntries

(***************************************************************************)
(* Where a reader looks first, in the memtables from the newest to the     *)
(* oldest and then in the tables from the highest number down, it finds    *)
(* the newest version a snapshot may see: what a place further on has of a *)
(* key that is newer is also in the place before.  So it is although       *)
(* batches are put again in part, two batches have versions in common, and *)
(* a recovery puts old versions again into the newest table                *)
(* (GetFromMemTables, SSTableManager::Get, FlushOldestMemTable,            *)
(* LoadExistingSSTables, FinishRecovery).  It is not so of a key of which  *)
(* an older version came after a newer one, as batches bring them, with a  *)
(* switch of the memtable in between (PickCommittedNotFlushed).            *)
(***************************************************************************)
Covered(es, fs, unless) ==
    \A e \in es, f \in fs : e.key = f.key /\ f.seq < e.seq => e \in fs \/ e.key \in unless

NewestFirst ==
    /\ \A i \in DOMAIN immutables : /\ Covered(immutables[i], mutable, split)
                                    /\ Covered(TableEntries, immutables[i], split)
    /\ \A i, j \in DOMAIN immutables : i < j => Covered(immutables[i], immutables[j], split)
    /\ Covered(TableEntries, mutable, split)
    /\ \A t, u \in LevelFiles(0) :
          t.number < u.number => Covered(t.entries, u.entries, split)

(***************************************************************************)
(* A read at any snapshot returns the newest version there is, or nothing  *)
(* if that is a deletion, although the search of the tables ends at the    *)
(* first one that has a version and looks into one block of each: for a    *)
(* key that keeps to the order above, whose versions do not go over the    *)
(* end of a block, and which is not both in memtables and in tables        *)
(* (LSMTree::Get, SSTableManager::Get, SSTableReader::Get).  Where it is   *)
(* in both an older version in a table takes the place of the value        *)
(* (GetIsNewest).                                                          *)
(***************************************************************************)
InOneBlock(t, k) == \A e, f \in Visible(t.entries, k, 0) : BlockOf(t, e) = BlockOf(t, f)

NewestOrNothing(k, s) ==
    LET e == Newest(Visible(MemEntries \cup TableEntries, k, s))
    IN  IF e # NoEntry /\ e.kind = "Deletion" THEN NoEntry ELSE e

ReadsNewest ==
    \A k \in Keys \ split, s \in 0 .. MaxSeq :
        (\A t \in tables : InOneBlock(t, k)) =>
            /\ TableGet(k, s) = Newest(Visible(TableEntries, k, s))
            /\ Visible(MemEntries, k, s) = {} \/ Visible(TableEntries, k, s) = {}
                  => Get(k, s) = NewestOrNothing(k, s)

-----------------------------------------------------------------------------
(* The flush task runs every second until a run of it fails: then it is    *)
(* gone.  FlushAll is a loop of its caller.                                *)
Fairness == WF_vars(FlushOldest) /\ WF_vars(FlushAllEnds)
FairSpec == Spec /\ Fairness

(***************************************************************************)
(* What is in an immutable memtable gets into a table while the tree is    *)
(* open and the flush task has not failed: a flush of an older memtable,   *)
(* FlushAll and writers do not keep it there (TriggerFlush, FlushAll).     *)
(***************************************************************************)
SwitchedIsFlushed ==
    \A e \in Entries :
        (\E i \in DOMAIN immutables : e \in immutables[i]) ~>
            (e \in TableEntries \/ phase # "open" \/ "flush" \notin tasks)

(***************************************************************************)
(* A read returns the newest version the snapshot sees: what is found in a *)
(* memtable is not replaced by what a table has (LSMTree::Get,             *)
(* GetFromSSTables).                                                       *)
(***************************************************************************)
GetIsNewest ==
    phase = "open" =>
        \A k \in Keys \ split, s \in 0 .. MaxSeq : Get(k, s) = NewestOrNothing(k, s)
=============================================================================
