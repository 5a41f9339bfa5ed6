------------------------------ MODULE WalProps -----------------------------
(* What the log promises to commits that returned, and to later sessions. *)
EXTENDS Wal

Acked == UNION Range(acked)
InOrderBefore(a, b) ==
    \E i, j \in DOMAIN acked : i < j /\ a \in acked[i] /\ b \in acked[j]

(* The records of a file that no crash can take away. *)
Settled(f) ==
    {logs[f][i] : i \in 1 .. (IF f = CurrentFile THEN synced ELSE Len(logs[f]))}

(***************************************************************************)
(* A record of a commit that returned OK is in a table or on disk in a log *)
(* file, at every moment, and when the process is down the next opening    *)
(* will look at the files (it does so only if wal/ has one): rotation,     *)
(* replay, the deletion of replayed files and the truncation at Close lose *)
(* nothing.  Excepted are transactions with records in a file that was     *)
(* given up because it could not be synced, where Commit returns OK after  *)
(* syncing the next file only (Transaction::Commit, RecoverFromWAL,        *)
(* SwitchToNewWALLocked, TruncateLogs).                                    *)
(***************************************************************************)
AckedSurvives ==
    \A r \in Acked :
        \/ r.txn \in doubted \/ r \in tables
        \/ /\ \E f \in DOMAIN logs : r \in Settled(f)
           /\ phase \in {"down", "refused"} => WalFiles # {}

(***************************************************************************)
(* The three properties of the numbers hold until the process has died     *)
(* twice: after two crashes with no commit in between the log has nothing  *)
(* to take the numbers up from.  And they hold as long as each opening has *)
(* found the number that was to be in LAST_SEQUENCE, there or in the log:  *)
(* Shutdown empties the file, does not look at the result of writing it    *)
(* and does not sync it, and Close deletes the logs all the same.  Commits *)
(* with records in a file that was given up are excepted: their numbers    *)
(* may be gone with the file.                                              *)
(***************************************************************************)
Remembered == crashes <= 1 /\ ~forgotten
InDoubt(r) == r.txn \in doubted

(***************************************************************************)
(* When the database is open no table has a record with a number above the *)
(* one reads and the next commit start from; otherwise reads would miss    *)
(* it, and new commits would be shadowed by it (the constructor of         *)
(* DefaultColumnFamily, step 8).                                           *)
(***************************************************************************)
NumbersCover ==
    phase = "open" /\ Remembered =>
        \A r \in tables : InDoubt(r) \/ r.seq <= snapshot

(***************************************************************************)
(* No two transactions ever log under one number, in whatever session they *)
(* ran: records with the same key and number would replace each other when *)
(* they meet in a table (PrepareCommit, RecoverSetSnapshot, LAST_SEQUENCE).*)
(***************************************************************************)
OneCommitPerNumber ==
    Remembered =>
        \A r, o \in tables \cup Logged :
            r.seq = o.seq => InDoubt(r) \/ InDoubt(o) \/ r.txn = o.txn

(***************************************************************************)
(* Of two commits of a key the one that returned later has the higher      *)
(* number, also across restarts, so that reads find it first               *)
(* (PrepareCommit under the lock of the key, RecoverSetSnapshot).          *)
(***************************************************************************)
LaterCommitWins ==
    Remembered =>
        \A a, b \in Acked :
            a.key = b.key /\ InOrderBefore(a, b) => InDoubt(a) \/ a.seq < b.seq

=============================================================================
