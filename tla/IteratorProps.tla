--------------------------- MODULE IteratorProps ---------------------------
(* What a caller of an iterator gets to see. *)
EXTENDS Iterators

(* What there is to see: the version of the chain, else the newest visible *)
(* one of the children.                                                    *)
Written(k) == {e \in UNION {{data[c][i] : i \in 1 .. Size(c)} : c \in Children} : e.key = k}
View(k) == IF k \in ChainKeys THEN OfChain(k) ELSE NewestVisible(Written(k))
Shown == {k \in Keys \cup ChainKeys : IsLive(View(k))}

Above(k) == {l \in Shown : l > k}
StandsAt(S, k) == Now = IF S = {} THEN NoEntry ELSE View(k)

(***************************************************************************)
(* A scan from SeekToFirst by Next returns every key that is there once,   *)
(* in order, each with its newest visible version, and no deleted key, from*)
(* whatever memtables and tables the versions come                         *)
(* (LSMTreeMergeIterator::FindSmallest, Next).  For a transaction what its *)
(* chain has of a key, a value or a deletion, takes the place of what the  *)
(* tree has (TxnIterator::Advance).  A scan after a call of Prev on the    *)
(* same iterator is not `clean': SeekToFirst leaves its direction as it is.*)
(***************************************************************************)
ScanIsComplete == pc = "idle" /\ clean => StandsAt(Above(floor), Least(Above(floor)))

(***************************************************************************)
(* Over memtables Seek finds the first key from the target on, and Next    *)
(* goes on from there, also when the direction changes in between          *)
(* (LSMTreeMergeIterator::Seek, Next, MemTableIterator::Seek).             *)
(***************************************************************************)
NoTables == \A c \in Tables : Size(c) = 0
ForwardInMemory ==
    pc = "idle" /\ NoTables /\ op \in {"first", "seek", "next"} =>
        StandsAt(Above(floor), Least(Above(floor)))
=============================================================================
