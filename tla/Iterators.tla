----------------------------- MODULE Iterators -----------------------------
(***************************************************************************)
(* The iterators of the read path: the iterator of a memtable              *)
(* (MemTableIterator over the skip list), the iterator of a table          *)
(* (SSTableIterator, through a LevelIterator of one file), their merge     *)
(* (LSMTreeMergeIterator), and the iterator of a transaction over the      *)
(* merge and its own versions (TxnIterator).                               *)
(*                                                                         *)
(* A behaviour is one iterator over data that stays as it was when the     *)
(* iterator was made, and any sequence of calls.  Tables are files of      *)
(* level 0, one iterator each: no compaction brings a file to a lower      *)
(* level (module LsmTree), so the iterators of those levels have no file.  *)
(*                                                                         *)
(* A child is a sequence of entries, its position an index, 0 when it is   *)
(* not valid.  A call runs loops; each turn of a loop is a step, and the   *)
(* next call comes when the last one has returned.                         *)
(***************************************************************************)
EXTENDS Integers, Sequences, FiniteSets

CONSTANTS Slots,        \* the <<key, seq>> that may have been written
          Kinds,        \* {"Value", "Deletion"}
          Memtables, Tables,  \* children: Memtables is 1 .. m, Tables m + 1 .. n
          BlockCap,     \* entries of a data block
          Snapshots,    \* snapshot numbers, 0 for the latest
          Chains,       \* sets of entries, what CollectVisible may return
          NoEntry

Keys == {s[1] : s \in Slots}
Children == Memtables \cup Tables
Entries == [key : Keys, seq : {s[2] : s \in Slots}, kind : Kinds]

ASSUME ChildrenAssumption ==
    /\ IsFiniteSet(Slots) /\ \A s \in Slots : s[1] \in Nat /\ s[1] # 0 /\ s[2] \in Nat
    /\ Children \subseteq Nat /\ 0 \notin Children /\ Memtables \cap Tables = {}
    /\ Kinds \subseteq {"Value", "Deletion"} /\ BlockCap \in Nat /\ BlockCap # 0
ASSUME ChainsAssumption ==
    /\ \A h \in Chains : h \subseteq [key : Nat, seq : Nat, kind : Kinds]
    /\ \A h \in Chains : \A e \in h : e.key # 0 /\ e # NoEntry
    /\ \A h \in Chains : \A e, o \in h : e.key = o.key => e = o
    /\ NoEntry \notin Entries

VARIABLES
    data,     \* child -> its entries in its order
    snapshot, \* snapshot_
    pos,      \* child -> its position
    dir,      \* direction_, "Forward" or "Reverse"
    cur,      \* the entry at which the merge stands, NoEntry: not valid
    chain,    \* mvcc_map_: the version of each key that the view sees
    mvNext,   \* the key at mvcc_idx_, 0 after the last
    txn,      \* the entry at which TxnIterator stands
    user,     \* "lsm": the merge is used by itself, "txn": through TxnIterator
    pc,       \* "small", "large": in FindSmallest, FindLargest; "advance": in
              \* Advance; "idle": between calls
    back,     \* where pc goes when the call of the merge returns
    bound,    \* last_key of Next and Prev of the merge, 0 in the other calls
    op, floor, clean  \* history: last call; all keys up to floor are passed;
                      \* forward calls only since SeekToFirst

given == <<data, snapshot, chain, user>>
merge == <<pos, dir, cur>>
control == <<pc, back, bound>>
history == <<op, floor, clean>>
vars == <<given, merge, mvNext, txn, control, history>>

-----------------------------------------------------------------------------
(* Sets of numbers and ordered sequences of entries. *)

Least(S) == IF S = {} THEN 0 ELSE CHOOSE x \in S : \A y \in S : x <= y
Greatest(S) == IF S = {} THEN 0 ELSE CHOOSE x \in S : \A y \in S : y <= x

(* A memtable has the newest version of a key first; in a table the bytes  *)
(* of the internal keys ascend: values before deletions, then numbers up.  *)
InternalBelow(a, b) == a.key < b.key \/ (a.key = b.key /\ a.seq > b.seq)
BytesBelow(a, b) ==
    \/ a.key < b.key
    \/ a.key = b.key /\ a.kind = "Value" /\ b.kind = "Deletion"
    \/ a.key = b.key /\ a.kind = b.kind /\ a.seq < b.seq
Below(c, a, b) == IF c \in Memtables THEN InternalBelow(a, b) ELSE BytesBelow(a, b)

Orders(c, es) ==
    {s \in [1 .. Cardinality(es) -> es] : \A i, j \in DOMAIN s : i < j => Below(c, s[i], s[j])}

-----------------------------------------------------------------------------
(* One child. *)

Size(c) == Len(data[c])

ChildFirst(c) == IF Size(c) = 0 THEN 0 ELSE 1
ChildLast(c) == Size(c)

(* Mutant: the key sought is built with the number 0 instead of the        *)
(* largest, and lies behind the versions of k.                             *)
MemSeekPast(c, k) == Least({i \in 1 .. Size(c) : data[c][i].key > k})

MemSeek(c, k) == Least({i \in 1 .. Size(c) : data[c][i].key >= k})

(* The block: the last one whose first key is not above k. *)
FindIndexEntry(c, k) ==
    Greatest({i \in 1 .. Size(c) : (i - 1) % BlockCap = 0 /\ data[c][i].key <= k})

(* SeekInBlock compares one entry, parses a second one and goes on behind  *)
(* it; it does not look into the next block.                               *)
Compared(b, i) == (i - b) % 2 = 0
SeekInBlock(c, b, k) ==
    Least({i \in b .. Size(c) : i < b + BlockCap /\ Compared(b, i) /\ data[c][i].key >= k})

TableSeek(c, k) ==
    LET b == FindIndexEntry(c, k) IN IF b = 0 THEN 0 ELSE SeekInBlock(c, b, k)

(* A LevelIterator of one file passes the call on. *)
ChildSeek(c, k) == IF c \in Memtables THEN MemSeek(c, k) ELSE TableSeek(c, k)
ChildNext(c, i) == IF i < Size(c) THEN i + 1 ELSE 0

(* MoveToPrevInBlock looks for the entry before the offset, which is the   *)
(* one it stands at.                                                       *)
ChildPrev(c, i) == IF c \in Memtables THEN i - 1 ELSE i

-----------------------------------------------------------------------------
(* The merge. *)

ValidIn(p) == {c \in Children : p[c] \in 1 .. Size(c)}
KeyAt(c, p) == data[c][p[c]].key

(* The user key of the child that PickChild chooses; among the children    *)
(* that stand on one key the choice makes no difference.                   *)
SmallestKey(p) == Least({KeyAt(c, p) : c \in ValidIn(p)})
LargestKey(p) == Greatest({KeyAt(c, p) : c \in ValidIn(p)})

(* From its position on a child has only entries of k before others: they  *)
(* are consumed.                                                           *)
Run(c, p, k) ==
    IF p[c] = 0 THEN {}
    ELSE {i \in p[c] .. Size(c) : \A j \in p[c] .. i : data[c][j].key = k}
Consumed(p, k) == UNION {{data[c][i] : i \in Run(c, p, k)} : c \in Children}
Consume(p, k) ==
    [c \in Children |-> IF Run(c, p, k) = {} THEN p[c]
                        ELSE ChildNext(c, Greatest(Run(c, p, k)))]

(* consider_version: the visible version with the highest number. *)
NewestVisible(es) ==
    LET seen == {e \in es : snapshot = 0 \/ e.seq <= snapshot}
    IN  IF seen = {} THEN NoEntry
        ELSE CHOOSE e \in seen : \A o \in seen : o.seq <= e.seq
IsLive(e) == e # NoEntry /\ e.kind = "Value"

(* One turn: es are the versions of k, from the positions q on they are    *)
(* consumed.  A key with no visible version, or a deleted one, is skipped. *)
Turn(q, k, es, enough) ==
    LET e == NewestVisible(es)
    IN  /\ pos' = Consume(q, k)
        /\ cur' = IF IsLive(e) THEN e ELSE NoEntry
        /\ IF IsLive(e) /\ enough THEN pc' = back /\ back' = "idle" /\ bound' = 0
                                  ELSE UNCHANGED control

NoMore ==
    /\ pc' = back /\ back' = "idle" /\ bound' = 0 /\ cur' = NoEntry /\ UNCHANGED pos

(* Mutant: only the children that stand on the key are consumed, the       *)
(* newest version is taken from the first of them.                         *)
FindSmallestOfFirst ==
    /\ pc = "small"
    /\ \/ ValidIn(pos) = {} /\ NoMore
       \/ /\ ValidIn(pos) # {}
          /\ LET k == SmallestKey(pos)
                 b == Least({c \in ValidIn(pos) : KeyAt(c, pos) = k})
             IN  Turn(pos, k, {data[b][i] : i \in Run(b, pos, k)}, k > bound)
    /\ UNCHANGED <<given, dir, mvNext, txn, history>>

(* The loop of FindSmallest, inside the loop of Next up to a key above     *)
(* last_key.                                                               *)
FindSmallest ==
    /\ pc = "small"
    /\ \/ ValidIn(pos) = {} /\ NoMore
       \/ /\ ValidIn(pos) # {}
          /\ LET k == SmallestKey(pos) IN Turn(pos, k, Consumed(pos, k), k > bound)
    /\ UNCHANGED <<given, dir, mvNext, txn, history>>

SeekAll(k) == [c \in Children |-> ChildSeek(c, k)]

(* FindLargest puts every child on the first version of the best key, also *)
(* those that stand before it, and leaves them behind it; Prev goes on     *)
(* down to a key below last_key.                                           *)
FindLargest ==
    /\ pc = "large"
    /\ \/ ValidIn(pos) = {} /\ NoMore
       \/ /\ ValidIn(pos) # {}
          /\ LET k == LargestKey(pos)
             IN  Turn(SeekAll(k), k, Consumed(SeekAll(k), k), bound = 0 \/ k < bound)
    /\ UNCHANGED <<given, dir, mvNext, txn, history>>

(* The three ways to seek; cur is not valid until the loop finds an entry. *)
(* SeekToFirst and SeekToLast leave the direction as it was.               *)
Search(p, d, loop) ==
    /\ pos' = p /\ dir' = d /\ cur' = NoEntry
    /\ pc' = loop /\ bound' = 0
    /\ back' = IF user = "lsm" THEN "idle" ELSE "advance"

MergeNext(b) ==
    /\ IF dir = "Forward" THEN UNCHANGED pos ELSE pos' = SeekAll(cur.key)
    /\ dir' = "Forward" /\ cur' = NoEntry
    /\ pc' = "small" /\ back' = b /\ bound' = cur.key

MergePrev ==
    /\ IF dir = "Reverse" THEN UNCHANGED pos
       ELSE pos' = [c \in Children |-> IF ChildSeek(c, cur.key) = 0 THEN 0
                                       ELSE ChildPrev(c, ChildSeek(c, cur.key))]
    /\ dir' = "Reverse" /\ cur' = NoEntry
    /\ pc' = "large" /\ back' = "idle" /\ bound' = cur.key

-----------------------------------------------------------------------------
(* TxnIterator. *)

ChainKeys == {e.key : e \in chain}
OfChain(k) == CHOOSE e \in chain : e.key = k
LowerBoundMVCC(k) == Least({l \in ChainKeys : l >= k})
After(k) == Least({l \in ChainKeys : l > k})

Lsm == cur # NoEntry
VersionFirst == mvNext # 0 /\ (Lsm => mvNext <= cur.key)

(* The loop of Advance.  The version of the chain goes first and takes the *)
(* tree past its key; a deleted key is skipped on both sides.              *)
AdvanceEnds ==
    /\ pc = "advance" /\ mvNext = 0 /\ ~Lsm
    /\ txn' = NoEntry /\ pc' = "idle"
    /\ UNCHANGED <<given, merge, mvNext, back, bound, history>>

AdvanceVersion ==
    /\ pc = "advance" /\ VersionFirst
    /\ mvNext' = After(mvNext)
    /\ LET e == OfChain(mvNext)
           b == IF e.kind = "Deletion" THEN "advance" ELSE "idle"
       IN  /\ txn' = IF e.kind = "Deletion" THEN txn ELSE e
           /\ IF Lsm /\ cur.key = mvNext THEN MergeNext(b)
              ELSE pc' = b /\ UNCHANGED <<merge, back, bound>>
    /\ UNCHANGED <<given, history>>

AdvanceTree ==
    /\ pc = "advance" /\ Lsm /\ ~VersionFirst
    /\ LET e == IF cur.key \in ChainKeys THEN OfChain(cur.key) ELSE cur
           b == IF e.kind = "Deletion" THEN "advance" ELSE "idle"
       IN  txn' = (IF e.kind = "Deletion" THEN txn ELSE e) /\ MergeNext(b)
    /\ UNCHANGED <<given, mvNext, history>>

-----------------------------------------------------------------------------
(* Calls. *)

Call(o, f, c) == pc = "idle" /\ op' = o /\ floor' = f /\ clean' = c /\ UNCHANGED given

SeekToFirst ==
    /\ Search([c \in Children |-> ChildFirst(c)], dir, "small")
    /\ mvNext' = LowerBoundMVCC(0) /\ UNCHANGED txn
    /\ Call("first", 0, dir = "Forward")

Seek(k) ==
    /\ Search(SeekAll(k), "Forward", "small")
    /\ mvNext' = LowerBoundMVCC(k) /\ UNCHANGED txn
    /\ Call("seek", k - 1, FALSE)

Now == IF user = "lsm" THEN cur ELSE txn

NextEntry ==
    /\ Now # NoEntry
    /\ IF user = "lsm" THEN MergeNext("idle")
                       ELSE pc' = "advance" /\ UNCHANGED <<merge, back, bound>>
    /\ UNCHANGED <<mvNext, txn>>
    /\ Call("next", Now.key, clean)

(* TxnIterator goes forward only: the other calls end it. *)
EndTxn == txn' = NoEntry /\ UNCHANGED <<merge, control>>

SeekToLast ==
    /\ IF user = "txn" THEN EndTxn
       ELSE Search([c \in Children |-> ChildLast(c)], dir, "large") /\ UNCHANGED txn
    /\ UNCHANGED mvNext
    /\ Call("last", floor, FALSE)

Prev ==
    /\ Now # NoEntry
    /\ IF user = "txn" THEN EndTxn ELSE MergePrev /\ UNCHANGED txn
    /\ UNCHANGED mvNext
    /\ Call(IF dir = "Forward" THEN "prev" ELSE "prevs", Now.key, FALSE)

-----------------------------------------------------------------------------

(* Every written entry is in one child; what is written has one kind.      *)
Absent == [in |-> 0, kind |-> "Value"]
Held(w, c) == {[key |-> s[1], seq |-> s[2], kind |-> w[s].kind] : s \in {s \in Slots : w[s].in = c}}

Init ==
    /\ \E w \in [Slots -> {Absent} \cup [in : Children, kind : Kinds]] :
          data \in {d \in [Children -> UNION {Orders(c, Held(w, c)) : c \in Children}] :
                       \A c \in Children : d[c] \in Orders(c, Held(w, c))}
    /\ snapshot \in Snapshots
    /\ \/ user = "lsm" /\ chain = {}
       \/ user = "txn" /\ chain \in Chains
    /\ pos = [c \in Children |-> 0] /\ dir = "Forward" /\ cur = NoEntry
    /\ mvNext = 0 /\ txn = NoEntry
    /\ pc = "idle" /\ back = "idle" /\ bound = 0
    /\ op = "new" /\ floor = 0 /\ clean = FALSE

Next ==
    \/ SeekToFirst \/ (\E k \in Keys : Seek(k)) \/ NextEntry \/ SeekToLast \/ Prev
    \/ FindSmallest \/ FindLargest \/ AdvanceEnds \/ AdvanceVersion \/ AdvanceTree

Spec == Init /\ [][Next]_vars
=============================================================================
