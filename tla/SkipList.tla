------------------------------ MODULE SkipList ------------------------------
(***************************************************************************)
(* The skip list of a memtable (src/include/lrdb/util/skiplist.h) between  *)
(* a writer, which holds the memtable's mutex, and iterators, which hold   *)
(* no lock: MemTable::Put and Delete, MemTableIterator.                    *)
(*                                                                         *)
(* A step of a reader is one load and what follows from it.  A pointer is  *)
(* the key of its node, 0 is the null pointer, and the pointers of node 0  *)
(* are those of the head; level 1 is the code's level 0.  Nothing is taken *)
(* out of the list as long as the memtable lives.                          *)
(***************************************************************************)
EXTENDS Integers, FiniteSets

CONSTANTS Keys,       \* internal keys, numbers in their order
          Values,     \* entries
          MaxHeight,  \* kMaxHeight
          Readers

ASSUME ListAssumption ==
    /\ Keys \subseteq Nat \ {0} /\ Values \subseteq Nat \ {0}
    /\ MaxHeight \in Nat \ {0}

VARIABLES
    next,       \* node -> level -> pointer
    value,      \* key -> entry, 0 for no node
    maxHeight,  \* max_height_
    writer,     \* the insertion under way
    wish,       \* reader -> its call
    x, level,   \* reader -> node and level of its search, 0 before it
    at, got     \* reader -> node it stands at, entry it has read

list == <<next, value, maxHeight, writer>>
readers == <<wish, x, level, at, got>>
vars == <<list, readers>>

Levels == 1 .. MaxHeight
Nodes == {0} \cup Keys
Resting == [key |-> 0, height |-> 0, level |-> 0, own |-> FALSE]
Idle == [op |-> "none", key |-> 0]

Init ==
    /\ next = [n \in Nodes |-> [i \in Levels |-> 0]]
    /\ value = [k \in Keys |-> 0]
    /\ maxHeight = 1
    /\ writer = Resting
    /\ wish = [r \in Readers |-> Idle]
    /\ x = [r \in Readers |-> 0] /\ level = [r \in Readers |-> 0]
    /\ at = [r \in Readers |-> 0] /\ got = [r \in Readers |-> 0]

(* The nodes a level leads to: the least set with the first one that its   *)
(* pointers do not leave.                                                  *)
Chain(i) ==
    LET closed == {S \in SUBSET Keys : \A n \in S \cup {0} : next[n][i] \in S \cup {0}}
    IN  {k \in Keys : \A S \in closed : k \in S}

-----------------------------------------------------------------------------
(* The writer. *)

(* prev[i] of FindGreaterOrEqual; nobody else changes the list.  On the    *)
(* levels that are added it is the head.                                   *)
Predecessor(k, i) ==
    LET before == {m \in Chain(i) \cup {0} : m < k}
    IN  CHOOSE m \in before : \A o \in before : o <= m

AllocateNode(k, v) ==
    /\ next' = [next EXCEPT ![k] = [i \in Levels |-> 0]]
    /\ value' = [value EXCEPT ![k] = v]

(* An entry of the same internal key is replaced.  Otherwise max_height_   *)
(* grows before the node is linked.                                        *)
Insert(k, v, h) ==
    /\ writer = Resting
    /\ IF k \in Chain(1)
       THEN value' = [value EXCEPT ![k] = v] /\ UNCHANGED <<next, maxHeight, writer>>
       ELSE /\ maxHeight' = IF h > maxHeight THEN h ELSE maxHeight
            /\ AllocateNode(k, v)
            /\ writer' = [key |-> k, height |-> h, level |-> 1, own |-> FALSE]
    /\ UNCHANGED readers

(* Mutant: the levels are linked from the top. *)
LevelFromTop(n, height) == height + 1 - n
LinkedAs(n, height) == n
Linking == LinkedAs(writer.level, writer.height)

(* Mutant: the node's own pointer is left as it was allocated. *)
LinkInOnly ==
    IF writer.own THEN [next EXCEPT ![Predecessor(writer.key, Linking)][Linking] = writer.key]
    ELSE next

(* On each level from the bottom: the node's own pointer, then the one to  *)
(* the node.                                                               *)
LinkIn ==
    LET p == Predecessor(writer.key, Linking)
    IN  IF writer.own THEN [next EXCEPT ![p][Linking] = writer.key]
        ELSE [next EXCEPT ![writer.key][Linking] = next[p][Linking]]

RandomHeights == Levels

(* MemTable::Put and Delete enter the entry they have made under its mutex;*)
(* the rest of the insertion are the steps of SetNext.                     *)
Put(k, v) == \E h \in RandomHeights : Insert(k, v, h)

SetNext ==
    /\ writer # Resting
    /\ next' = LinkIn
    /\ writer' = IF ~writer.own THEN [writer EXCEPT !.own = TRUE]
                 ELSE IF writer.level = writer.height THEN Resting
                 ELSE [writer EXCEPT !.level = @ + 1, !.own = FALSE]
    /\ UNCHANGED <<value, maxHeight, readers>>

-----------------------------------------------------------------------------
(* Readers. *)

Begin(r, w) ==
    /\ wish[r] = Idle
    /\ wish' = [wish EXCEPT ![r] = w]
    /\ UNCHANGED <<list, x, level, at, got>>

Seek(r, k) == Begin(r, [op |-> "seek", key |-> k])
SeekToLast(r) == Begin(r, [op |-> "last", key |-> 0])
Prev(r) == at[r] # 0 /\ Begin(r, [op |-> "less", key |-> at[r]])

(* A search begins at the head, on the level max_height_ names. *)
Start(r) ==
    /\ wish[r] # Idle /\ level[r] = 0
    /\ level' = [level EXCEPT ![r] = maxHeight]
    /\ UNCHANGED <<list, wish, x, at, got>>

(* The iterator stands at a node, and UpdateCurrentEntry looks its key up  *)
(* again; or it is not valid any more.                                     *)
StandAt(r, node) ==
    /\ at' = [at EXCEPT ![r] = node]
    /\ wish' = [wish EXCEPT ![r] = IF node = 0 THEN Idle ELSE [op |-> "get", key |-> node]]
    /\ got' = [got EXCEPT ![r] = IF node = 0 THEN 0 ELSE @]
    /\ x' = [x EXCEPT ![r] = 0] /\ level' = [level EXCEPT ![r] = 0]
    /\ UNCHANGED list

SeekToFirst(r) == wish[r] = Idle /\ StandAt(r, next[0][1])
MoveNext(r) == wish[r] = Idle /\ at[r] # 0 /\ StandAt(r, next[at[r]][1])

Pointer(r) == next[x[r]][level[r]]
Searching(r, op) == wish[r].op = op /\ level[r] # 0

StepTo(r, node) == x' = [x EXCEPT ![r] = node] /\ UNCHANGED <<list, wish, level, at, got>>
StepDown(r) == level' = [level EXCEPT ![r] = @ - 1] /\ UNCHANGED <<list, wish, x, at, got>>

Passes(r, k) == Pointer(r) # 0 /\ Pointer(r) < k

FindGreaterOrEqual(r) ==
    /\ Searching(r, "seek")
    /\ IF Passes(r, wish[r].key) THEN StepTo(r, Pointer(r))
       ELSE IF level[r] > 1 THEN StepDown(r)
       ELSE StandAt(r, Pointer(r))

FindLessThan(r) ==
    /\ Searching(r, "less")
    /\ IF Passes(r, wish[r].key) THEN StepTo(r, Pointer(r))
       ELSE IF level[r] > 1 THEN StepDown(r)
       ELSE StandAt(r, x[r])

FindLast(r) ==
    /\ Searching(r, "last")
    /\ IF Pointer(r) # 0 THEN StepTo(r, Pointer(r))
       ELSE IF level[r] > 1 THEN StepDown(r)
       ELSE StandAt(r, x[r])

(* The search of Get.  It ends at the node, whose entry is read by a step  *)
(* of its own.                                                             *)
Get(r) ==
    /\ Searching(r, "get") /\ x[r] # wish[r].key
    /\ IF Passes(r, wish[r].key) THEN StepTo(r, Pointer(r))
       ELSE IF level[r] > 1 THEN StepDown(r)
       ELSE StepTo(r, Pointer(r))

(* The key is in the list: the iterator stands at it. *)
TakeEntry(r) ==
    /\ Searching(r, "get") /\ x[r] = wish[r].key
    /\ got' = [got EXCEPT ![r] = value[x[r]]]
    /\ wish' = [wish EXCEPT ![r] = Idle]
    /\ x' = [x EXCEPT ![r] = 0] /\ level' = [level EXCEPT ![r] = 0]
    /\ UNCHANGED <<list, at>>

Next ==
    \/ \E k \in Keys, v \in Values : Put(k, v)
    \/ SetNext
    \/ \E r \in Readers :
        \/ \E k \in Keys : Seek(r, k)
        \/ SeekToFirst(r) \/ SeekToLast(r) \/ MoveNext(r) \/ Prev(r)
        \/ Start(r)
        \/ FindGreaterOrEqual(r) \/ FindLessThan(r) \/ FindLast(r)
        \/ Get(r) \/ TakeEntry(r)

Spec == Init /\ [][Next]_vars
=============================================================================
