--------------------------- MODULE SkipListProofs ---------------------------
(***************************************************************************)
(* Proof that the levels of the skip list stay nested and that it          *)
(* implements OrderedMap, for any keys, heights and numbers of readers.    *)
(***************************************************************************)
EXTENDS SkipListProps, WellFoundedInduction, TLAPS

(***************************************************************************)
(* The list and the insertion under way.                                   *)
(***************************************************************************)
Insertions == [key : Keys, height : Levels, level : Levels, own : BOOLEAN]
ListTyped ==
    /\ next \in [Nodes -> [Levels -> Nodes]]
    /\ value \in [Keys -> Values \cup {0}]
    /\ maxHeight \in Levels
    /\ writer = Resting \/ (writer \in Insertions /\ writer.level <= writer.height)

(* Pointers lead upwards, and to nodes of the chain, also those of a node  *)
(* that is not yet linked; between a node and the next there is no other.  *)
Upwards == \A n \in Nodes, i \in Levels : next[n][i] # 0 => n < next[n][i]
PointsIn == \A n \in Nodes, i \in Levels : next[n][i] \in Chain(i) \cup {0}
SkipsNothing ==
    \A i \in Levels : \A n \in Chain(i) \cup {0}, m \in Chain(i) :
        n < m => next[n][i] # 0 /\ next[n][i] <= m
Nested == \A i, j \in Levels : j <= i => Chain(i) \subseteq Chain(j)
(* A node is linked on the levels below that of the insertion, and has     *)
(* copied the pointer of its predecessor before that is set.               *)
LastBefore(p, k, i) ==
    /\ p \in Chain(i) \cup {0} /\ p < k
    /\ \A m \in Chain(i) \cup {0} : m < k => m <= p
InsertionAt ==
    writer # Resting =>
        /\ \A i \in Levels : writer.key \in Chain(i) <=> i < writer.level
        /\ value[writer.key] # 0
        /\ writer.own =>
              \A p \in Nodes : LastBefore(p, writer.key, writer.level) =>
                  next[writer.key][writer.level] = next[p][writer.level]
HasEntry == \A k \in Chain(1) : value[k] # 0

ListInv ==
    /\ ListTyped /\ Upwards /\ PointsIn /\ SkipsNothing /\ Nested
    /\ InsertionAt /\ HasEntry

-----------------------------------------------------------------------------
(* What Chain is. *)

(* The chain of a level contains what its pointers lead to.                *)
ChainsClosed ==
    \A i \in Levels :
        /\ Chain(i) \subseteq Keys
        /\ \A n \in Chain(i) \cup {0} : next[n][i] \in Chain(i) \cup {0}

LEMMA ChainIsClosed == ListTyped => ChainsClosed
<1> SUFFICES ASSUME ListTyped, NEW i \in Levels
             PROVE  /\ Chain(i) \subseteq Keys
                    /\ \A n \in Chain(i) \cup {0} : next[n][i] \in Chain(i) \cup {0}
  BY DEF ChainsClosed
<1>1. Chain(i) \subseteq Keys
  BY DEF Chain
<1>2. ASSUME NEW n \in Chain(i) \cup {0}, next[n][i] # 0 PROVE next[n][i] \in Chain(i)
  <2>1. next[n][i] \in Keys
    BY <1>1, <1>2 DEF ListTyped, Nodes
  <2>2. ASSUME NEW S \in SUBSET Keys,
               \A m \in S \cup {0} : next[m][i] \in S \cup {0}
        PROVE  next[n][i] \in S
    <3>1. n \in S \cup {0}
      BY <2>2 DEF Chain
    <3> QED
      BY <1>2, <2>2, <3>1
  <2> QED
    BY <2>1, <2>2 DEF Chain
<1> QED
  BY <1>1, <1>2

(* It is the least such set.                                               *)
LEMMA ChainIsLeast ==
    ASSUME NEW i \in Levels, NEW S \in SUBSET Keys,
           \A n \in S \cup {0} : next[n][i] \in S \cup {0}
    PROVE  Chain(i) \subseteq S
  BY DEF Chain

(* The same of the pointers after a step.                                  *)
LEMMA NextChain ==
    ASSUME ListTyped', NEW i \in Levels
    PROVE  /\ Chain(i)' \subseteq Keys
           /\ \A n \in Chain(i)' \cup {0} : next'[n][i] \in Chain(i)' \cup {0}
           /\ \A S \in SUBSET Keys :
                 (\A n \in S \cup {0} : next'[n][i] \in S \cup {0}) => Chain(i)' \subseteq S
<1>1. ListTyped' => ChainsClosed'
  BY ChainIsClosed, PTL
<1>2. \A S \in SUBSET Keys :
          (\A n \in S \cup {0} : next'[n][i] \in S \cup {0}) => Chain(i)' \subseteq S
  BY DEF Chain
<1> QED
  BY <1>1, <1>2 DEF ChainsClosed

(* Pointers outside the chain of a level do not change it.                 *)
LEMMA ChainStays ==
    ASSUME ListTyped, ListTyped', NEW i \in Levels,
           \A n \in Chain(i) \cup {0} : next'[n][i] = next[n][i]
    PROVE  Chain(i)' = Chain(i)
<1> DEFINE C == Chain(i)
           D == Chain(i)'
           B == C \cap D
<1>1. C \subseteq Keys /\ \A n \in C \cup {0} : next[n][i] \in C \cup {0}
  BY ChainIsClosed DEF ChainsClosed
<1>2. D \subseteq Keys /\ \A n \in D \cup {0} : next'[n][i] \in D \cup {0}
  BY NextChain
<1>3. D \subseteq C
  BY <1>1, NextChain
<1>4. B \in SUBSET Keys /\ \A n \in B \cup {0} : next[n][i] \in B \cup {0}
  BY <1>1, <1>2
<1>5. C \subseteq B
  <2> HIDE DEF B
  <2> QED
    BY <1>4, ChainIsLeast
<1> QED
  BY <1>3, <1>5

(* The last node before a key.                                             *)
Below(k, i) == {m \in Chain(i) \cup {0} : m < k}

LEMMA GreatestBelow ==
    ASSUME NEW S \in SUBSET Nat, NEW k \in Nat, \A m \in S : m < k, S # {}
    PROVE  \E p \in S : \A m \in S : m <= p
<1> DEFINE R == OpToRel(<, Nat)
           T == {k - m : m \in S}
<1>1. T \subseteq Nat /\ T # {}
  OBVIOUS
<1>2. \A a, b \in Nat : <<b, a>> \in R <=> b < a
  BY DEF OpToRel
<1>3. PICK d \in T : \A e \in T : ~(<<e, d>> \in R)
  <2> HIDE DEF R, T
  <2>1. IsWellFoundedOn(R, Nat)
    BY NatLessThanWellFounded DEF R
  <2> QED
    BY <1>1, <2>1, WFMin
<1>4. PICK p \in S : d = k - p
  BY <1>3
<1>5. ASSUME NEW m \in S PROVE m <= p
  <2>1. ~(k - m < k - p)
    BY <1>1, <1>2, <1>3, <1>4
  <2> QED
    BY <2>1
<1> QED
  BY <1>5

LEMMA PredecessorIsLast ==
    ASSUME ListTyped, NEW i \in Levels, NEW k \in Keys
    PROVE  Predecessor(k, i) \in Nodes /\ LastBefore(Predecessor(k, i), k, i)
<1>1. Chain(i) \subseteq Nat /\ k \in Nat /\ 0 < k
  <2>1. Chain(i) \subseteq Keys
    BY ChainIsClosed DEF ChainsClosed
  <2>2. Chain(i) \subseteq Nat
    BY <2>1, ListAssumption
  <2>3. k \in Nat /\ 0 < k
    BY ListAssumption
  <2> QED
    BY <2>2, <2>3
<1>2. Below(k, i) \in SUBSET Nat /\ 0 \in Below(k, i) /\ \A m \in Below(k, i) : m < k
  BY <1>1 DEF Below
<1>3. \E p \in Below(k, i) : \A m \in Below(k, i) : m <= p
  BY <1>1, <1>2, GreatestBelow
<1>4. Predecessor(k, i) = CHOOSE m \in Below(k, i) : \A o \in Below(k, i) : o <= m
  BY DEF Predecessor, Below
<1>5. /\ Predecessor(k, i) \in Below(k, i)
      /\ \A m \in Below(k, i) : m <= Predecessor(k, i)
  BY <1>3, <1>4
<1>6. Chain(i) \cup {0} \subseteq Nodes
  BY ChainIsClosed DEF ChainsClosed, Nodes
<1> QED
  BY <1>5, <1>6 DEF Below, LastBefore

-----------------------------------------------------------------------------
(* The steps of the writer. *)

(* Facts about numbers, nodes and the insertion.                           *)
LEMMA NodeFacts ==
    ASSUME ListTyped
    PROVE  /\ Keys \subseteq Nodes /\ Nodes \subseteq Nat /\ Levels \subseteq Nat
           /\ 0 \notin Keys /\ 0 \in Nodes /\ 1 \in Levels
           /\ writer # Resting =>
                 /\ writer \in Insertions /\ writer.key \in Keys
                 /\ writer.level \in Levels /\ writer.height \in Levels
                 /\ writer.own \in BOOLEAN /\ writer.level <= writer.height
<1>1. Keys \subseteq Nat \ {0} /\ MaxHeight \in Nat \ {0}
  BY ListAssumption
<1>2. Keys \subseteq Nodes /\ Nodes \subseteq Nat /\ 0 \notin Keys /\ 0 \in Nodes
  BY <1>1 DEF Nodes
<1>3. Levels \subseteq Nat /\ 1 \in Levels
  BY <1>1 DEF Levels
<1> QED
  BY <1>2, <1>3 DEF ListTyped, Insertions

(* What an entry that is put in does.                                      *)
LEMMA PutFacts ==
    ASSUME ListInv, NEW k \in Keys, NEW v \in Values, Put(k, v)
    PROVE  /\ ListTyped'
           /\ value' = [value EXCEPT ![k] = v]
           /\ writer = Resting
           /\ \A i \in Levels : Chain(i)' = Chain(i)
           /\ \A n \in Nodes, i \in Levels :
                 next'[n][i] = next[n][i] \/ (n = k /\ k \notin Chain(1) /\ next'[n][i] = 0)
           /\ \/ writer' = Resting
              \/ /\ k \notin Chain(1) /\ writer'.key = k /\ writer'.level = 1
                 /\ writer'.own = FALSE
           /\ UNCHANGED readers
<1>1. PICK h \in Levels : Insert(k, v, h)
  BY DEF Put, RandomHeights
<1>2. ListTyped /\ Nested /\ 1 \in Levels /\ Levels \subseteq Nat /\ 0 \notin Keys
  BY NodeFacts DEF ListInv
<1>3. value' = [value EXCEPT ![k] = v] /\ writer = Resting /\ UNCHANGED readers
  BY <1>1 DEF Insert, AllocateNode
<1>4. value' \in [Keys -> Values \cup {0}]
  BY <1>2, <1>3 DEF ListTyped
<1>5. CASE k \in Chain(1)
  <2>1. UNCHANGED <<next, maxHeight, writer>>
    BY <1>1, <1>5 DEF Insert
  <2>2. ListTyped'
    BY <1>2, <1>4, <2>1 DEF ListTyped
  <2>3. \A i \in Levels : Chain(i)' = Chain(i)
    BY <2>1 DEF Chain
  <2> QED
    BY <1>3, <2>1, <2>2, <2>3
<1>6. CASE k \notin Chain(1)
  <2>1. /\ next' = [next EXCEPT ![k] = [i \in Levels |-> 0]]
        /\ maxHeight' = IF h > maxHeight THEN h ELSE maxHeight
        /\ writer' = [key |-> k, height |-> h, level |-> 1, own |-> FALSE]
    BY <1>1, <1>6 DEF Insert, AllocateNode
  <2>2. [i \in Levels |-> 0] \in [Levels -> Nodes]
    BY DEF Nodes
  <2>3. next' \in [Nodes -> [Levels -> Nodes]]
    BY <1>2, <2>1, <2>2 DEF ListTyped
  <2>4. writer' \in Insertions /\ writer'.level <= writer'.height
    BY <1>2, <2>1 DEF Insertions, Levels
  <2>5. ListTyped'
    BY <1>2, <1>4, <2>1, <2>3, <2>4 DEF ListTyped
  <2>6. \A n \in Nodes, i \in Levels :
            next'[n][i] = next[n][i] \/ (n = k /\ k \notin Chain(1) /\ next'[n][i] = 0)
    BY <1>2, <1>6, <2>1 DEF ListTyped, Nodes
  <2>7. ASSUME NEW i \in Levels PROVE Chain(i)' = Chain(i)
    <3>1. Chain(i) \subseteq Chain(1) /\ Chain(i) \cup {0} \subseteq Nodes
      BY <1>2, ChainIsClosed DEF Nested, ChainsClosed, Nodes, Levels
    <3>2. \A n \in Chain(i) \cup {0} : next'[n][i] = next[n][i]
      BY <1>2, <1>6, <2>6, <3>1
    <3> QED
      BY <1>2, <2>5, <3>2, ChainStays
  <2> QED
    BY <1>3, <1>6, <2>1, <2>5, <2>6, <2>7
<1> QED
  BY <1>5, <1>6

LEMMA PutKeeps ==
    ASSUME ListInv, NEW k \in Keys, NEW v \in Values, Put(k, v)
    PROVE  ListInv'
<1>1. /\ ListTyped /\ Upwards /\ PointsIn /\ SkipsNothing /\ Nested /\ InsertionAt
      /\ HasEntry
  BY DEF ListInv
<1>2. /\ ListTyped'
      /\ value' = [value EXCEPT ![k] = v]
      /\ writer = Resting
      /\ \A i \in Levels : Chain(i)' = Chain(i)
      /\ \A n \in Nodes, i \in Levels :
            next'[n][i] = next[n][i] \/ (n = k /\ k \notin Chain(1) /\ next'[n][i] = 0)
      /\ \/ writer' = Resting
         \/ /\ k \notin Chain(1) /\ writer'.key = k /\ writer'.level = 1
            /\ writer'.own = FALSE
  BY PutFacts
<1>3. /\ Keys \subseteq Nodes /\ Levels \subseteq Nat /\ 0 \notin Keys /\ 1 \in Levels
      /\ \A i \in Levels : Chain(i) \subseteq Keys /\ Chain(i) \subseteq Chain(1) /\ ~(i < 1)
  BY <1>1, NodeFacts, ChainIsClosed DEF ChainsClosed, Nested, Levels
<1>4. Upwards' /\ PointsIn' /\ Nested'
  BY <1>1, <1>2 DEF Upwards, PointsIn, Nested
<1>5. SkipsNothing'
  <2>1. ASSUME NEW i \in Levels, NEW n \in Chain(i) \cup {0} PROVE next'[n][i] = next[n][i]
    <3>1. n \in Nodes /\ (n = k => k \in Chain(1))
      BY <1>3, <2>1 DEF Nodes
    <3> QED
      BY <1>2, <3>1
  <2> QED
    BY <1>1, <1>2, <2>1 DEF SkipsNothing
<1>6. InsertionAt'
  <2>1. v # 0
    BY ListAssumption
  <2>2. value'[k] # 0
    BY <1>1, <1>2, <2>1 DEF ListTyped
  <2> QED
    BY <1>2, <1>3, <2>2 DEF InsertionAt
<1>7. HasEntry'
  <2>1. v # 0
    BY ListAssumption
  <2> QED
    BY <1>1, <1>2, <1>3, <2>1 DEF HasEntry, ListTyped
<1> QED
  BY <1>2, <1>4, <1>5, <1>6, <1>7 DEF ListInv

(* One pointer is set.                                                     *)
PointerSet(n, i, m) == next' = [next EXCEPT ![n][i] = m]

LEMMA OnePointer ==
    ASSUME ListTyped, NEW n \in Nodes, NEW i \in Levels, NEW m \in Nodes,
           PointerSet(n, i, m)
    PROVE  /\ next' \in [Nodes -> [Levels -> Nodes]]
           /\ next'[n][i] = m
           /\ \A o \in Nodes, j \in Levels : o # n \/ j # i => next'[o][j] = next[o][j]
<1>1. next \in [Nodes -> [Levels -> Nodes]]
  BY DEF ListTyped
<1>2. next' = [next EXCEPT ![n] = [next[n] EXCEPT ![i] = m]]
  BY DEF PointerSet
<1>3. [next[n] EXCEPT ![i] = m] \in [Levels -> Nodes]
  BY <1>1
<1> QED
  BY <1>1, <1>2, <1>3

(* What the two kinds of step of an insertion do; k is the key it enters,  *)
(* i the level and p the node before k there.                              *)
Copies(k, i, p) ==
    /\ ~writer.own
    /\ writer'.key = k /\ writer'.level = i /\ writer'.own
    /\ next'[k][i] = next[p][i]
    /\ \A n \in Nodes, j \in Levels : n # k \/ j # i => next'[n][j] = next[n][j]
Links(k, i, p) ==
    /\ writer.own
    /\ next'[p][i] = k
    /\ \A n \in Nodes, j \in Levels : n # p \/ j # i => next'[n][j] = next[n][j]
    /\ \/ writer' = Resting
       \/ writer'.key = k /\ writer'.level = i + 1 /\ ~writer'.own
Enters(k, i, p) ==
    /\ writer # Resting /\ writer.key = k /\ writer.level = i /\ LastBefore(p, k, i)
    /\ value' = value /\ ListTyped'

LEMMA SetNextFacts ==
    ASSUME ListInv, SetNext
    PROVE  /\ UNCHANGED readers
           /\ \E k \in Keys, i \in Levels, p \in Nodes :
                 Enters(k, i, p) /\ (Copies(k, i, p) \/ Links(k, i, p))
<1> DEFINE k == writer.key
           i == writer.level
           p == Predecessor(k, i)
<1>1. ListTyped /\ writer # Resting
  BY DEF ListInv, SetNext
<1>2. /\ k \in Keys /\ i \in Levels /\ writer.own \in BOOLEAN
      /\ writer \in Insertions /\ writer.height \in Levels
      /\ i <= writer.height /\ Keys \subseteq Nodes
  BY <1>1, NodeFacts
<1>3. p \in Nodes /\ LastBefore(p, k, i)
  BY <1>1, <1>2, PredecessorIsLast
<1>4. UNCHANGED <<value, maxHeight>> /\ UNCHANGED readers
  BY DEF SetNext
<1>5. next[p][i] \in Nodes
  BY <1>1, <1>2, <1>3 DEF ListTyped
<1>6. next' = IF writer.own THEN [next EXCEPT ![p][i] = k]
              ELSE [next EXCEPT ![k][i] = next[p][i]]
  BY DEF SetNext, LinkIn, Linking, LinkedAs
<1>7. writer' = IF ~writer.own THEN [writer EXCEPT !.own = TRUE]
                ELSE IF i = writer.height THEN Resting
                ELSE [writer EXCEPT !.level = i + 1, !.own = FALSE]
  BY DEF SetNext
<1> HIDE DEF p
<1>8. CASE ~writer.own
  <2>1. writer' = [writer EXCEPT !.own = TRUE]
    BY <1>7, <1>8
  <2>2. /\ writer' \in Insertions /\ writer'.level <= writer'.height
        /\ writer'.key = k /\ writer'.level = i /\ writer'.own
    BY <1>2, <2>1 DEF Insertions
  <2>3. /\ next' \in [Nodes -> [Levels -> Nodes]]
        /\ next'[k][i] = next[p][i]
        /\ \A n \in Nodes, j \in Levels : n # k \/ j # i => next'[n][j] = next[n][j]
    <3> DEFINE m == next[p][i]
    <3>1. PointerSet(k, i, m)
      BY <1>6, <1>8 DEF PointerSet
    <3>2. ListTyped /\ k \in Nodes /\ i \in Levels /\ m \in Nodes
      BY <1>1, <1>2, <1>5
    <3> HIDE DEF k, i, m
    <3>3. /\ next' \in [Nodes -> [Levels -> Nodes]]
          /\ next'[k][i] = m
          /\ \A n \in Nodes, j \in Levels : n # k \/ j # i => next'[n][j] = next[n][j]
      BY <3>1, <3>2, OnePointer
    <3> QED
      BY <3>3 DEF m
  <2>4. ListTyped'
    BY <1>1, <1>4, <2>2, <2>3 DEF ListTyped
  <2> QED
    BY <1>1, <1>2, <1>3, <1>4, <1>8, <2>2, <2>3, <2>4 DEF Enters, Copies
<1>9. CASE writer.own
  <2>1. \/ writer' = Resting
        \/ /\ writer' \in Insertions /\ writer'.level <= writer'.height
           /\ writer'.key = k /\ writer'.level = i + 1 /\ ~writer'.own
    <3>1. CASE i = writer.height
      BY <1>7, <1>9, <3>1
    <3>2. CASE i # writer.height
      <4>1. writer' = [writer EXCEPT !.level = i + 1, !.own = FALSE]
        BY <1>7, <1>9, <3>2
      <4>2. i + 1 \in Levels /\ i + 1 <= writer.height
        BY <1>2, <3>2, ListAssumption DEF Levels
      <4> QED
        BY <1>2, <4>1, <4>2 DEF Insertions
    <3> QED
      BY <3>1, <3>2
  <2>2. /\ next' \in [Nodes -> [Levels -> Nodes]]
        /\ next'[p][i] = k
        /\ \A n \in Nodes, j \in Levels : n # p \/ j # i => next'[n][j] = next[n][j]
    <3>1. PointerSet(p, i, k)
      BY <1>6, <1>9 DEF PointerSet
    <3>2. ListTyped /\ k \in Nodes /\ i \in Levels /\ p \in Nodes
      BY <1>1, <1>2, <1>3
    <3> HIDE DEF k, i
    <3> QED
      BY <3>1, <3>2, OnePointer
  <2>3. ListTyped'
    BY <1>1, <1>4, <2>1, <2>2 DEF ListTyped
  <2> QED
    BY <1>1, <1>2, <1>3, <1>4, <1>9, <2>1, <2>2, <2>3 DEF Enters, Links
<1> QED
  BY <1>4, <1>8, <1>9

(* A node that copies a pointer is in no chain yet that this could change. *)
LEMMA CopyFacts ==
    ASSUME ListInv, NEW k \in Keys, NEW i \in Levels, NEW p \in Nodes,
           Enters(k, i, p), Copies(k, i, p)
    PROVE  \A j \in Levels : Chain(j)' = Chain(j)
<1> SUFFICES ASSUME NEW j \in Levels PROVE Chain(j)' = Chain(j)
  OBVIOUS
<1>1. ListTyped /\ ListTyped' /\ Levels \subseteq Nat
  BY NodeFacts DEF ListInv, Enters
<1>2. Chain(j) \cup {0} \subseteq Nodes /\ k # 0
  BY <1>1, ChainIsClosed, NodeFacts DEF ChainsClosed, Nodes
<1>3. j = i => k \notin Chain(j)
  BY <1>1 DEF ListInv, InsertionAt, Enters
<1>4. \A n \in Chain(j) \cup {0} : next'[n][j] = next[n][j]
  BY <1>2, <1>3 DEF Copies
<1> QED
  BY <1>1, <1>4, ChainStays

LEMMA CopyKeeps ==
    ASSUME ListInv, NEW k \in Keys, NEW i \in Levels, NEW p \in Nodes,
           Enters(k, i, p), Copies(k, i, p)
    PROVE  ListInv'
<1>1. /\ ListTyped /\ Upwards /\ PointsIn /\ SkipsNothing /\ Nested /\ InsertionAt
      /\ HasEntry /\ ListTyped'
  BY DEF ListInv, Enters
<1>2. \A j \in Levels : Chain(j)' = Chain(j)
  BY CopyFacts
<1>3. /\ Keys \subseteq Nodes /\ Nodes \subseteq Nat /\ Levels \subseteq Nat
      /\ 0 \notin Keys /\ 1 \in Levels
      /\ \A j \in Levels : Chain(j) \subseteq Keys
  BY <1>1, NodeFacts, ChainIsClosed DEF ChainsClosed
<1>4. k \notin Chain(i) /\ next[p][i] \in Chain(i) \cup {0}
  BY <1>1, <1>3, ChainIsClosed DEF InsertionAt, Enters, LastBefore, ChainsClosed
<1>5. next[p][i] # 0 => k < next[p][i]
  <2> SUFFICES ASSUME next[p][i] # 0 PROVE k < next[p][i]
    OBVIOUS
  <2>1. next[p][i] \in Chain(i) /\ p < next[p][i]
    BY <1>1, <1>4 DEF Upwards
  <2>2. ~(next[p][i] < k)
    <3>1. next[p][i] < k => next[p][i] <= p
      BY <2>1 DEF Enters, LastBefore
    <3>2. p \in Nat /\ next[p][i] \in Nat
      BY <1>3, <2>1
    <3> QED
      BY <2>1, <3>1, <3>2
  <2>3. next[p][i] # k
    BY <1>4, <2>1
  <2>4. next[p][i] \in Nat /\ k \in Nat
    BY <1>3, <2>1
  <2> QED
    BY <2>2, <2>3, <2>4
<1>6. Upwards' /\ PointsIn'
  BY <1>1, <1>2, <1>4, <1>5 DEF Upwards, PointsIn, Copies
<1>7. SkipsNothing' /\ Nested'
  <2>1. ASSUME NEW j \in Levels, NEW n \in Chain(j) \cup {0} PROVE next'[n][j] = next[n][j]
    BY <1>3, <1>4, <2>1 DEF Copies, Nodes
  <2> QED
    BY <1>1, <1>2, <2>1 DEF SkipsNothing, Nested
<1>8. InsertionAt'
  <2>1. value'[k] # 0 /\ \A j \in Levels : k \in Chain(j)' <=> j < i
    BY <1>1, <1>2 DEF InsertionAt, Enters
  <2>2. ASSUME NEW q \in Nodes, LastBefore(q, k, i)' PROVE next'[k][i] = next'[q][i]
    <3>1. LastBefore(q, k, i)
      BY <1>2, <2>2 DEF LastBefore
    <3>2. q = p /\ q # k
      BY <1>3, <3>1 DEF LastBefore, Enters
    <3> QED
      BY <3>2 DEF Copies
  <2>3. writer'.key = k /\ writer'.level = i
    BY DEF Copies
  <2> QED
    BY <2>1, <2>2, <2>3 DEF InsertionAt, LastBefore
<1>9. HasEntry'
  BY <1>1, <1>2, <1>3 DEF HasEntry, Enters
<1> QED
  BY <1>1, <1>6, <1>7, <1>8, <1>9 DEF ListInv

(* A node that is linked enters the chain of its level.                    *)
LEMMA LinkFacts ==
    ASSUME ListInv, NEW k \in Keys, NEW i \in Levels, NEW p \in Nodes,
           Enters(k, i, p), Links(k, i, p)
    PROVE  /\ Chain(i)' = Chain(i) \cup {k}
           /\ \A j \in Levels \ {i} : Chain(j)' = Chain(j)
           /\ k \notin Chain(i) /\ next'[k][i] = next[p][i] /\ p # k
<1>1. ListTyped /\ ListTyped' /\ Levels \subseteq Nat /\ Keys \subseteq Nodes
      /\ Nodes \subseteq Nat
  BY NodeFacts DEF ListInv, Enters
<1>2. ASSUME NEW j \in Levels \ {i} PROVE Chain(j)' = Chain(j)
  <2>1. Chain(j) \cup {0} \subseteq Nodes
    BY <1>1, ChainIsClosed DEF ChainsClosed, Nodes
  <2> QED
    BY <1>1, <1>2, <2>1, ChainStays DEF Links
<1>3. k \notin Chain(i) /\ p # k /\ next[k][i] = next[p][i] /\ next'[k][i] = next[p][i]
  BY <1>1 DEF ListInv, InsertionAt, Enters, Links, LastBefore
<1> DEFINE C == Chain(i)
           D == Chain(i)'
           B == C \cap D
<1>4. C \subseteq Keys /\ \A n \in C \cup {0} : next[n][i] \in C \cup {0}
  BY <1>1, ChainIsClosed DEF ChainsClosed
<1>5. D \subseteq Keys /\ \A n \in D \cup {0} : next'[n][i] \in D \cup {0}
  BY <1>1, NextChain
<1>6. p \in C \cup {0}
  BY DEF Enters, LastBefore
<1>7. D \subseteq C \cup {k}
  <2> DEFINE S == C \cup {k}
  <2>1. S \in SUBSET Keys
    BY <1>4
  <2>2. ASSUME NEW n \in S \cup {0} PROVE next'[n][i] \in S \cup {0}
    <3>1. CASE n = k
      BY <1>3, <1>4, <1>6, <3>1
    <3>2. CASE n = p
      BY <3>2 DEF Links
    <3>3. CASE n # k /\ n # p
      BY <1>4, <2>2, <3>3 DEF Links, Nodes
    <3> QED
      BY <3>1, <3>2, <3>3
  <2> HIDE DEF S
  <2>3. D \subseteq S
    BY <1>1, <2>1, <2>2, NextChain
  <2> QED
    BY <2>3 DEF S
<1>8. C \subseteq D
  <2>1. B \in SUBSET Keys
    BY <1>4
  <2>2. ASSUME NEW n \in B \cup {0} PROVE next[n][i] \in B \cup {0}
    <3>1. CASE n = p
      <4>1. k \in D \cup {0} /\ k # 0
        BY <1>5, <2>2, <3>1, NodeFacts, <1>1 DEF Links
      <4>2. next'[k][i] \in D \cup {0}
        BY <1>5, <4>1
      <4> QED
        BY <1>3, <1>4, <2>2, <3>1, <4>2
    <3>2. CASE n # p
      <4>1. next'[n][i] = next[n][i]
        BY <1>4, <2>2, <3>2 DEF Links, Nodes
      <4> QED
        BY <1>4, <1>5, <2>2, <4>1
    <3> QED
      BY <3>1, <3>2
  <2> HIDE DEF B
  <2>3. C \subseteq B
    BY <2>1, <2>2, ChainIsLeast
  <2> QED
    BY <2>3 DEF B
<1>9. k \in D
  <2>1. p \in D \cup {0}
    BY <1>6, <1>8
  <2>2. next'[p][i] = k /\ k # 0
    BY <1>1, NodeFacts DEF Links
  <2> QED
    BY <1>5, <2>1, <2>2
<1> QED
  BY <1>2, <1>3, <1>7, <1>8, <1>9

LEMMA LinkKeeps ==
    ASSUME ListInv, NEW k \in Keys, NEW i \in Levels, NEW p \in Nodes,
           Enters(k, i, p), Links(k, i, p)
    PROVE  ListInv'
<1>1. /\ ListTyped /\ Upwards /\ PointsIn /\ SkipsNothing /\ Nested /\ InsertionAt
      /\ HasEntry /\ ListTyped'
  BY DEF ListInv, Enters
<1>2. /\ Chain(i)' = Chain(i) \cup {k}
      /\ \A j \in Levels \ {i} : Chain(j)' = Chain(j)
      /\ k \notin Chain(i) /\ next'[k][i] = next[p][i] /\ p # k
  BY LinkFacts
<1>3. /\ Keys \subseteq Nodes /\ Nodes \subseteq Nat /\ Levels \subseteq Nat
      /\ 0 \notin Keys /\ 1 \in Levels
      /\ \A j \in Levels : Chain(j) \subseteq Keys
  BY <1>1, NodeFacts, ChainIsClosed DEF ChainsClosed
<1>4. /\ p \in Chain(i) \cup {0} /\ p < k
      /\ \A m \in Chain(i) \cup {0} : m < k => m <= p
  BY DEF Enters, LastBefore
<1>5. /\ next'[p][i] = k
      /\ \A n \in Nodes, j \in Levels : n # p \/ j # i => next'[n][j] = next[n][j]
  BY DEF Links
<1>6. \A j \in Levels : k \in Chain(j) <=> j < i
  BY <1>1 DEF InsertionAt, Enters
<1>7. Upwards' /\ PointsIn'
  BY <1>1, <1>2, <1>4, <1>5 DEF Upwards, PointsIn
<1>8. SkipsNothing'
  <2>1. ASSUME NEW j \in Levels \ {i}, NEW n \in Chain(j) \cup {0}, NEW m \in Chain(j),
               n < m
        PROVE  next'[n][j] # 0 /\ next'[n][j] <= m
    BY <1>1, <1>3, <1>5, <2>1 DEF SkipsNothing, Nodes
  <2>2. ASSUME NEW n \in Chain(i) \cup {k, 0}, NEW m \in Chain(i) \cup {k}, n < m
        PROVE  next'[n][i] # 0 /\ next'[n][i] <= m
    <3>1. n \in Nat /\ m \in Nat /\ p \in Nat /\ k \in Nat /\ k # 0 /\ n \in Nodes
      BY <1>3, <2>2 DEF Nodes
    <3>2. CASE n = p
      <4>1. m = k \/ (m \in Chain(i) /\ ~(m < k))
        BY <1>4, <2>2, <3>1, <3>2
      <4> QED
        BY <1>5, <3>1, <3>2, <4>1
    <3>3. CASE n = k
      <4>1. m \in Chain(i) /\ p < m
        BY <1>4, <2>2, <3>1, <3>3
      <4> QED
        BY <1>1, <1>2, <1>4, <3>3, <4>1 DEF SkipsNothing
    <3>4. CASE n # p /\ n # k
      <4>1. n \in Chain(i) \cup {0} /\ next'[n][i] = next[n][i]
        BY <1>5, <2>2, <3>1, <3>4
      <4>2. CASE m \in Chain(i)
        BY <1>1, <2>2, <4>1, <4>2 DEF SkipsNothing
      <4>3. CASE m = k
        <5>1. n < p
          BY <1>4, <2>2, <3>1, <3>4, <4>1, <4>3
        <5>2. p \in Chain(i)
          BY <1>4, <3>1, <5>1
        <5>3. next[n][i] # 0 /\ next[n][i] <= p
          BY <1>1, <4>1, <5>1, <5>2 DEF SkipsNothing
        <5>4. next[n][i] \in Nodes
          BY <1>1, <3>1 DEF ListTyped
        <5>5. next[n][i] \in Nat /\ p < k
          BY <1>3, <1>4, <5>4
        <5>6. next[n][i] <= k
          BY <3>1, <5>3, <5>5
        <5> QED
          BY <4>1, <4>3, <5>3, <5>6
      <4> QED
        BY <2>2, <4>2, <4>3
    <3> QED
      BY <3>2, <3>3, <3>4
  <2>3. ASSUME NEW j \in Levels, NEW n \in Chain(j)' \cup {0}, NEW m \in Chain(j)', n < m
        PROVE  next'[n][j] # 0 /\ next'[n][j] <= m
    <3>1. CASE j = i
      BY <1>2, <2>2, <2>3, <3>1
    <3>2. CASE j # i
      BY <1>2, <2>1, <2>3, <3>2
    <3> QED
      BY <3>1, <3>2
  <2> QED
    BY <2>3 DEF SkipsNothing
<1>9. Nested'
  <2> SUFFICES ASSUME NEW a \in Levels, NEW b \in Levels, b <= a
               PROVE  Chain(a)' \subseteq Chain(b)'
    BY DEF Nested
  <2>1. Chain(a) \subseteq Chain(b) /\ Chain(b) \subseteq Chain(b)'
    BY <1>1, <1>2 DEF Nested
  <2>2. CASE a # i
    BY <1>2, <2>1, <2>2
  <2>3. CASE a = i
    <3>1. k \in Chain(b)'
      BY <1>2, <1>3, <1>6, <2>3
    <3> QED
      BY <1>2, <2>1, <2>3, <3>1
  <2> QED
    BY <2>2, <2>3
<1>10. InsertionAt'
  <2> SUFFICES ASSUME writer'.key = k, writer'.level = i + 1, ~writer'.own
               PROVE  /\ \A j \in Levels : k \in Chain(j)' <=> j < i + 1
                      /\ value'[k] # 0
    BY DEF Links, InsertionAt
  <2>1. ASSUME NEW j \in Levels PROVE k \in Chain(j)' <=> j < i + 1
    <3>1. j \in Nat /\ i \in Nat
      BY <1>3
    <3>2. CASE j = i
      BY <1>2, <3>1, <3>2
    <3>3. CASE j # i
      BY <1>2, <1>6, <3>1, <3>3
    <3> QED
      BY <3>2, <3>3
  <2> QED
    BY <1>1, <2>1 DEF InsertionAt, Enters
<1>11. HasEntry'
  BY <1>1, <1>2, <1>3 DEF HasEntry, InsertionAt, Enters
<1> QED
  BY <1>1, <1>7, <1>8, <1>9, <1>10, <1>11 DEF ListInv

-----------------------------------------------------------------------------
(***************************************************************************)
(* The readers.  A search stands on a node of its level before the key it  *)
(* looks for; the key an iterator stands at stays in the list.             *)
(***************************************************************************)
Wishes == [op : {"none", "seek", "less", "last", "get"}, key : Nodes]
ReadersTyped ==
    /\ wish \in [Readers -> Wishes]
    /\ x \in [Readers -> Nodes] /\ level \in [Readers -> Levels \cup {0}]
    /\ at \in [Readers -> Nodes]
    /\ got \in [Readers -> Values \cup {0}]
ReaderAt(r) ==
    /\ at[r] \in Chain(1) \cup {0}
    /\ wish[r].op = "none" => wish[r] = Idle /\ level[r] = 0
    /\ level[r] = 0 => x[r] = 0
    /\ \A i \in Levels : level[r] = i => x[r] \in Chain(i) \cup {0}
    /\ wish[r].op \in {"seek", "less"} => wish[r].key \in Keys /\ x[r] < wish[r].key
    /\ wish[r].op = "get" => wish[r].key \in Chain(1) /\ x[r] <= wish[r].key
SearchesInv == ReadersTyped /\ \A r \in Readers : ReaderAt(r)

(* Where the list has grown they are where they were.                      *)
LEMMA ReadersStay ==
    ASSUME SearchesInv, UNCHANGED readers, ListTyped, ListTyped',
           \A i \in Levels : Chain(i) \subseteq Chain(i)'
    PROVE  SearchesInv'
<1>1. UNCHANGED wish /\ UNCHANGED x /\ UNCHANGED level /\ UNCHANGED at /\ UNCHANGED got
  BY DEF readers
<1>2. ReadersTyped'
  BY <1>1 DEF SearchesInv, ReadersTyped
<1>3. ASSUME NEW r \in Readers PROVE ReaderAt(r)'
  <2>1. ReaderAt(r) /\ 1 \in Levels
    BY <1>3, NodeFacts DEF SearchesInv
  <2>2. Chain(1) \subseteq Chain(1)'
    BY <2>1
  <2> QED
    BY <1>1, <2>1, <2>2 DEF ReaderAt
<1> QED
  BY <1>2, <1>3 DEF SearchesInv

(* The steps of a reader, for which the list stands still.                 *)
LEMMA ListStays == ListInv /\ UNCHANGED list => ListInv'
<1> SUFFICES ASSUME ListInv, UNCHANGED list PROVE ListInv'
  OBVIOUS
<1>1. next' = next /\ value' = value /\ maxHeight' = maxHeight /\ writer' = writer
  BY DEF list
<1>2. \A i : Chain(i)' = Chain(i)
  BY <1>1 DEF Chain
<1>3. ListTyped' /\ Upwards'
  BY <1>1 DEF ListInv, ListTyped, Upwards
<1>4. PointsIn' /\ SkipsNothing' /\ Nested'
  BY <1>1, <1>2 DEF ListInv, PointsIn, SkipsNothing, Nested
<1>5. InsertionAt' /\ HasEntry'
  BY <1>1, <1>2 DEF ListInv, InsertionAt, LastBefore, HasEntry
<1> QED
  BY <1>3, <1>4, <1>5 DEF ListInv

Others(r) ==
    \A s \in Readers \ {r} :
        /\ wish'[s] = wish[s] /\ x'[s] = x[s] /\ level'[s] = level[s]
        /\ at'[s] = at[s]

LEMMA OneReader ==
    ASSUME SearchesInv, UNCHANGED list, NEW r \in Readers,
           ReadersTyped', ReaderAt(r)', Others(r)
    PROVE  SearchesInv'
<1>1. \A i : Chain(i)' = Chain(i)
  BY DEF list, Chain
<1>2. ASSUME NEW s \in Readers \ {r} PROVE ReaderAt(s)'
  BY <1>1, <1>2 DEF Others, SearchesInv, ReaderAt
<1> QED
  BY <1>2 DEF SearchesInv

(* What is known of a reader before its step.                              *)
LEMMA ReaderFacts ==
    ASSUME ListInv, SearchesInv, NEW r \in Readers
    PROVE  /\ ReadersTyped /\ ReaderAt(r) /\ wish[r] \in Wishes
           /\ x[r] \in Nodes /\ at[r] \in Nodes /\ level[r] \in Levels \cup {0}
           /\ maxHeight \in Levels /\ 0 \notin Levels /\ Levels \subseteq Nat
           /\ 0 \notin Keys /\ 0 \in Nodes /\ Keys \subseteq Nodes /\ Nodes \subseteq Nat
           /\ 1 \in Levels
           /\ \A i \in Levels :
                /\ Chain(i) \subseteq Keys
                /\ \A n \in Chain(i) \cup {0} : next[n][i] \in Chain(i) \cup {0}
<1>1. ListTyped
  BY DEF ListInv
<1>2. 0 \notin Levels /\ maxHeight \in Levels
  BY <1>1 DEF Levels, ListTyped
<1>3. ReadersTyped /\ ReaderAt(r)
  BY DEF SearchesInv
<1>4. /\ wish[r] \in Wishes /\ x[r] \in Nodes /\ at[r] \in Nodes
      /\ level[r] \in Levels \cup {0}
  BY <1>3 DEF ReadersTyped
<1> QED
  BY <1>1, <1>2, <1>3, <1>4, NodeFacts, ChainIsClosed DEF ChainsClosed

LEMMA BeginKeeps ==
    ASSUME ListInv, SearchesInv, NEW r \in Readers, NEW w \in Wishes, Begin(r, w),
           w.op \in {"seek", "less", "last"}, w.op # "last" => w.key \in Keys
    PROVE  SearchesInv'
<1>1. /\ ReadersTyped /\ ReaderAt(r) /\ 0 \notin Keys /\ Keys \subseteq Nodes
      /\ Nodes \subseteq Nat
  BY ReaderFacts
<1>2. /\ wish' = [wish EXCEPT ![r] = w] /\ wish[r] = Idle
      /\ UNCHANGED <<list, x, level, at, got>>
  BY DEF Begin
<1>3. ReadersTyped'
  BY <1>1, <1>2 DEF ReadersTyped
<1>4. wish'[r] = w /\ Others(r)
  BY <1>1, <1>2 DEF ReadersTyped, Others
<1>5. level[r] = 0 /\ x[r] = 0
  BY <1>1, <1>2 DEF ReaderAt, Idle
<1>6. w.op \in {"seek", "less"} => w.key \in Keys /\ 0 < w.key
  <2>1. \A k \in Keys : 0 < k
    BY ListAssumption
  <2>2. w.op \in {"seek", "less"} => w.key \in Keys
    OBVIOUS
  <2> QED
    BY <2>1, <2>2
<1>7. \A i : Chain(i)' = Chain(i)
  BY <1>2 DEF list, Chain
<1>8. 0 \notin Levels
  BY DEF Levels
<1>9. ReaderAt(r)'
  BY <1>1, <1>2, <1>4, <1>5, <1>6, <1>7, <1>8 DEF ReaderAt
<1> QED
  BY <1>2, <1>3, <1>4, <1>9, OneReader

LEMMA StandAtKeeps ==
    ASSUME ListInv, SearchesInv, NEW r \in Readers, NEW n \in Chain(1) \cup {0},
           StandAt(r, n)
    PROVE  SearchesInv'
<1>1. /\ ReadersTyped /\ 1 \in Levels /\ 0 \notin Levels /\ 0 \in Nodes
      /\ Chain(1) \subseteq Keys /\ Keys \subseteq Nodes /\ Nodes \subseteq Nat
  BY ReaderFacts
<1>2. n \in Nodes /\ n \in Nat
  BY <1>1
<1> DEFINE w == IF n = 0 THEN Idle ELSE [op |-> "get", key |-> n]
<1>3. /\ at' = [at EXCEPT ![r] = n] /\ wish' = [wish EXCEPT ![r] = w]
      /\ got' = [got EXCEPT ![r] = IF n = 0 THEN 0 ELSE got[r]]
      /\ x' = [x EXCEPT ![r] = 0] /\ level' = [level EXCEPT ![r] = 0]
      /\ UNCHANGED list
  BY <1>1 DEF StandAt, ReadersTyped
<1>4. w \in Wishes
  BY <1>1, <1>2 DEF Idle, Wishes
<1>5. ReadersTyped'
  <2> HIDE DEF w
  <2> QED
    BY <1>1, <1>2, <1>3, <1>4 DEF ReadersTyped
<1>6. /\ wish'[r] = w /\ x'[r] = 0 /\ level'[r] = 0 /\ at'[r] = n /\ Others(r)
  BY <1>1, <1>3 DEF ReadersTyped, Others
<1>7. \A i : Chain(i)' = Chain(i)
  BY <1>3 DEF list, Chain
<1>8. ReaderAt(r)'
  <2>1. CASE n = 0
    BY <1>1, <1>6, <1>7, <2>1 DEF ReaderAt, Idle
  <2>2. CASE n # 0
    BY <1>1, <1>2, <1>6, <1>7, <2>2 DEF ReaderAt, Idle
  <2> QED
    BY <2>1, <2>2
<1> QED
  BY <1>3, <1>5, <1>6, <1>8, OneReader

LEMMA StepToKeeps ==
    ASSUME ListInv, SearchesInv, NEW r \in Readers, NEW n \in Nat, StepTo(r, n),
           level[r] # 0, n \in Chain(level[r]),
           wish[r].op \in {"seek", "less"} => n < wish[r].key,
           wish[r].op = "get" => n <= wish[r].key
    PROVE  SearchesInv'
<1>1. /\ ReadersTyped /\ ReaderAt(r) /\ Keys \subseteq Nodes
  BY ReaderFacts
<1>2. n \in Nodes
  BY <1>1 DEF Chain
<1>3. x' = [x EXCEPT ![r] = n] /\ UNCHANGED <<list, wish, level, at, got>>
  BY DEF StepTo
<1>4. ReadersTyped' /\ x'[r] = n /\ Others(r)
  BY <1>1, <1>2, <1>3 DEF ReadersTyped, Others
<1>5. \A i : Chain(i)' = Chain(i)
  BY <1>3 DEF list, Chain
<1>6. ReaderAt(r)'
  BY <1>1, <1>3, <1>4, <1>5 DEF ReaderAt
<1> QED
  BY <1>3, <1>4, <1>6, OneReader

LEMMA StepDownKeeps ==
    ASSUME ListInv, SearchesInv, NEW r \in Readers, StepDown(r), level[r] > 1
    PROVE  SearchesInv'
<1>1. /\ ReadersTyped /\ ReaderAt(r) /\ level[r] \in Levels
      /\ Levels \subseteq Nat
  BY ReaderFacts
<1>2. level' = [level EXCEPT ![r] = level[r] - 1] /\ UNCHANGED <<list, wish, x, at, got>>
  BY <1>1 DEF StepDown, ReadersTyped
<1>3. level[r] - 1 \in Levels /\ level[r] - 1 # 0 /\ level[r] - 1 <= level[r]
  BY <1>1, ListAssumption DEF Levels
<1>4. ReadersTyped' /\ level'[r] = level[r] - 1 /\ Others(r)
  BY <1>1, <1>2, <1>3 DEF ReadersTyped, Others
<1>5. \A i : Chain(i)' = Chain(i)
  BY <1>2 DEF list, Chain
<1>6. Chain(level[r]) \subseteq Chain(level[r] - 1)
  BY <1>1, <1>3 DEF ListInv, Nested
<1>7. ReaderAt(r)'
  <2>1. x[r] \in Chain(level[r] - 1) \cup {0}
    BY <1>1, <1>6 DEF ReaderAt
  <2> QED
    BY <1>1, <1>2, <1>3, <1>4, <1>5, <2>1 DEF ReaderAt, Idle
<1> QED
  BY <1>2, <1>4, <1>7, OneReader

-----------------------------------------------------------------------------
(* The list as a map. *)

(* The nodes the lowest level leads to are those a pointer leads to.       *)
Shown == [k \in Keys |-> IF k \in Chain(1) THEN value[k] ELSE 0]

LEMMA EnteredIsChain == ListInv => Contents = Shown
<1> SUFFICES ASSUME ListInv PROVE Entered = Chain(1)
  BY DEF Contents, Shown
<1>1. ListTyped /\ PointsIn /\ 1 \in Levels /\ 0 \notin Keys
  BY NodeFacts DEF ListInv
<1>2. Entered \in SUBSET Keys
  BY <1>1 DEF Entered, ListTyped, Nodes
<1>3. \A n \in Entered \cup {0} : n \in Nodes
  BY <1>2 DEF Nodes
<1>4. \A n \in Entered \cup {0} : next[n][1] \in Entered \cup {0}
  BY <1>3 DEF Entered
<1>5. Chain(1) \subseteq Entered
  <2> HIDE DEF Entered
  <2> QED
    BY <1>1, <1>2, <1>4, ChainIsLeast
<1>6. Entered \subseteq Chain(1)
  BY <1>1 DEF Entered, PointsIn
<1> QED
  BY <1>5, <1>6

LEMMA PresentIsChain ==
    ASSUME ListInv
    PROVE  Map!Present = Chain(1) /\ Chain(1) \subseteq Keys /\ Keys \subseteq Nat \ {0}
<1>1. ListTyped /\ HasEntry /\ 1 \in Levels
  BY NodeFacts DEF ListInv
<1>2. Chain(1) \subseteq Keys /\ Keys \subseteq Nat \ {0}
  BY <1>1, ChainIsClosed, ListAssumption DEF ChainsClosed
<1>3. \A k \in Keys : Contents[k] # 0 <=> k \in Chain(1)
  BY <1>1, EnteredIsChain DEF Shown, HasEntry
<1> QED
  BY <1>2, <1>3 DEF Map!Present, Map!None

(* Ends of a set of keys. *)
LEMMA LeastIs ==
    ASSUME NEW S \in SUBSET Nat, NEW n \in Nat,
           n = 0 => S = {}, n # 0 => n \in S /\ \A l \in S : n <= l
    PROVE  Map!Least(S) = n
<1>1. CASE n = 0
  BY <1>1 DEF Map!Least, Map!None
<1>2. CASE n # 0
  <2>1. n \in S /\ \A l \in S : n <= l
    BY <1>2
  <2>2. \A k \in S : (\A l \in S : k <= l) => k = n
    BY <2>1
  <2> QED
    BY <2>1, <2>2 DEF Map!Least
<1> QED
  BY <1>1, <1>2

LEMMA GreatestIs ==
    ASSUME NEW S \in SUBSET Nat, NEW n \in Nat,
           n = 0 => S = {}, n # 0 => n \in S /\ \A l \in S : l <= n
    PROVE  Map!Greatest(S) = n
<1>1. CASE n = 0
  BY <1>1 DEF Map!Greatest, Map!None
<1>2. CASE n # 0
  <2>1. n \in S /\ \A l \in S : l <= n
    BY <1>2
  <2>2. \A k \in S : (\A l \in S : l <= k) => k = n
    BY <2>1
  <2> QED
    BY <2>1, <2>2 DEF Map!Greatest
<1> QED
  BY <1>1, <1>2

(* Where a node of the lowest level and its pointer are among the keys.    *)
LEMMA Neighbours ==
    ASSUME ListInv, NEW n \in Chain(1) \cup {0}
    PROVE  /\ n \in Nat /\ next[n][1] \in Chain(1) \cup {0} /\ next[n][1] \in Nat
           /\ next[n][1] # 0 => n < next[n][1]
           /\ \A m \in Map!Present :
                 /\ m \in Nat /\ m # 0
                 /\ n < m => next[n][1] # 0 /\ next[n][1] <= m
<1>1. ListTyped /\ Upwards /\ SkipsNothing /\ 1 \in Levels
  BY NodeFacts DEF ListInv
<1>2. next[n][1] \in Chain(1) \cup {0}
  BY <1>1, ChainIsClosed DEF ChainsClosed
<1>3. n \in Nat /\ next[n][1] \in Nat /\ n \in Nodes
  BY <1>2, PresentIsChain DEF Nodes
<1>4. next[n][1] # 0 => n < next[n][1]
  BY <1>1, <1>3 DEF Upwards
<1>5. \A m \in Map!Present : m \in Nat /\ m # 0
  BY PresentIsChain
<1>6. \A m \in Chain(1) : n < m => next[n][1] # 0 /\ next[n][1] <= m
  BY <1>1 DEF SkipsNothing
<1> QED
  BY <1>2, <1>3, <1>4, <1>5, <1>6, PresentIsChain

LEMMA NextIsLeast ==
    ASSUME ListInv, NEW n \in Chain(1) \cup {0}
    PROVE  next[n][1] = Map!Least({k \in Map!Present : k > n})
<1> DEFINE S == {k \in Map!Present : k > n}
           m == next[n][1]
<1>1. /\ n \in Nat /\ m \in Nat /\ m \in Chain(1) \cup {0} /\ (m # 0 => n < m)
      /\ \A k \in Map!Present : k \in Nat /\ (n < k => m # 0 /\ m <= k)
  BY Neighbours
<1>2. S \in SUBSET Nat
  BY <1>1
<1>3. m = 0 => S = {}
  BY <1>1
<1>4. m # 0 => m \in S /\ \A k \in S : m <= k
  BY <1>1, PresentIsChain
<1> HIDE DEF S, m
<1>5. m = Map!Least(S)
  BY <1>1, <1>2, <1>3, <1>4, LeastIs
<1> QED
  BY <1>5 DEF S, m

(* Where a search for a key ends on the lowest level.                      *)
LEMMA SearchEnds ==
    ASSUME ListInv, NEW n \in Chain(1) \cup {0}, NEW k \in Nat, n < k,
           ~(next[n][1] # 0 /\ next[n][1] < k)
    PROVE  /\ next[n][1] = Map!Least({l \in Map!Present : l >= k})
           /\ n = Map!Greatest({l \in Map!Present : l < k})
<1> DEFINE S == {l \in Map!Present : l >= k}
           B == {l \in Map!Present : l < k}
           m == next[n][1]
<1>1. /\ n \in Nat /\ m \in Nat /\ m \in Chain(1) \cup {0} /\ (m # 0 => n < m)
      /\ \A l \in Map!Present : l \in Nat /\ l # 0 /\ (n < l => m # 0 /\ m <= l)
  BY Neighbours
<1>2. m # 0 => m >= k
  BY <1>1
<1>3. S \in SUBSET Nat /\ B \in SUBSET Nat
  BY <1>1
<1>4. m = 0 => S = {}
  BY <1>1
<1>5. m # 0 => m \in S /\ \A l \in S : m <= l
  BY <1>1, <1>2, PresentIsChain
<1>6. \A l \in B : l <= n
  BY <1>1, <1>2
<1>7. n = 0 => B = {}
  BY <1>1, <1>6
<1>8. n # 0 => n \in B
  BY PresentIsChain
<1> HIDE DEF S, B, m
<1>9. m = Map!Least(S) /\ n = Map!Greatest(B)
  BY <1>1, <1>3, <1>4, <1>5, <1>6, <1>7, <1>8, LeastIs, GreatestIs
<1> QED
  BY <1>9 DEF S, B, m

LEMMA LastIsGreatest ==
    ASSUME ListInv, NEW n \in Chain(1) \cup {0}, next[n][1] = 0
    PROVE  n = Map!Greatest(Map!Present)
<1>1. /\ n \in Nat
      /\ \A l \in Map!Present : l \in Nat /\ l # 0 /\ ~(n < l)
  BY Neighbours
<1>2. Map!Present \in SUBSET Nat /\ \A l \in Map!Present : l <= n
  BY <1>1
<1>3. n = 0 => Map!Present = {}
  BY <1>1
<1>4. n # 0 => n \in Map!Present
  BY PresentIsChain
<1> QED
  BY <1>1, <1>2, <1>3, <1>4, GreatestIs

-----------------------------------------------------------------------------
(* The steps of the list as steps of the map. *)

MapInv == ListInv /\ SearchesInv
Shows == <<Contents, wish, at, got>>

(* A put enters a new entry for a key of the map; a new node is not seen.  *)
LEMMA PutShows ==
    ASSUME MapInv, NEW k \in Keys, NEW v \in Values, Put(k, v)
    PROVE  MapInv' /\ [Map!Next]_Shows
<1>1. ListInv /\ SearchesInv
  BY DEF MapInv
<1>2. ListInv'
  BY <1>1, PutKeeps
<1>3. /\ ListTyped /\ ListTyped' /\ UNCHANGED readers
      /\ value' = [value EXCEPT ![k] = v]
      /\ \A i \in Levels : Chain(i)' = Chain(i)
  BY <1>1, PutFacts DEF ListInv
<1>4. SearchesInv'
  BY <1>1, <1>3, ReadersStay
<1>5. Contents = Shown /\ Contents' = Shown'
  <2>1. ListInv' => (Contents = Shown)'
    BY EnteredIsChain, PTL
  <2> QED
    BY <1>1, <1>2, <2>1, EnteredIsChain
<1>6. 1 \in Levels
  BY <1>3, NodeFacts
<1>7. UNCHANGED <<wish, at, got>>
  BY <1>3 DEF readers
<1>8. CASE k \in Chain(1)
  <2>1. Contents' = [Contents EXCEPT ![k] = v]
    BY <1>3, <1>5, <1>6, <1>8 DEF Shown, ListTyped
  <2> QED
    BY <1>2, <1>4, <1>7, <2>1 DEF MapInv, Map!Next, Map!Put
<1>9. CASE k \notin Chain(1)
  <2>1. Contents' = Contents
    BY <1>3, <1>5, <1>6, <1>9 DEF Shown, ListTyped
  <2> QED
    BY <1>2, <1>4, <1>7, <2>1 DEF MapInv, Shows
<1> QED
  BY <1>8, <1>9

(* A put of a new key takes effect when the node is linked at the bottom.  *)
LEMMA SetNextShows ==
    ASSUME MapInv, SetNext
    PROVE  MapInv' /\ [Map!Next]_Shows
<1>1. ListInv /\ SearchesInv /\ ListTyped
  BY DEF MapInv, ListInv
<1>2. UNCHANGED readers
  BY <1>1, SetNextFacts
<1>3. PICK k \in Keys, i \in Levels, p \in Nodes :
          Enters(k, i, p) /\ (Copies(k, i, p) \/ Links(k, i, p))
  BY <1>1, SetNextFacts
<1>4. ListInv'
  BY <1>1, <1>3, CopyKeeps, LinkKeeps
<1>5. \/ \A j \in Levels : Chain(j)' = Chain(j)
      \/ /\ Chain(i)' = Chain(i) \cup {k} /\ \A j \in Levels \ {i} : Chain(j)' = Chain(j)
  BY <1>1, <1>3, CopyFacts, LinkFacts
<1>6. SearchesInv'
  <2>1. ListTyped'
    BY <1>4 DEF ListInv
  <2>2. \A j \in Levels : Chain(j) \subseteq Chain(j)'
    BY <1>5
  <2> QED
    BY <1>1, <1>2, <2>1, <2>2, ReadersStay
<1>7. Contents = Shown /\ Contents' = Shown'
  <2>1. ListInv' => (Contents = Shown)'
    BY EnteredIsChain, PTL
  <2> QED
    BY <1>1, <1>4, <2>1, EnteredIsChain
<1>8. UNCHANGED <<wish, at, got>>
  BY <1>2 DEF readers
<1>9. 1 \in Levels /\ value' = value
  BY <1>1, <1>3, NodeFacts DEF Enters
<1>10. CASE Chain(1)' = Chain(1)
  <2>1. Contents' = Contents
    BY <1>7, <1>9, <1>10 DEF Shown
  <2> QED
    BY <1>4, <1>6, <1>8, <2>1 DEF MapInv, Shows
<1>11. CASE Chain(1)' = Chain(1) \cup {k}
  <2>1. value[k] \in Values
    BY <1>1, <1>3 DEF ListInv, InsertionAt, Enters, ListTyped
  <2>2. Contents' = [Contents EXCEPT ![k] = value[k]]
    BY <1>7, <1>9, <1>11 DEF Shown
  <2> QED
    BY <1>4, <1>6, <1>8, <2>1, <2>2 DEF MapInv, Map!Next, Map!Put
<1> QED
  BY <1>5, <1>9, <1>10, <1>11

(* A reader leaves the map as it is.                                       *)
LEMMA ReadersOnlyRead == UNCHANGED list => UNCHANGED Contents
  BY DEF list, Contents, Entered

LEMMA BeginShows ==
    ASSUME MapInv, NEW r \in Readers, NEW w \in Map!Calls, Begin(r, w),
           w.op # "last" => w.key \in Keys
    PROVE  MapInv' /\ [Map!Next]_Shows
<1>1. ListInv /\ SearchesInv
  BY DEF MapInv
<1>2. w \in Wishes /\ w.op \in {"seek", "less", "last"}
  BY DEF Map!Calls, Map!None, Wishes, Nodes
<1>3. UNCHANGED list
  BY DEF Begin
<1>4. ListInv' /\ SearchesInv'
  BY <1>1, <1>2, <1>3, ListStays, BeginKeeps
<1>5. Map!Ask(r, w)
  BY <1>3, ReadersOnlyRead DEF Begin, Map!Ask, Map!Idle, Map!None, Idle
<1> QED
  BY <1>4, <1>5 DEF MapInv, Map!Next

LEMMA StandAtShows ==
    ASSUME MapInv, NEW r \in Readers, NEW n \in Chain(1) \cup {0}, StandAt(r, n)
    PROVE  MapInv' /\ Map!StandAt(r, n)
<1>1. ListInv /\ SearchesInv
  BY DEF MapInv
<1>2. UNCHANGED list
  BY DEF StandAt
<1>3. ListInv' /\ SearchesInv'
  BY <1>1, <1>2, ListStays, StandAtKeeps
<1>4. Map!StandAt(r, n)
  BY <1>2, ReadersOnlyRead DEF StandAt, Map!StandAt, Map!Idle, Map!None, Idle
<1> QED
  BY <1>3, <1>4 DEF MapInv

(* The steps of a search between its call and its end.                     *)
LEMMA StepToShows ==
    ASSUME MapInv, NEW r \in Readers, NEW n \in Nat, StepTo(r, n),
           level[r] # 0, n \in Chain(level[r]),
           wish[r].op \in {"seek", "less"} => n < wish[r].key,
           wish[r].op = "get" => n <= wish[r].key
    PROVE  MapInv' /\ [Map!Next]_Shows
<1>1. UNCHANGED list /\ UNCHANGED <<wish, at, got>>
  BY DEF StepTo
<1> QED
  BY <1>1, ListStays, StepToKeeps, ReadersOnlyRead DEF MapInv, Shows

LEMMA StepDownShows ==
    ASSUME MapInv, NEW r \in Readers, StepDown(r), level[r] > 1
    PROVE  MapInv' /\ [Map!Next]_Shows
<1>1. UNCHANGED list /\ UNCHANGED <<wish, at, got>>
  BY DEF StepDown
<1> QED
  BY <1>1, ListStays, StepDownKeeps, ReadersOnlyRead DEF MapInv, Shows

(* The pointer that a search reads is one of the chain of its level.       *)
LEMMA PointerFacts ==
    ASSUME MapInv, NEW r \in Readers, level[r] # 0
    PROVE  /\ level[r] \in Levels /\ ReaderAt(r)
           /\ x[r] \in Chain(level[r]) \cup {0} /\ x[r] \in Nat
           /\ Pointer(r) \in Chain(level[r]) \cup {0} /\ Pointer(r) \in Nat
           /\ ~(level[r] > 1) => level[r] = 1
           /\ wish[r].key \in Nat
<1>1. ListInv /\ SearchesInv
  BY DEF MapInv
<1>2. /\ ReadersTyped /\ ReaderAt(r) /\ level[r] \in Levels /\ Levels \subseteq Nat
      /\ x[r] \in Nodes /\ Nodes \subseteq Nat /\ Keys \subseteq Nodes /\ 0 \in Nodes
      /\ wish[r] \in Wishes
  BY <1>1, ReaderFacts
<1>3. x[r] \in Chain(level[r]) \cup {0}
  BY <1>2 DEF ReaderAt
<1>4. Pointer(r) \in Chain(level[r]) \cup {0} /\ Chain(level[r]) \subseteq Keys
  BY <1>1, <1>2, <1>3, ReaderFacts DEF Pointer
<1>5. ~(level[r] > 1) => level[r] = 1
  <2>1. level[r] \in Nat
    BY <1>2
  <2> QED
    BY <2>1
<1>6. wish[r].key \in Nat
  BY <1>2 DEF Wishes
<1> QED
  BY <1>2, <1>3, <1>4, <1>5, <1>6

LEMMA StartShows ==
    ASSUME MapInv, NEW r \in Readers, Start(r)
    PROVE  MapInv' /\ [Map!Next]_Shows
<1>1. ListInv /\ SearchesInv
  BY DEF MapInv
<1>2. /\ wish[r] # Idle /\ level[r] = 0 /\ level' = [level EXCEPT ![r] = maxHeight]
      /\ UNCHANGED <<list, wish, x, at, got>>
  BY DEF Start
<1>3. ReadersTyped /\ ReaderAt(r) /\ maxHeight \in Levels /\ 0 \notin Levels
  BY <1>1, ReaderFacts
<1>4. ReadersTyped' /\ level'[r] = maxHeight /\ Others(r)
  BY <1>2, <1>3 DEF ReadersTyped, Others
<1>5. \A i : Chain(i)' = Chain(i)
  BY <1>2 DEF list, Chain
<1>6. ReaderAt(r)'
  BY <1>2, <1>3, <1>4, <1>5 DEF ReaderAt
<1>7. SearchesInv'
  BY <1>1, <1>2, <1>4, <1>6, OneReader
<1> QED
  BY <1>1, <1>2, <1>7, ListStays, ReadersOnlyRead DEF MapInv, Shows

LEMMA SeekShows ==
    ASSUME MapInv, NEW r \in Readers, FindGreaterOrEqual(r)
    PROVE  MapInv' /\ [Map!Next]_Shows
<1>1. ListInv /\ wish[r].op = "seek" /\ level[r] # 0
  BY DEF MapInv, FindGreaterOrEqual, Searching
<1>2. CASE Passes(r, wish[r].key)
  <2>1. Pointer(r) # 0 /\ Pointer(r) < wish[r].key /\ StepTo(r, Pointer(r))
    BY <1>2 DEF Passes, FindGreaterOrEqual
  <2> QED
    BY <1>1, <2>1, PointerFacts, StepToShows
<1>3. CASE ~Passes(r, wish[r].key) /\ level[r] > 1
  BY <1>3, StepDownShows DEF FindGreaterOrEqual
<1>4. CASE ~Passes(r, wish[r].key) /\ ~(level[r] > 1)
  <2>1. level[r] = 1 /\ StandAt(r, Pointer(r))
    BY <1>1, <1>4, PointerFacts DEF FindGreaterOrEqual
  <2>2. /\ Pointer(r) = next[x[r]][1] /\ Pointer(r) \in Chain(1) \cup {0}
        /\ x[r] \in Chain(1) \cup {0} /\ wish[r].key \in Nat /\ x[r] < wish[r].key
    BY <1>1, <2>1, PointerFacts DEF Pointer, ReaderAt
  <2>3. Pointer(r) = Map!Least({k \in Map!Present : k >= wish[r].key})
    BY <1>1, <1>4, <2>2, SearchEnds DEF Passes
  <2>4. MapInv' /\ Map!StandAt(r, Pointer(r))
    BY <2>1, <2>2, StandAtShows
  <2> QED
    BY <1>1, <2>3, <2>4 DEF Map!Next, Map!Answer
<1> QED
  BY <1>2, <1>3, <1>4

LEMMA LessShows ==
    ASSUME MapInv, NEW r \in Readers, FindLessThan(r)
    PROVE  MapInv' /\ [Map!Next]_Shows
<1>1. ListInv /\ wish[r].op = "less" /\ level[r] # 0
  BY DEF MapInv, FindLessThan, Searching
<1>2. CASE Passes(r, wish[r].key)
  <2>1. Pointer(r) # 0 /\ Pointer(r) < wish[r].key /\ StepTo(r, Pointer(r))
    BY <1>2 DEF Passes, FindLessThan
  <2> QED
    BY <1>1, <2>1, PointerFacts, StepToShows
<1>3. CASE ~Passes(r, wish[r].key) /\ level[r] > 1
  BY <1>3, StepDownShows DEF FindLessThan
<1>4. CASE ~Passes(r, wish[r].key) /\ ~(level[r] > 1)
  <2>1. level[r] = 1 /\ StandAt(r, x[r])
    BY <1>1, <1>4, PointerFacts DEF FindLessThan
  <2>2. /\ Pointer(r) = next[x[r]][1]
        /\ x[r] \in Chain(1) \cup {0} /\ wish[r].key \in Nat /\ x[r] < wish[r].key
    BY <1>1, <2>1, PointerFacts DEF Pointer, ReaderAt
  <2>3. x[r] = Map!Greatest({k \in Map!Present : k < wish[r].key})
    BY <1>1, <1>4, <2>2, SearchEnds DEF Passes
  <2>4. MapInv' /\ Map!StandAt(r, x[r])
    BY <2>1, <2>2, StandAtShows
  <2> QED
    BY <1>1, <2>3, <2>4 DEF Map!Next, Map!Answer
<1> QED
  BY <1>2, <1>3, <1>4

LEMMA LastShows ==
    ASSUME MapInv, NEW r \in Readers, FindLast(r)
    PROVE  MapInv' /\ [Map!Next]_Shows
<1>1. ListInv /\ wish[r].op = "last" /\ level[r] # 0
  BY DEF MapInv, FindLast, Searching
<1>2. CASE Pointer(r) # 0
  <2>1. StepTo(r, Pointer(r))
    BY <1>2 DEF FindLast
  <2> QED
    BY <1>1, <1>2, <2>1, PointerFacts, StepToShows
<1>3. CASE Pointer(r) = 0 /\ level[r] > 1
  BY <1>3, StepDownShows DEF FindLast
<1>4. CASE Pointer(r) = 0 /\ ~(level[r] > 1)
  <2>1. level[r] = 1 /\ StandAt(r, x[r])
    BY <1>1, <1>4, PointerFacts DEF FindLast
  <2>2. next[x[r]][1] = 0 /\ x[r] \in Chain(1) \cup {0}
    BY <1>1, <1>4, <2>1, PointerFacts DEF Pointer
  <2>3. x[r] = Map!Greatest(Map!Present)
    BY <1>1, <2>2, LastIsGreatest
  <2>4. MapInv' /\ Map!StandAt(r, x[r])
    BY <2>1, <2>2, StandAtShows
  <2> QED
    BY <1>1, <2>3, <2>4 DEF Map!Next, Map!Answer
<1> QED
  BY <1>2, <1>3, <1>4

(* The search of Get ends at the key, because that is in the list.         *)
LEMMA GetShows ==
    ASSUME MapInv, NEW r \in Readers, Get(r)
    PROVE  MapInv' /\ [Map!Next]_Shows
<1>1. ListInv /\ wish[r].op = "get" /\ level[r] # 0 /\ x[r] # wish[r].key
  BY DEF MapInv, Get, Searching
<1>2. CASE Passes(r, wish[r].key)
  <2>1. Pointer(r) # 0 /\ Pointer(r) < wish[r].key /\ StepTo(r, Pointer(r))
    BY <1>2 DEF Passes, Get
  <2>2. Pointer(r) <= wish[r].key
    BY <2>1, <1>1, PointerFacts
  <2> QED
    BY <1>1, <2>1, <2>2, PointerFacts, StepToShows
<1>3. CASE ~Passes(r, wish[r].key) /\ level[r] > 1
  BY <1>3, StepDownShows DEF Get
<1>4. CASE ~Passes(r, wish[r].key) /\ ~(level[r] > 1)
  <2>1. level[r] = 1 /\ StepTo(r, Pointer(r))
    BY <1>1, <1>4, PointerFacts DEF Get
  <2>2. /\ Pointer(r) = next[x[r]][1] /\ x[r] \in Chain(1) \cup {0} /\ x[r] \in Nat
        /\ wish[r].key \in Chain(1) /\ wish[r].key \in Nat /\ x[r] <= wish[r].key
        /\ Pointer(r) \in Nat /\ Pointer(r) \in Chain(1) \cup {0}
    BY <1>1, <2>1, PointerFacts DEF Pointer, ReaderAt
  <2>3. x[r] < wish[r].key
    BY <1>1, <2>2
  <2>4. wish[r].key \in Map!Present
    BY <1>1, <2>2, PresentIsChain
  <2>5. Pointer(r) # 0 /\ Pointer(r) <= wish[r].key
    BY <1>1, <2>2, <2>3, <2>4, Neighbours
  <2> QED
    BY <1>1, <2>1, <2>2, <2>5, StepToShows
<1> QED
  BY <1>2, <1>3, <1>4

LEMMA TakeShows ==
    ASSUME MapInv, NEW r \in Readers, TakeEntry(r)
    PROVE  MapInv' /\ [Map!Next]_Shows
<1>1. ListInv /\ SearchesInv
  BY DEF MapInv
<1>2. /\ wish[r].op = "get" /\ level[r] # 0 /\ x[r] = wish[r].key
      /\ got' = [got EXCEPT ![r] = value[x[r]]]
      /\ wish' = [wish EXCEPT ![r] = Idle]
      /\ x' = [x EXCEPT ![r] = 0] /\ level' = [level EXCEPT ![r] = 0]
      /\ UNCHANGED <<list, at>>
  BY DEF TakeEntry, Searching
<1>3. /\ ReadersTyped /\ ReaderAt(r) /\ 0 \in Nodes /\ 0 \notin Levels /\ 1 \in Levels
      /\ wish[r].key \in Chain(1) /\ Chain(1) \subseteq Keys
  BY <1>1, <1>2, ReaderFacts DEF ReaderAt
<1>4. Idle \in Wishes /\ value[x[r]] \in Values \cup {0}
  BY <1>1, <1>2, <1>3 DEF Idle, Wishes, ListInv, ListTyped
<1>5. ReadersTyped'
  BY <1>2, <1>3, <1>4 DEF ReadersTyped
<1>6. /\ wish'[r] = Idle /\ x'[r] = 0 /\ level'[r] = 0 /\ at'[r] = at[r]
      /\ Others(r)
  BY <1>2, <1>3 DEF ReadersTyped, Others
<1>7. \A i : Chain(i)' = Chain(i)
  BY <1>2 DEF list, Chain
<1>8. ReaderAt(r)'
  BY <1>3, <1>6, <1>7 DEF ReaderAt, Idle
<1>9. ListInv' /\ SearchesInv'
  BY <1>1, <1>2, <1>5, <1>6, <1>8, ListStays, OneReader
<1>10. Contents[wish[r].key] = value[x[r]]
  BY <1>1, <1>2, <1>3, EnteredIsChain DEF Shown
<1>11. Map!Take(r)
  BY <1>2, <1>10, ReadersOnlyRead DEF Map!Take, Map!Idle, Map!None, Idle
<1> QED
  BY <1>9, <1>11 DEF MapInv, Map!Next

(* SeekToFirst and Next follow a pointer of the lowest level.              *)
LEMMA FollowShows ==
    ASSUME MapInv, NEW r \in Readers, NEW n \in {at[r], 0}, wish[r] = Idle,
           StandAt(r, next[n][1])
    PROVE  MapInv' /\ [Map!Next]_Shows
<1>1. ListInv /\ n \in Chain(1) \cup {0}
  BY DEF MapInv, SearchesInv, ReaderAt
<1>2. next[n][1] \in Chain(1) \cup {0}
  BY <1>1, Neighbours
<1>3. MapInv' /\ Map!StandAt(r, next[n][1])
  BY <1>2, StandAtShows
<1>4. Map!Move(r)
  BY <1>1, <1>3, NextIsLeast DEF Map!Move, Map!Idle, Map!None, Idle
<1> QED
  BY <1>3, <1>4 DEF Map!Next

LEMMA AskShows ==
    ASSUME MapInv, NEW r \in Readers,
           (\E k \in Keys : Seek(r, k)) \/ SeekToLast(r) \/ Prev(r)
    PROVE  MapInv' /\ [Map!Next]_Shows
<1>1. ASSUME NEW k \in Keys, Seek(r, k) PROVE MapInv' /\ [Map!Next]_Shows
  <2>1. [op |-> "seek", key |-> k] \in Map!Calls
    BY DEF Map!Calls
  <2> QED
    BY <1>1, <2>1, BeginShows DEF Seek
<1>2. CASE SeekToLast(r)
  <2>1. [op |-> "last", key |-> 0] \in Map!Calls
    BY DEF Map!Calls, Map!None
  <2> QED
    BY <1>2, <2>1, BeginShows DEF SeekToLast
<1>3. CASE Prev(r)
  <2>1. at[r] \in Keys
    BY <1>3, ReaderFacts DEF Prev, MapInv, Nodes
  <2>2. [op |-> "less", key |-> at[r]] \in Map!Calls
    BY <2>1 DEF Map!Calls
  <2> QED
    BY <1>3, <2>1, <2>2, BeginShows DEF Prev
<1> QED
  BY <1>1, <1>2, <1>3

LEMMA NothingShows ==
    ASSUME MapInv, UNCHANGED vars
    PROVE  MapInv' /\ [Map!Next]_Shows
<1>1. ListInv /\ SearchesInv /\ UNCHANGED list /\ UNCHANGED readers
  BY DEF MapInv, vars
<1>2. ListInv' /\ ListTyped /\ ListTyped'
  BY <1>1, ListStays DEF ListInv
<1>3. \A i \in Levels : Chain(i) \subseteq Chain(i)'
  BY <1>1 DEF list, Chain
<1>4. SearchesInv'
  BY <1>1, <1>2, <1>3, ReadersStay
<1> QED
  BY <1>1, <1>2, <1>4, ReadersOnlyRead DEF MapInv, Shows, readers

LEMMA MapStep ==
    ASSUME MapInv, [Next]_vars
    PROVE  MapInv' /\ [Map!Next]_Shows
<1>1. ASSUME NEW r \in Readers,
             \/ SeekToFirst(r) \/ MoveNext(r)
             \/ Start(r)
             \/ FindGreaterOrEqual(r) \/ FindLessThan(r) \/ FindLast(r)
             \/ Get(r) \/ TakeEntry(r)
      PROVE  MapInv' /\ [Map!Next]_Shows
  <2>1. CASE SeekToFirst(r)
    BY <2>1, FollowShows DEF SeekToFirst
  <2>2. CASE MoveNext(r)
    BY <2>2, FollowShows DEF MoveNext
  <2> QED
    BY <1>1, <2>1, <2>2, StartShows, SeekShows, LessShows, LastShows, GetShows, TakeShows
<1> QED
  BY <1>1, PutShows, SetNextShows, AskShows, NothingShows DEF Next

LEMMA MapStarts ==
    ASSUME Init
    PROVE  MapInv /\ Map!Init
<1>1. MaxHeight \in Nat \ {0} /\ Keys \subseteq Nat \ {0}
  BY ListAssumption
<1>2. ListTyped
  BY <1>1 DEF Init, ListTyped, Levels, Nodes, Resting
<1>3. \A n \in Nodes, i \in Levels : next[n][i] = 0
  BY DEF Init
<1>4. \A i \in Levels : Chain(i) = {}
  <2>1. PICK S \in SUBSET Keys : S = {}
    OBVIOUS
  <2>2. \A i \in Levels : \A n \in S \cup {0} : next[n][i] \in S \cup {0}
    BY <1>3, <2>1 DEF Nodes
  <2>3. \A i \in Levels : Chain(i) \subseteq S
    BY <2>2, ChainIsLeast
  <2> QED
    BY <2>1, <2>3
<1>5. 1 \in Levels
  BY <1>2, NodeFacts
<1>6. ListInv
  BY <1>2, <1>3, <1>4, <1>5
     DEF ListInv, Upwards, PointsIn, SkipsNothing, Nested, InsertionAt, HasEntry, Init
<1>7. SearchesInv
  BY DEF Init, SearchesInv, ReadersTyped, ReaderAt, Wishes, Nodes, Idle
<1>8. Contents = [k \in Keys |-> 0]
  BY <1>4, <1>5, <1>6, EnteredIsChain DEF Shown
<1> QED
  BY <1>6, <1>7, <1>8 DEF MapInv, Map!Init, Map!Idle, Map!None, Init, Idle

LEMMA MapKept == Spec => []MapInv
<1>1. Init => MapInv
  BY MapStarts
<1>2. MapInv /\ [Next]_vars => MapInv'
  BY MapStep
<1> QED
  BY <1>1, <1>2, PTL DEF Spec

-----------------------------------------------------------------------------
\* Whatever the order in which Insert links a node and searches descend, the pointers
\* of a level lead upwards and the level below leads to all that a level leads to.
THEOREM LevelsAreNested == Spec => []ChainsNested
<1>1. MapInv => ChainsNested
  <2> SUFFICES ASSUME MapInv PROVE ChainsNested
    OBVIOUS
  <2>1. Upwards /\ Nested /\ ListTyped
    BY DEF MapInv, ListInv
  <2>2. ASSUME NEW i \in Levels \ {1} PROVE Chain(i) \subseteq Chain(i - 1)
    <3>1. i - 1 \in Levels /\ i - 1 <= i
      BY ListAssumption DEF Levels
    <3> QED
      BY <2>1, <3>1 DEF Nested
  <2> QED
    BY <2>1, <2>2 DEF ChainsNested, Upwards
<1> QED
  BY <1>1, MapKept, PTL

\* A memtable's iterators see an ordered map that a put enters in one step, although
\* they read the list without the lock that Put and Delete hold.
THEOREM ListIsAMap == Spec => Implements
<1>1. Init => Map!Init
  BY MapStarts
<1>2. MapInv /\ [Next]_vars => [Map!Next]_Shows
  BY MapStep
<1>3. Map!Spec <=> Map!Init /\ [][Map!Next]_Shows
  BY DEF Map!Spec, Map!vars, Shows
<1> QED
  BY <1>1, <1>2, <1>3, MapKept, PTL DEF Spec, Implements
=============================================================================
