--------------------------- MODULE IteratorProofs ---------------------------
(***************************************************************************)
(* Proofs about Iterators, for any versions in any memtables and tables,   *)
(* any snapshot and any chains: a scan returns what there is, and so does  *)
(* a search over memtables.                                                *)
(***************************************************************************)
EXTENDS IteratorProps, FiniteSetTheorems, WellFoundedInduction, TLAPS

(***************************************************************************)
(* In a child the keys ascend.                                             *)
(***************************************************************************)
ChildTyped(c) ==
    /\ data[c] \in Seq(Entries)
    /\ \A i, j \in 1 .. Size(c) : i < j => data[c][i].key <= data[c][j].key
Positions == {p \in [Children -> Nat] : \A c \in Children : p[c] <= Size(c)}

UserTyped ==
    \/ user = "lsm" /\ chain = {} /\ back = "idle" /\ pc # "advance"
    \/ user = "txn" /\ chain \in Chains /\ dir = "Forward" /\ pc # "large"
Typed ==
    /\ \A c \in Children : ChildTyped(c)
    /\ pos \in Positions
    /\ cur \in Entries \cup {NoEntry}
    /\ mvNext \in ChainKeys \cup {0}
    /\ txn \in Entries \cup chain \cup {NoEntry}
    /\ floor \in Nat /\ bound \in Nat
    /\ pc \in {"idle", "small", "large", "advance"} /\ back \in {"idle", "advance"}
    /\ dir \in {"Forward", "Reverse"}
    /\ UserTyped

(***************************************************************************)
(* What the tree has to show, and a position behind all entries up to a    *)
(* key and before all others.                                              *)
(***************************************************************************)
LsmView(k) == NewestVisible(Written(k))
LsmShown == {k \in Keys : IsLive(LsmView(k))}
PassedTo(p, k) ==
    \A c \in Children : \A i \in 1 .. Size(c) :
        data[c][i].key > k <=> p[c] # 0 /\ p[c] <= i
None(S, a, b) == \A k \in S : k <= a \/ b < k

(* The merge, or the chain, stands at the first key above b.               *)
CurIs(b) ==
    IF cur = NoEntry THEN \A k \in LsmShown : k <= b
    ELSE /\ cur.key \in LsmShown /\ cur = LsmView(cur.key) /\ b < cur.key
         /\ \A k \in LsmShown : k <= b \/ cur.key <= k
         /\ PassedTo(pos, cur.key)
MvIs(b) ==
    IF mvNext = 0 THEN \A k \in ChainKeys : k <= b
    ELSE b < mvNext /\ \A k \in ChainKeys : k <= b \/ mvNext <= k

(***************************************************************************)
(* After Seek, or a turn back, over tables nothing is certain (TableSeek   *)
(* may miss a key): the invariant is about the other behaviours.           *)
(***************************************************************************)
Exact == clean \/ NoTables
Base == IF bound = 0 THEN floor ELSE bound
Forwards == {"first", "seek", "next"}

Calls ==
    /\ clean => dir = "Forward" /\ op \in Forwards
    /\ pc \in {"small", "advance"} => op \in Forwards
    /\ pc = "small" /\ user = "lsm" => Base = floor
    /\ pc = "large" => op \notin Forwards
Searching ==
    pc = "small" /\ Exact =>
        \E k \in Nat :
            PassedTo(pos, k) /\ None(LsmShown, Base, k) /\ (bound = 0 => floor <= k)
LsmIdle ==
    pc = "idle" /\ user = "lsm" /\ Exact =>
        /\ op \in Forwards => CurIs(floor)
        /\ dir = "Forward" /\ cur # NoEntry => PassedTo(pos, cur.key)

(* In Advance all keys from floor up to some b have turned out deleted.    *)
Advancing ==
    pc = "advance" /\ Exact =>
        \E b \in Nat : floor <= b /\ CurIs(b) /\ MvIs(b) /\ None(Shown, floor, b)
Returning ==
    pc = "small" /\ back = "advance" /\ Exact =>
        floor <= Base /\ MvIs(Base) /\ None(Shown, floor, Base)
Delivered ==
    /\ txn # NoEntry /\ floor < txn.key
    /\ txn.key \in Shown /\ txn = View(txn.key)
    /\ \A k \in Shown : k <= floor \/ txn.key <= k
    /\ MvIs(txn.key)
Delivering ==
    pc = "small" /\ user = "txn" /\ back = "idle" /\ Exact => Delivered /\ bound = txn.key
TxnIdle ==
    pc = "idle" /\ user = "txn" /\ Exact =>
        /\ txn # NoEntry => Delivered /\ CurIs(txn.key)
        /\ txn = NoEntry /\ op \in Forwards => \A k \in Shown : k <= floor

IInv ==
    /\ Typed /\ Calls /\ Searching /\ LsmIdle
    /\ Advancing /\ Returning /\ Delivering /\ TxnIdle

-----------------------------------------------------------------------------
(* Sets of numbers. *)

\* A set of numbers has a least one.
LEMMA LeastExists ==
    ASSUME NEW T \in SUBSET Nat, T # {}
    PROVE  \E x \in T : \A y \in T : x <= y
<1> DEFINE R == OpToRel(<, Nat)
<1>1. \A x, y \in Nat : <<y, x>> \in R <=> y < x
  BY DEF OpToRel
<1>2. PICK x \in T : \A y \in T : ~(<<y, x>> \in R)
  <2> HIDE DEF R
  <2>1. IsWellFoundedOn(R, Nat)
    BY NatLessThanWellFounded DEF R
  <2> QED BY <2>1, WFMin
<1>3. \A y \in T : ~(y < x) /\ x \in Nat /\ y \in Nat
  BY <1>1, <1>2
<1> QED BY <1>3

\* A bounded set of numbers has a greatest one: the bound less the least
\* distance to it.
LEMMA GreatestExists ==
    ASSUME NEW T \in SUBSET Nat, T # {}, NEW b \in Nat, \A y \in T : y <= b
    PROVE  \E x \in T : \A y \in T : y <= x
<1> DEFINE D == {d \in Nat : \E y \in T : y + d = b}
<1>1. D \in SUBSET Nat /\ D # {}
  <2>1. PICK y \in T : TRUE
    OBVIOUS
  <2>2. b - y \in Nat /\ y + (b - y) = b
    BY <2>1
  <2> QED BY <2>1, <2>2
<1>2. PICK d \in D : \A e \in D : d <= e
  <2> HIDE DEF D
  <2> QED BY <1>1, LeastExists
<1>3. PICK x \in T : x + d = b
  BY <1>2
<1>4. \A y \in T : y <= x
  <2> TAKE y \in T
  <2>1. b - y \in Nat /\ y + (b - y) = b /\ y \in Nat /\ x \in Nat /\ d \in Nat
    BY <1>2
  <2>2. d <= b - y
    BY <1>2, <2>1
  <2> HIDE DEF D
  <2> QED BY <1>3, <2>1, <2>2
<1> QED BY <1>4

\* A finite set of numbers is bounded: what is counted up to any place of an
\* enumeration is.
LEMMA FiniteIsBounded ==
    ASSUME NEW T \in SUBSET Nat, IsFiniteSet(T)
    PROVE  \E b \in Nat : \A y \in T : y <= b
<1>1. PICK n \in Nat : ExistsSurjection(1 .. n, T)
  BY FS_NatSurjection
<1>2. PICK f \in Surjection(1 .. n, T) : TRUE
  BY <1>1 DEF ExistsSurjection
<1>3. /\ \A i \in 1 .. n : f[i] \in Nat
      /\ \A y \in T : \E i \in 1 .. n : f[i] = y
  BY <1>2 DEF Surjection
<1> DEFINE Bad == {m \in 0 .. n : \A b \in Nat : \E i \in 1 .. m : ~(f[i] <= b)}
<1>4. CASE Bad = {}
  <2>1. PICK b \in Nat : \A i \in 1 .. n : f[i] <= b
    <3>1. n \in 0 .. n
      OBVIOUS
    <3>2. ~ \A b \in Nat : \E i \in 1 .. n : ~(f[i] <= b)
      BY <1>4, <3>1
    <3> QED BY <3>2
  <2> QED BY <1>3, <2>1
<1>5. CASE Bad # {}
  <2>1. PICK m \in Bad : \A k \in Bad : m <= k
    <3>1. Bad \in SUBSET Nat
      OBVIOUS
    <3> HIDE DEF Bad
    <3> QED BY <1>5, <3>1, LeastExists
  <2>2. m # 0
    <3>1. SUFFICES ASSUME m = 0 PROVE FALSE
      OBVIOUS
    <3>2. \E i \in 1 .. 0 : ~(f[i] <= 0)
      BY <2>1, <3>1
    <3> QED BY <3>2
  <2>3. m - 1 \in 0 .. n /\ m - 1 \notin Bad /\ m \in 1 .. n
    <3>1. m \in 0 .. n
      BY <2>1
    <3>2. m - 1 \in 0 .. n /\ ~(m <= m - 1) /\ m \in 1 .. n
      BY <2>2, <3>1
    <3> HIDE DEF Bad
    <3> QED BY <2>1, <3>2
  <2>4. PICK b \in Nat : \A i \in 1 .. (m - 1) : f[i] <= b
    BY <2>3
  <2> HIDE DEF Bad
  <2>5. PICK d \in Nat : b <= d /\ f[m] <= d
    <3>1. f[m] \in Nat /\ (b <= f[m] \/ f[m] <= b)
      BY <1>3, <2>3
    <3> QED BY <3>1
  <2>6. \A i \in 1 .. m : f[i] <= d
    <3> TAKE i \in 1 .. m
    <3>1. i = m \/ i \in 1 .. (m - 1)
      BY <2>3
    <3>2. f[i] \in Nat
      <4>1. i \in 1 .. n
        BY <2>3
      <4> QED BY <1>3, <4>1
    <3>3. CASE i = m
      BY <2>5, <3>3
    <3>4. CASE i \in 1 .. (m - 1)
      <4>1. f[i] <= b
        BY <2>4, <3>4
      <4> QED BY <2>5, <3>2, <4>1
    <3> QED BY <3>1, <3>3, <3>4
  <2> QED BY <2>1, <2>5, <2>6 DEF Bad
<1> QED BY <1>4, <1>5

\* What Least and Greatest return.
LEMMA LeastIs ==
    ASSUME NEW T \in SUBSET Nat, T # {}
    PROVE  Least(T) \in T /\ \A y \in T : Least(T) <= y
<1>1. \E x \in T : \A y \in T : x <= y
  BY LeastExists
<1> QED BY <1>1 DEF Least

LEMMA LeastIsThis ==
    ASSUME NEW T \in SUBSET Nat, NEW x \in T, \A y \in T : x <= y
    PROVE  Least(T) = x
<1>1. Least(T) \in T /\ Least(T) <= x /\ x <= Least(T)
  <2>1. T # {}
    OBVIOUS
  <2>2. Least(T) \in T /\ \A y \in T : Least(T) <= y
    BY <2>1, LeastIs
  <2> QED BY <2>2
<1>2. Least(T) \in Nat /\ x \in Nat
  BY <1>1
<1> QED BY <1>1, <1>2

LEMMA GreatestIs ==
    ASSUME NEW T \in SUBSET Nat, T # {}, NEW b \in Nat, \A y \in T : y <= b
    PROVE  Greatest(T) \in T /\ \A y \in T : y <= Greatest(T)
<1>1. \E x \in T : \A y \in T : y <= x
  BY GreatestExists
<1> QED BY <1>1 DEF Greatest

-----------------------------------------------------------------------------
(* Entries and views. *)

LEMMA EntryFacts ==
    ASSUME NEW e \in Entries
    PROVE  /\ e.key \in Keys /\ e.key \in Nat /\ e.key # 0 /\ e.seq \in Nat
           /\ e.kind \in {"Value", "Deletion"} /\ e # NoEntry
<1>1. /\ e.key \in {s[1] : s \in Slots} /\ e.seq \in {s[2] : s \in Slots} /\ e.kind \in Kinds
  BY DEF Entries, Keys
<1>2. e # NoEntry
  BY ChainsAssumption
<1> QED BY <1>1, <1>2, ChildrenAssumption DEF Keys

\* Only so many keys and numbers are used.
LEMMA EntriesAreBounded ==
    \E b \in Nat : \A e \in Entries : e.seq <= b /\ e.key <= b
<1> DEFINE F == [s \in Slots |-> s[1]]
           G == [s \in Slots |-> s[2]]
           Seqs == {s[2] : s \in Slots}
<1>1. Keys \in SUBSET Nat /\ Seqs \in SUBSET Nat /\ IsFiniteSet(Slots)
  BY ChildrenAssumption DEF Keys
<1>2. F \in Surjection(Slots, Keys) /\ G \in Surjection(Slots, Seqs)
  BY DEF Surjection, Keys
<1>3. IsFiniteSet(Keys) /\ IsFiniteSet(Seqs)
  <2> HIDE DEF F, G, Seqs
  <2> QED BY <1>1, <1>2, FS_Surjection
<1>4. PICK a \in Nat : \A k \in Keys : k <= a
  BY <1>1, <1>3, FiniteIsBounded
<1>5. PICK d \in Nat : \A n \in Seqs : n <= d
  <2> HIDE DEF Seqs
  <2> QED BY <1>1, <1>3, FiniteIsBounded
<1>6. \A e \in Entries : e.key \in Keys /\ e.seq \in Seqs
  BY DEF Entries, Keys
<1>7. a + d \in Nat /\ \A e \in Entries : e.seq <= a + d /\ e.key <= a + d
  <2>1. \A e \in Entries : e.key <= a /\ e.seq <= d /\ e.key \in Nat /\ e.seq \in Nat
    BY <1>1, <1>4, <1>5, <1>6
  <2> HIDE DEF Seqs
  <2> QED BY <2>1
<1> QED BY <1>7

LEMMA NewestIs ==
    ASSUME NEW es \in SUBSET Entries
    PROVE  NewestVisible(es) = NoEntry \/ NewestVisible(es) \in es
<1> DEFINE seen == {e \in es : snapshot = 0 \/ e.seq <= snapshot}
           Seqs == {e.seq : e \in seen}
<1>1. CASE seen # {}
  <2>1. PICK b \in Nat : \A e \in Entries : e.seq <= b
    BY EntriesAreBounded
  <2>2. Seqs \in SUBSET Nat /\ Seqs # {} /\ \A n \in Seqs : n <= b
    BY <1>1, <2>1, EntryFacts
  <2>3. \E n \in Seqs : \A m \in Seqs : m <= n
    <3> HIDE DEF Seqs
    <3> QED BY <2>2, GreatestExists
  <2>4. \E e \in seen : \A o \in seen : o.seq <= e.seq
    BY <2>3
  <2> QED BY <1>1, <2>4 DEF NewestVisible
<1>2. CASE seen = {}
  BY <1>2 DEF NewestVisible
<1> QED BY <1>1, <1>2

LEMMA DataFacts ==
    ASSUME Typed, NEW c \in Children
    PROVE  /\ Size(c) \in Nat
           /\ \A i \in 1 .. Size(c) :
                  /\ data[c][i] \in Entries
                  /\ data[c][i].key \in Keys /\ data[c][i].key \in Nat /\ data[c][i].key # 0
           /\ \A i, j \in 1 .. Size(c) : i <= j => data[c][i].key <= data[c][j].key
<1>1. ChildTyped(c)
  BY DEF Typed
<1>2. data[c] \in Seq(Entries) /\ Size(c) = Len(data[c])
  BY <1>1 DEF ChildTyped, Size
<1>3. Size(c) \in Nat /\ \A i \in 1 .. Size(c) : data[c][i] \in Entries
  BY <1>2
<1>4. \A i \in 1 .. Size(c) : data[c][i].key \in Nat
  BY <1>3, EntryFacts
<1>5. \A i, j \in 1 .. Size(c) : i <= j => data[c][i].key <= data[c][j].key
  <2> TAKE i, j \in 1 .. Size(c)
  <2>1. CASE i < j
    BY <1>1, <2>1 DEF ChildTyped
  <2>2. CASE i = j
    BY <1>4, <2>2
  <2> QED BY <1>3, <2>1, <2>2
<1> QED BY <1>3, <1>4, <1>5, EntryFacts

LEMMA WrittenIs ==
    ASSUME Typed, NEW k
    PROVE  /\ Written(k) \in SUBSET Entries
           /\ \A e : e \in Written(k) <=>
                  \E c \in Children : \E i \in 1 .. Size(c) : e = data[c][i] /\ data[c][i].key = k
<1>1. \A c \in Children : \A i \in 1 .. Size(c) : data[c][i] \in Entries
  BY DataFacts
<1> QED BY <1>1 DEF Written

LEMMA LsmViewIs ==
    ASSUME Typed, NEW k
    PROVE  LsmView(k) = NoEntry \/ (LsmView(k) \in Entries /\ LsmView(k).key = k)
<1>1. LsmView(k) = NoEntry \/ LsmView(k) \in Written(k)
  BY WrittenIs, NewestIs DEF LsmView
<1> QED BY <1>1, WrittenIs DEF Written

LEMMA LsmShownIs ==
    ASSUME Typed, NEW k \in LsmShown
    PROVE  /\ k \in Nat /\ k # 0
           /\ LsmView(k) \in Entries /\ LsmView(k).key = k /\ IsLive(LsmView(k))
           /\ \E c \in Children : \E i \in 1 .. Size(c) : data[c][i].key = k
<1>1. IsLive(LsmView(k))
  BY DEF LsmShown
<1>2. LsmView(k) # NoEntry
  BY <1>1 DEF IsLive
<1>3. LsmView(k) \in Written(k)
  BY <1>2, WrittenIs, NewestIs DEF LsmView
<1>4. LsmView(k) \in Entries /\ LsmView(k).key = k
  BY <1>2, LsmViewIs
<1>5. \E c \in Children : \E i \in 1 .. Size(c) : data[c][i].key = k
  BY <1>3, WrittenIs
<1> QED BY <1>1, <1>4, <1>5, EntryFacts

\* What there is to see of a key: what the chain has of it comes first.
LEMMA ShownIs ==
    ASSUME Typed
    PROVE  /\ Shown \in SUBSET Nat /\ ChainKeys \in SUBSET Nat
           /\ \A k \in ChainKeys :
                  /\ OfChain(k) \in chain /\ OfChain(k).key = k /\ k # 0
                  /\ OfChain(k) # NoEntry /\ View(k) = OfChain(k)
                  /\ OfChain(k).kind \in {"Value", "Deletion"}
                  /\ k \in Shown <=> OfChain(k).kind = "Value"
           /\ \A k : k \notin ChainKeys => View(k) = LsmView(k)
           /\ \A k : k \notin ChainKeys => (k \in Shown <=> k \in LsmShown)
<1>1. \/ chain = {}
      \/ /\ chain \subseteq [key : Nat, seq : Nat, kind : Kinds]
         /\ \A e \in chain : e.key # 0 /\ e # NoEntry
  BY ChainsAssumption DEF Typed, UserTyped
<1>2. \A e \in chain : e.key \in Nat /\ e.key # 0 /\ e # NoEntry /\ e.kind \in {"Value", "Deletion"}
  BY <1>1, ChildrenAssumption
<1>3. \A k \in ChainKeys : OfChain(k) \in chain /\ OfChain(k).key = k
  BY DEF ChainKeys, OfChain
<1>4. Keys \in SUBSET Nat /\ ChainKeys \in SUBSET Nat
  BY <1>2, ChildrenAssumption DEF Keys, ChainKeys
<1>5. \A k : View(k) = IF k \in ChainKeys THEN OfChain(k) ELSE LsmView(k)
  BY DEF View, LsmView
<1> QED BY <1>2, <1>3, <1>4, <1>5 DEF Shown, LsmShown, IsLive

-----------------------------------------------------------------------------
(* How a turn of the loops moves the children. *)

\* The children that are valid stand on entries.
LEMMA KeysAt ==
    ASSUME Typed, NEW p \in Positions
    PROVE  /\ \A c \in ValidIn(p) : c \in Children /\ p[c] \in 1 .. Size(c) /\ KeyAt(c, p) \in Keys
           /\ {KeyAt(c, p) : c \in ValidIn(p)} \in SUBSET Nat
           /\ \A c \in Children : p[c] \in Nat /\ p[c] <= Size(c)
           /\ \A c \in Children : c \notin ValidIn(p) => p[c] = 0
<1>1. \A c \in Children : p[c] \in Nat /\ p[c] <= Size(c)
  BY DEF Positions
<1>2. \A c \in Children : Size(c) \in Nat
  BY DataFacts
<1>3. \A c \in ValidIn(p) : c \in Children /\ p[c] \in 1 .. Size(c)
  BY DEF ValidIn
<1>4. \A c \in ValidIn(p) : KeyAt(c, p) \in Keys /\ KeyAt(c, p) \in Nat
  BY <1>3, DataFacts DEF KeyAt
<1>5. \A c \in Children : c \notin ValidIn(p) => p[c] = 0
  BY <1>1, <1>2 DEF ValidIn
<1> QED BY <1>1, <1>3, <1>4, <1>5

LEMMA SmallestIs ==
    ASSUME Typed, NEW p \in Positions, ValidIn(p) # {},
           NEW k \in Nat, PassedTo(p, k)
    PROVE  /\ SmallestKey(p) \in Keys /\ SmallestKey(p) \in Nat /\ k < SmallestKey(p)
           /\ \A c \in Children : \A i \in 1 .. Size(c) :
                  data[c][i].key <= k \/ SmallestKey(p) <= data[c][i].key
<1> DEFINE T == {KeyAt(c, p) : c \in ValidIn(p)}
<1>1. T \in SUBSET Nat /\ T # {}
  BY KeysAt
<1>2. Least(T) \in T /\ \A y \in T : Least(T) <= y
  <2> HIDE DEF T
  <2> QED BY <1>1, LeastIs
<1>3. PICK d \in ValidIn(p) : SmallestKey(p) = KeyAt(d, p)
  BY <1>2 DEF SmallestKey
<1>4. SmallestKey(p) \in Keys /\ SmallestKey(p) \in Nat
  BY <1>3, KeysAt
<1>5. k < SmallestKey(p)
  <2>1. p[d] \in 1 .. Size(d) /\ d \in Children
    BY <1>3, KeysAt
  <2>2. data[d][p[d]].key > k
    BY <2>1 DEF PassedTo
  <2> QED BY <1>3, <1>4, <2>2 DEF KeyAt
<1>6. ASSUME NEW c \in Children, NEW i \in 1 .. Size(c), ~(data[c][i].key <= k)
      PROVE  SmallestKey(p) <= data[c][i].key
  <2>1. data[c][i].key \in Nat
    BY DataFacts
  <2>2. data[c][i].key > k
    BY <1>6, <2>1
  <2>3. p[c] # 0 /\ p[c] <= i
    BY <2>2 DEF PassedTo
  <2>4. c \in ValidIn(p) /\ p[c] \in 1 .. Size(c)
    BY <2>3, KeysAt
  <2>5. data[c][p[c]].key <= data[c][i].key /\ KeyAt(c, p) \in Nat
    BY <2>3, <2>4, DataFacts DEF KeyAt
  <2>6. SmallestKey(p) <= KeyAt(c, p)
    BY <1>2, <2>4 DEF SmallestKey
  <2> QED BY <1>4, <2>1, <2>5, <2>6 DEF KeyAt
<1> QED BY <1>4, <1>5, <1>6

LEMMA LargestIs ==
    ASSUME Typed, NEW p \in Positions, ValidIn(p) # {}
    PROVE  LargestKey(p) \in Keys /\ LargestKey(p) \in Nat /\ LargestKey(p) # 0
<1> DEFINE T == {KeyAt(c, p) : c \in ValidIn(p)}
<1>1. T \in SUBSET Nat /\ T # {}
  BY KeysAt
<1>2. PICK b \in Nat : \A e \in Entries : e.key <= b
  BY EntriesAreBounded
<1>3. \A y \in T : y <= b
  BY <1>2, KeysAt, DataFacts DEF KeyAt
<1>4. Greatest(T) \in T
  <2> HIDE DEF T
  <2> QED BY <1>1, <1>3, GreatestIs
<1>5. PICK d \in ValidIn(p) : LargestKey(p) = KeyAt(d, p)
  BY <1>4 DEF LargestKey
<1> QED BY <1>5, KeysAt, DataFacts DEF KeyAt

\* What is consumed are entries of the key, and the positions stay positions.
LEMMA ConsumeTyped ==
    ASSUME Typed, NEW p \in Positions, NEW k
    PROVE  /\ Consume(p, k) \in Positions
           /\ Consumed(p, k) \in SUBSET Entries /\ \A e \in Consumed(p, k) : e.key = k
           /\ \A c \in Children :
                  /\ Run(c, p, k) \subseteq 1 .. Size(c)
                  /\ Run(c, p, k) # {} =>
                         /\ Greatest(Run(c, p, k)) \in Run(c, p, k)
                         /\ \A i \in Run(c, p, k) : i <= Greatest(Run(c, p, k))
<1>1. \A c \in Children : p[c] \in Nat /\ p[c] <= Size(c) /\ Size(c) \in Nat
  BY KeysAt, DataFacts
<1>2. \A c \in Children : Run(c, p, k) \subseteq 1 .. Size(c)
  BY <1>1 DEF Run
<1>3. \A c \in Children : \A i \in Run(c, p, k) : data[c][i] \in Entries /\ data[c][i].key = k
  <2> TAKE c \in Children
  <2> TAKE i \in Run(c, p, k)
  <2>1. i \in 1 .. Size(c) /\ i \in p[c] .. i
    BY <1>1, <1>2 DEF Run
  <2> QED BY <2>1, DataFacts DEF Run
<1>4. Consumed(p, k) \in SUBSET Entries /\ \A e \in Consumed(p, k) : e.key = k
  BY <1>3 DEF Consumed
<1>5. ASSUME NEW c \in Children, Run(c, p, k) # {}
      PROVE  /\ Greatest(Run(c, p, k)) \in Run(c, p, k)
             /\ \A i \in Run(c, p, k) : i <= Greatest(Run(c, p, k))
  <2>1. Run(c, p, k) \in SUBSET Nat /\ \A i \in Run(c, p, k) : i <= Size(c)
    BY <1>1, <1>2
  <2> QED BY <1>1, <1>5, <2>1, GreatestIs
<1>6. \A c \in Children : Consume(p, k)[c] \in Nat /\ Consume(p, k)[c] <= Size(c)
  BY <1>1, <1>2, <1>5 DEF Consume, ChildNext
<1>7. Consume(p, k) \in [Children -> Nat]
  BY <1>6 DEF Consume
<1> QED BY <1>2, <1>4, <1>5, <1>6, <1>7 DEF Positions

\* All versions of the next key are consumed, and nothing else.
LEMMA ConsumedIs ==
    ASSUME Typed, NEW p \in Positions, NEW k \in Nat, NEW n \in Nat, k < n, PassedTo(p, k),
           \A c \in Children : \A i \in 1 .. Size(c) : data[c][i].key <= k \/ n <= data[c][i].key
    PROVE  Consumed(p, n) = Written(n) /\ PassedTo(Consume(p, n), n)
<1>1. \A c \in Children : p[c] \in Nat /\ p[c] <= Size(c) /\ Size(c) \in Nat
  BY KeysAt, DataFacts
<1>2. ASSUME NEW c \in Children, NEW i \in 1 .. Size(c)
      PROVE  i \in Run(c, p, n) <=> data[c][i].key = n
  <2>1. ASSUME data[c][i].key = n
        PROVE  i \in Run(c, p, n)
    <3>1. p[c] # 0 /\ p[c] <= i
      BY <2>1 DEF PassedTo
    <3>2. ASSUME NEW j \in p[c] .. i
          PROVE  data[c][j].key = n
      <4>1. j \in 1 .. Size(c) /\ j <= i /\ p[c] <= j
        BY <1>1, <3>1
      <4>2. data[c][j].key \in Nat /\ data[c][j].key <= n
        BY <2>1, <4>1, DataFacts
      <4>3. data[c][j].key > k
        BY <3>1, <4>1 DEF PassedTo
      <4>4. data[c][j].key <= k \/ n <= data[c][j].key
        BY <4>1
      <4> QED BY <4>2, <4>3, <4>4
    <3> QED BY <1>1, <3>1, <3>2 DEF Run
  <2>2. ASSUME i \in Run(c, p, n)
        PROVE  data[c][i].key = n
    <3>1. i \in p[c] .. i /\ \A j \in p[c] .. i : data[c][j].key = n
      BY <1>1, <2>2 DEF Run
    <3> QED BY <3>1
  <2> QED BY <2>1, <2>2
<1>3. \A c \in Children : Run(c, p, n) \subseteq 1 .. Size(c)
  BY ConsumeTyped
<1>4. Consumed(p, n) = Written(n)
  <2>1. \A e : e \in Consumed(p, n) <=> \E c \in Children : \E i \in Run(c, p, n) : e = data[c][i]
    BY DEF Consumed
  <2>2. \A e : e \in Written(n) <=>
            \E c \in Children : \E i \in 1 .. Size(c) : e = data[c][i] /\ data[c][i].key = n
    BY WrittenIs
  <2> QED BY <1>2, <1>3, <2>1, <2>2
<1>5. ASSUME NEW c \in Children, NEW i \in 1 .. Size(c)
      PROVE  data[c][i].key > n <=> Consume(p, n)[c] # 0 /\ Consume(p, n)[c] <= i
  <2>1. /\ data[c][i].key \in Nat
        /\ data[c][i].key > k <=> p[c] # 0 /\ p[c] <= i
        /\ data[c][i].key <= k \/ n <= data[c][i].key
    BY DataFacts DEF PassedTo
  <2>2. CASE Run(c, p, n) = {}
    <3>1. data[c][i].key # n /\ Consume(p, n)[c] = p[c]
      BY <1>2, <2>2 DEF Consume
    <3> QED BY <2>1, <3>1
  <2>3. CASE Run(c, p, n) # {}
    <3> DEFINE m == Greatest(Run(c, p, n))
    <3>1. m \in Run(c, p, n) /\ \A j \in Run(c, p, n) : j <= m
      BY <2>3, ConsumeTyped
    <3>2. Consume(p, n)[c] = IF m < Size(c) THEN m + 1 ELSE 0
      BY <2>3 DEF Consume, ChildNext
    <3>3. m \in 1 .. Size(c) /\ data[c][m].key = n
      BY <1>2, <1>3, <3>1
    <3> HIDE DEF m
    <3>4. CASE i <= m
      <4>1. data[c][i].key <= n
        BY <3>3, <3>4, DataFacts
      <4> QED BY <1>1, <2>1, <3>2, <3>3, <3>4, <4>1
    <3>5. CASE ~(i <= m)
      <4>1. data[c][m].key <= data[c][i].key /\ i \notin Run(c, p, n)
        BY <1>1, <3>1, <3>3, <3>5, DataFacts
      <4>2. data[c][i].key > n
        BY <1>2, <2>1, <3>3, <4>1
      <4> QED BY <1>1, <3>2, <3>3, <3>5, <4>2
    <3> QED BY <3>4, <3>5
  <2> QED BY <2>2, <2>3
<1> QED BY <1>4, <1>5 DEF PassedTo

-----------------------------------------------------------------------------
(* Where a search leaves the children. *)

LEMMA SeekTyped ==
    ASSUME Typed, NEW k
    PROVE  /\ SeekAll(k) \in Positions
           /\ \A c \in Children : ChildSeek(c, k) \in Nat /\ ChildSeek(c, k) <= Size(c)
<1>1. \A c \in Children : Size(c) \in Nat
  BY DataFacts
<1>2. ASSUME NEW c \in Children
      PROVE  MemSeek(c, k) \in Nat /\ MemSeek(c, k) <= Size(c)
  <2> DEFINE T == {i \in 1 .. Size(c) : data[c][i].key >= k}
  <2>1. CASE T = {}
    BY <1>1, <2>1 DEF MemSeek, Least
  <2>2. CASE T # {}
    <3>1. T \in SUBSET Nat /\ \A i \in T : i <= Size(c)
      BY <1>1
    <3>2. Least(T) \in T
      <4> HIDE DEF T
      <4> QED BY <2>2, <3>1, LeastIs
    <3> QED BY <3>1, <3>2 DEF MemSeek
  <2> QED BY <2>1, <2>2
<1>3. ASSUME NEW c \in Children
      PROVE  TableSeek(c, k) \in Nat /\ TableSeek(c, k) <= Size(c)
  <2> DEFINE B == {i \in 1 .. Size(c) : (i - 1) % BlockCap = 0 /\ data[c][i].key <= k}
             b == FindIndexEntry(c, k)
             T == {i \in b .. Size(c) : i < b + BlockCap /\ Compared(b, i) /\ data[c][i].key >= k}
  <2>1. b \in Nat
    <3>1. CASE B = {}
      BY <3>1 DEF FindIndexEntry, Greatest
    <3>2. CASE B # {}
      <4>1. B \in SUBSET Nat /\ \A i \in B : i <= Size(c)
        BY <1>1
      <4>2. Greatest(B) \in B
        <5> HIDE DEF B
        <5> QED BY <1>1, <3>2, <4>1, GreatestIs
      <4> QED BY <4>1, <4>2 DEF FindIndexEntry
    <3> QED BY <3>1, <3>2
  <2> HIDE DEF b
  <2>2. CASE T = {}
    BY <1>1, <2>2 DEF TableSeek, SeekInBlock, Least, b
  <2>3. CASE T # {}
    <3>1. T \in SUBSET Nat /\ \A i \in T : i <= Size(c)
      BY <1>1, <2>1
    <3>2. Least(T) \in T
      <4> HIDE DEF T
      <4> QED BY <2>3, <3>1, LeastIs
    <3>3. SeekInBlock(c, b, k) = Least(T)
      BY DEF SeekInBlock
    <3>4. TableSeek(c, k) = 0 \/ TableSeek(c, k) = Least(T)
      BY <3>3 DEF TableSeek, b
    <3> HIDE DEF T
    <3>5. Least(T) \in Nat /\ Least(T) <= Size(c)
      BY <3>1, <3>2
    <3> QED BY <1>1, <3>4, <3>5
  <2> QED BY <2>2, <2>3
<1>4. \A c \in Children : ChildSeek(c, k) \in Nat /\ ChildSeek(c, k) <= Size(c)
  BY <1>2, <1>3 DEF ChildSeek
<1> QED BY <1>4 DEF SeekAll, Positions

\* Seek over memtables puts every child on its first entry from the key on.
LEMMA SeekIsExact ==
    ASSUME Typed, NoTables, NEW k \in Nat, k # 0
    PROVE  PassedTo(SeekAll(k), k - 1)
<1> SUFFICES ASSUME NEW c \in Children, NEW i \in 1 .. Size(c)
             PROVE  data[c][i].key > k - 1 <=> SeekAll(k)[c] # 0 /\ SeekAll(k)[c] <= i
  BY DEF PassedTo
<1>1. Size(c) \in Nat /\ data[c][i].key \in Nat
  BY DataFacts
<1>2. SeekAll(k)[c] = MemSeek(c, k)
  <2>1. c \in Memtables
    BY <1>1 DEF NoTables, Children
  <2> QED BY <2>1 DEF SeekAll, ChildSeek
<1> DEFINE T == {j \in 1 .. Size(c) : data[c][j].key >= k}
<1>3. T \in SUBSET Nat /\ MemSeek(c, k) = Least(T)
  BY <1>1 DEF MemSeek
<1>4. i \in T <=> data[c][i].key > k - 1
  BY <1>1
<1>5. CASE T = {}
  BY <1>2, <1>3, <1>4, <1>5 DEF Least
<1>6. CASE T # {}
  <2>1. Least(T) \in T /\ \A j \in T : Least(T) <= j
    <3> HIDE DEF T
    <3> QED BY <1>3, <1>6, LeastIs
  <2>2. Least(T) \in 1 .. Size(c) /\ Least(T) # 0 /\ data[c][Least(T)].key >= k
    BY <1>1, <2>1
  <2>3. ASSUME Least(T) <= i
        PROVE  i \in T
    <3>1. data[c][Least(T)].key <= data[c][i].key /\ data[c][Least(T)].key \in Nat
      BY <2>2, <2>3, DataFacts
    <3> QED BY <1>1, <2>2, <3>1
  <2> HIDE DEF T
  <2> QED BY <1>2, <1>3, <1>4, <2>1, <2>2, <2>3
<1> QED BY <1>5, <1>6

FirstAll == [c \in Children |-> ChildFirst(c)]
LastAll == [c \in Children |-> ChildLast(c)]
PrevAll(k) == [c \in Children |-> IF ChildSeek(c, k) = 0 THEN 0 ELSE ChildPrev(c, ChildSeek(c, k))]

LEMMA StartsTyped ==
    ASSUME Typed, NEW k
    PROVE  /\ FirstAll \in Positions /\ LastAll \in Positions /\ PrevAll(k) \in Positions
           /\ PassedTo(FirstAll, 0)
<1>1. \A c \in Children : Size(c) \in Nat
  BY DataFacts
<1>2. \A c \in Children : ChildFirst(c) \in Nat /\ ChildFirst(c) <= Size(c)
  BY <1>1 DEF ChildFirst
<1>3. \A c \in Children : ChildLast(c) \in Nat /\ ChildLast(c) <= Size(c)
  BY <1>1 DEF ChildLast
<1>4. \A c \in Children : PrevAll(k)[c] \in Nat /\ PrevAll(k)[c] <= Size(c)
  <2> TAKE c \in Children
  <2>1. Size(c) \in Nat /\ ChildSeek(c, k) \in Nat /\ ChildSeek(c, k) <= Size(c)
    BY <1>1, SeekTyped
  <2>2. PrevAll(k)[c] \in {0, ChildSeek(c, k) - 1, ChildSeek(c, k)} /\
            (ChildSeek(c, k) = 0 => PrevAll(k)[c] = 0)
    BY DEF PrevAll, ChildPrev
  <2> QED BY <2>1, <2>2
<1>5. PassedTo(FirstAll, 0)
  <2> SUFFICES ASSUME NEW c \in Children, NEW i \in 1 .. Size(c)
               PROVE  data[c][i].key > 0 <=> ChildFirst(c) # 0 /\ ChildFirst(c) <= i
    BY DEF PassedTo, FirstAll
  <2>1. data[c][i].key \in Nat /\ data[c][i].key # 0 /\ Size(c) # 0
    BY <1>1, DataFacts
  <2> QED BY <2>1 DEF ChildFirst
<1> QED BY <1>2, <1>3, <1>4, <1>5 DEF FirstAll, LastAll, PrevAll, Positions

\* The next key of the chain.
LEMMA AfterIs ==
    ASSUME Typed, NEW k \in Nat
    PROVE  /\ After(k) \in ChainKeys \cup {0}
           /\ IF After(k) = 0 THEN \A l \in ChainKeys : l <= k
              ELSE k < After(k) /\ \A l \in ChainKeys : l <= k \/ After(k) <= l
<1> DEFINE T == {l \in ChainKeys : l > k}
<1>1. ChainKeys \in SUBSET Nat /\ T \in SUBSET Nat
  BY ShownIs
<1>2. CASE T = {}
  <2>1. After(k) = 0
    BY <1>2 DEF After, Least
  <2> QED BY <1>1, <1>2, <2>1
<1>3. CASE T # {}
  <2>1. Least(T) \in T /\ \A l \in T : Least(T) <= l
    <3> HIDE DEF T
    <3> QED BY <1>1, <1>3, LeastIs
  <2>2. After(k) = Least(T)
    BY DEF After
  <2> QED BY <1>1, <2>1, <2>2
<1> QED BY <1>2, <1>3

LEMMA LowerBoundIs ==
    ASSUME Typed
    PROVE  /\ LowerBoundMVCC(0) = After(0)
           /\ \A k \in Nat : k # 0 => LowerBoundMVCC(k) = After(k - 1)
<1>1. \A l \in ChainKeys : l \in Nat /\ l # 0
  BY ShownIs
<1>2. {l \in ChainKeys : l >= 0} = {l \in ChainKeys : l > 0}
  BY <1>1
<1>3. ASSUME NEW k \in Nat, k # 0
      PROVE  {l \in ChainKeys : l >= k} = {l \in ChainKeys : l > k - 1}
  BY <1>1, <1>3
<1> QED BY <1>2, <1>3 DEF LowerBoundMVCC, After

-----------------------------------------------------------------------------
(* Types. *)

LEMMA GivenKept ==
    ASSUME Typed, UNCHANGED given
    PROVE  /\ \A c \in Children : ChildTyped(c)'
           /\ Positions' = Positions /\ chain' = chain /\ user' = user
           /\ ChainKeys' = ChainKeys /\ LsmShown' = LsmShown /\ Shown' = Shown
           /\ \A k : LsmView(k)' = LsmView(k) /\ View(k)' = View(k)
           /\ NoTables' <=> NoTables
<1>1. data' = data /\ snapshot' = snapshot /\ chain' = chain /\ user' = user
  BY DEF given
<1>2. \A c \in Children : ChildTyped(c)'
  BY <1>1 DEF Typed, ChildTyped, Size
<1>3. Positions' = Positions /\ (NoTables' <=> NoTables)
  BY <1>1 DEF Positions, NoTables, Size
<1>5. \A k : LsmView(k)' = LsmView(k)
  BY <1>1 DEF LsmView, NewestVisible, Written, Size
<1>6. ChainKeys' = ChainKeys /\ \A k : OfChain(k)' = OfChain(k)
  BY <1>1 DEF ChainKeys, OfChain
<1>7. \A k : View(k)' = View(k)
  BY <1>1 DEF View, NewestVisible, Written, Size, ChainKeys, OfChain
<1>8. LsmShown' = LsmShown /\ Shown' = Shown
  BY <1>5, <1>6, <1>7 DEF LsmShown, Shown, IsLive
<1> QED BY <1>1, <1>2, <1>3, <1>5, <1>6, <1>7, <1>8

LEMMA PassedKept ==
    ASSUME Typed, UNCHANGED given, NEW p, NEW k, pos' = p, PassedTo(p, k)
    PROVE  PassedTo(pos, k)'
<1>1. data' = data
  BY DEF given
<1> QED BY <1>1 DEF PassedTo, Size

LEMMA TypedFrom ==
    ASSUME Typed, UNCHANGED given,
           pos' \in Positions, cur' \in Entries \cup {NoEntry},
           mvNext' \in ChainKeys \cup {0}, txn' \in Entries \cup chain \cup {NoEntry},
           floor' \in Nat, bound' \in Nat,
           pc' \in {"idle", "small", "large", "advance"}, back' \in {"idle", "advance"},
           dir' \in {"Forward", "Reverse"},
           user = "lsm" => back' = "idle" /\ pc' # "advance",
           user = "txn" => dir' = "Forward" /\ pc' # "large"
    PROVE  Typed'
<1>1. UserTyped'
  <2>1. \/ user = "lsm" /\ chain = {}
        \/ user = "txn" /\ chain \in Chains
    BY DEF Typed, UserTyped
  <2> QED BY <2>1, GivenKept DEF UserTyped
<1>2. /\ \A c \in Children : ChildTyped(c)'
      /\ Positions' = Positions /\ chain' = chain /\ ChainKeys' = ChainKeys
  BY GivenKept
<1> QED BY <1>1, <1>2 DEF Typed

\* What the calls of the merge and the turns of its loops assign.
LEMMA MergeNextIs ==
    ASSUME Typed, cur # NoEntry, NEW b, MergeNext(b)
    PROVE  /\ pos' \in Positions /\ dir' = "Forward" /\ cur' = NoEntry
           /\ pc' = "small" /\ back' = b /\ bound' = cur.key
           /\ bound' \in Nat /\ bound' # 0 /\ cur.key \in Nat
           /\ dir = "Forward" => pos' = pos
           /\ dir # "Forward" => pos' = SeekAll(cur.key)
<1>1. cur.key \in Nat /\ cur.key # 0
  BY EntryFacts DEF Typed
<1>2. pos' \in Positions
  BY SeekTyped DEF MergeNext, Typed
<1> QED BY <1>1, <1>2 DEF MergeNext

LEMMA TurnIs ==
    ASSUME Typed, NEW q \in Positions, NEW k, NEW enough, Turn(q, k, Consumed(q, k), enough)
    PROVE  /\ pos' \in Positions /\ pos' = Consume(q, k)
           /\ cur' \in Entries \cup {NoEntry}
           /\ cur' # NoEntry => cur'.key = k
           /\ cur' = IF IsLive(NewestVisible(Consumed(q, k))) THEN NewestVisible(Consumed(q, k))
                     ELSE NoEntry
           /\ \/ /\ cur' # NoEntry /\ enough
                 /\ pc' = back /\ back' = "idle" /\ bound' = 0
              \/ /\ cur' = NoEntry \/ ~enough
                 /\ pc' = pc /\ back' = back /\ bound' = bound
<1> DEFINE e == NewestVisible(Consumed(q, k))
<1>1. /\ Consume(q, k) \in Positions
      /\ Consumed(q, k) \in SUBSET Entries /\ \A o \in Consumed(q, k) : o.key = k
  BY ConsumeTyped
<1>2. e = NoEntry \/ (e \in Entries /\ e.key = k)
  BY <1>1, NewestIs
<1>3. /\ pos' = Consume(q, k)
      /\ cur' = IF IsLive(e) THEN e ELSE NoEntry
      /\ IF IsLive(e) /\ enough THEN pc' = back /\ back' = "idle" /\ bound' = 0
                                ELSE pc' = pc /\ back' = back /\ bound' = bound
  BY DEF Turn, control
<1>4. IsLive(e) => e # NoEntry
  BY DEF IsLive
<1> HIDE DEF e
<1>5. IsLive(e) <=> cur' # NoEntry
  BY <1>3, <1>4
<1> QED BY <1>1, <1>2, <1>3, <1>5 DEF e

LEMMA NoMoreIs ==
    ASSUME Typed, NoMore
    PROVE  /\ pos' \in Positions /\ pos' = pos /\ cur' = NoEntry
           /\ pc' = back /\ back' = "idle" /\ bound' = 0
  BY DEF NoMore, Typed

LEMMA CallIs ==
    ASSUME NEW o, NEW f, NEW c, Call(o, f, c)
    PROVE  pc = "idle" /\ op' = o /\ floor' = f /\ (clean' <=> c) /\ UNCHANGED given
  BY DEF Call

LEMMA CallsTyped ==
    ASSUME Typed, SeekToFirst \/ (\E k \in Keys : Seek(k)) \/ NextEntry \/ SeekToLast \/ Prev
    PROVE  Typed'
<1>1. Now # NoEntry => Now.key \in Nat
  <2>1. \A e \in chain : e.key \in Nat
    BY ShownIs DEF ChainKeys
  <2> QED BY <2>1, EntryFacts DEF Typed, Now
<1>2. user \in {"lsm", "txn"}
  BY DEF Typed, UserTyped
<1>3. CASE SeekToFirst
  <2>1. Search(FirstAll, dir, "small") /\ mvNext' = LowerBoundMVCC(0) /\ txn' = txn
        /\ floor' = 0 /\ UNCHANGED given
    BY <1>3 DEF SeekToFirst, FirstAll, Call
  <2>2. mvNext' \in ChainKeys \cup {0}
    BY <2>1, AfterIs, LowerBoundIs
  <2> QED BY <1>2, <2>1, <2>2, StartsTyped, TypedFrom DEF Search, Typed, UserTyped
<1>4. CASE \E k \in Keys : Seek(k)
  <2>1. PICK k \in Keys : Seek(k)
    BY <1>4
  <2>2. Search(SeekAll(k), "Forward", "small") /\ mvNext' = LowerBoundMVCC(k) /\ txn' = txn
        /\ floor' = k - 1 /\ UNCHANGED given
    BY <2>1 DEF Seek, Call
  <2>3. k \in Nat /\ k # 0
    BY ChildrenAssumption DEF Keys
  <2>4. k - 1 \in Nat
    BY <2>3
  <2>5. mvNext' \in ChainKeys \cup {0}
    BY <2>2, <2>3, <2>4, AfterIs, LowerBoundIs
  <2> QED BY <1>2, <2>2, <2>4, <2>5, SeekTyped, TypedFrom DEF Search, Typed, UserTyped
<1>5. CASE NextEntry
  <2>1. Now # NoEntry /\ mvNext' = mvNext /\ txn' = txn /\ floor' = Now.key /\ UNCHANGED given
    BY <1>5 DEF NextEntry, Call
  <2>2. CASE user = "lsm"
    <3>1. MergeNext("idle") /\ cur # NoEntry
      BY <1>5, <2>1, <2>2 DEF NextEntry, Now
    <3> QED BY <1>1, <2>1, <2>2, <3>1, MergeNextIs, TypedFrom DEF Typed
  <2>3. CASE user = "txn"
    <3>1. pc' = "advance" /\ UNCHANGED <<merge, back, bound>>
      BY <1>5, <2>3 DEF NextEntry
    <3> QED BY <1>1, <2>1, <2>3, <3>1, TypedFrom DEF Typed, UserTyped, merge
  <2> QED BY <1>2, <2>2, <2>3
<1>6. CASE SeekToLast
  <2>1. mvNext' = mvNext /\ floor' = floor /\ UNCHANGED given
    BY <1>6 DEF SeekToLast, Call
  <2>2. CASE user = "lsm"
    <3>1. Search(LastAll, dir, "large") /\ txn' = txn
      BY <1>6, <2>2 DEF SeekToLast, LastAll
    <3> QED BY <2>1, <2>2, <3>1, StartsTyped, TypedFrom DEF Search, Typed
  <2>3. CASE user = "txn"
    <3>1. txn' = NoEntry /\ UNCHANGED <<merge, control>>
      BY <1>6, <2>3 DEF SeekToLast, EndTxn
    <3> QED BY <2>1, <2>3, <3>1, TypedFrom DEF Typed, UserTyped, merge, control
  <2> QED BY <1>2, <2>2, <2>3
<1>7. CASE Prev
  <2>1. Now # NoEntry /\ mvNext' = mvNext /\ floor' = Now.key /\ UNCHANGED given
    BY <1>7 DEF Prev, Call
  <2>2. CASE user = "lsm"
    <3>1. MergePrev /\ txn' = txn /\ cur # NoEntry
      BY <1>7, <2>1, <2>2 DEF Prev, Now
    <3>2. pos' \in Positions
      BY <3>1, StartsTyped DEF MergePrev, PrevAll, Typed
    <3>3. cur.key \in Nat
      BY <3>1, EntryFacts DEF Typed
    <3> QED BY <1>1, <2>1, <2>2, <3>1, <3>2, <3>3, TypedFrom DEF MergePrev, Typed
  <2>3. CASE user = "txn"
    <3>1. txn' = NoEntry /\ UNCHANGED <<merge, control>>
      BY <1>7, <2>3 DEF Prev, EndTxn
    <3> QED BY <1>1, <2>1, <2>3, <3>1, TypedFrom DEF Typed, UserTyped, merge, control
  <2> QED BY <1>2, <2>2, <2>3
<1> QED BY <1>3, <1>4, <1>5, <1>6, <1>7

LEMMA StepsTyped ==
    ASSUME Typed, FindSmallest \/ FindLargest \/ AdvanceEnds \/ AdvanceVersion \/ AdvanceTree
    PROVE  Typed'
<1>1. user \in {"lsm", "txn"}
  BY DEF Typed, UserTyped
<1>2. CASE FindSmallest
  <2>1. /\ UNCHANGED given /\ dir' = dir /\ mvNext' = mvNext /\ txn' = txn /\ floor' = floor
        /\ pc = "small"
    BY <1>2 DEF FindSmallest, history
  <2>2. CASE NoMore
    BY <2>1, <2>2, NoMoreIs, TypedFrom DEF Typed, UserTyped
  <2>3. CASE ~NoMore
    <3>1. Turn(pos, SmallestKey(pos), Consumed(pos, SmallestKey(pos)), SmallestKey(pos) > bound)
      BY <1>2, <2>3 DEF FindSmallest
    <3>2. pos \in Positions
      BY DEF Typed
    <3> QED BY <2>1, <3>1, <3>2, TurnIs, TypedFrom DEF Typed, UserTyped
  <2> QED BY <2>2, <2>3
<1>3. CASE FindLargest
  <2>1. /\ UNCHANGED given /\ dir' = dir /\ mvNext' = mvNext /\ txn' = txn /\ floor' = floor
        /\ pc = "large"
    BY <1>3 DEF FindLargest, history
  <2>2. CASE NoMore
    BY <2>1, <2>2, NoMoreIs, TypedFrom DEF Typed, UserTyped
  <2>3. CASE ~NoMore
    <3> DEFINE k == LargestKey(pos)
    <3>1. Turn(SeekAll(k), k, Consumed(SeekAll(k), k), bound = 0 \/ k < bound)
      BY <1>3, <2>3 DEF FindLargest
    <3> HIDE DEF k
    <3>2. SeekAll(k) \in Positions
      BY SeekTyped
    <3> QED BY <2>1, <3>1, <3>2, TurnIs, TypedFrom DEF Typed, UserTyped
  <2> QED BY <2>2, <2>3
<1>4. CASE AdvanceEnds
  BY <1>4, TypedFrom DEF AdvanceEnds, Typed, UserTyped, merge, history
<1>5. CASE AdvanceVersion
  <2> DEFINE e == OfChain(mvNext)
             b == IF e.kind = "Deletion" THEN "advance" ELSE "idle"
  <2>1. /\ UNCHANGED given /\ floor' = floor /\ mvNext' = After(mvNext) /\ mvNext # 0
        /\ pc = "advance"
        /\ txn' = IF e.kind = "Deletion" THEN txn ELSE e
        /\ IF Lsm /\ cur.key = mvNext THEN MergeNext(b)
           ELSE pc' = b /\ UNCHANGED <<merge, back, bound>>
    BY <1>5 DEF AdvanceVersion, history, VersionFirst
  <2>2. mvNext \in ChainKeys /\ mvNext \in Nat
    BY <2>1, ShownIs DEF Typed
  <2>3. mvNext' \in ChainKeys \cup {0}
    BY <2>1, <2>2, AfterIs
  <2>4. txn' \in Entries \cup chain \cup {NoEntry}
    BY <2>1, <2>2, ShownIs DEF Typed
  <2>5. user = "txn" /\ dir = "Forward"
    BY <2>1 DEF Typed, UserTyped
  <2>6. b \in {"idle", "advance"}
    OBVIOUS
  <2> HIDE DEF b, e
  <2>7. CASE Lsm /\ cur.key = mvNext
    <3>1. MergeNext(b) /\ cur # NoEntry
      BY <2>1, <2>7 DEF Lsm
    <3> QED BY <2>1, <2>3, <2>4, <2>5, <2>6, <3>1, MergeNextIs, TypedFrom DEF Typed
  <2>8. CASE ~(Lsm /\ cur.key = mvNext)
    <3>1. pc' = b /\ UNCHANGED <<merge, back, bound>>
      BY <2>1, <2>8
    <3> QED BY <2>1, <2>3, <2>4, <2>5, <2>6, <3>1, TypedFrom DEF Typed, merge
  <2> QED BY <2>7, <2>8
<1>6. CASE AdvanceTree
  <2> DEFINE e == IF cur.key \in ChainKeys THEN OfChain(cur.key) ELSE cur
             b == IF e.kind = "Deletion" THEN "advance" ELSE "idle"
  <2>1. /\ UNCHANGED given /\ floor' = floor /\ mvNext' = mvNext
        /\ pc = "advance" /\ cur # NoEntry
        /\ txn' = IF e.kind = "Deletion" THEN txn ELSE e
        /\ MergeNext(b)
    BY <1>6 DEF AdvanceTree, history, Lsm
  <2>2. txn' \in Entries \cup chain \cup {NoEntry}
    BY <2>1, ShownIs DEF Typed
  <2>3. user = "txn" /\ dir = "Forward" /\ b \in {"idle", "advance"}
    BY <2>1 DEF Typed, UserTyped
  <2> HIDE DEF b, e
  <2> QED BY <2>1, <2>2, <2>3, MergeNextIs, TypedFrom DEF Typed
<1> QED BY <1>2, <1>3, <1>4, <1>5, <1>6

-----------------------------------------------------------------------------
(* The calls keep the invariant. *)

\* The merge at the first key above b, after a step that leaves the data alone.
LEMMA CurKept ==
    ASSUME Typed, UNCHANGED given, NEW b,
           \/ cur' = NoEntry /\ \A k \in LsmShown : k <= b
           \/ /\ cur' # NoEntry /\ cur'.key \in LsmShown /\ cur' = LsmView(cur'.key)
              /\ b < cur'.key /\ \A k \in LsmShown : k <= b \/ cur'.key <= k
              /\ PassedTo(pos, cur.key)'
    PROVE  CurIs(b)'
<1>1. LsmShown' = LsmShown /\ \A k : LsmView(k)' = LsmView(k)
  BY GivenKept
<1>2. CASE cur' = NoEntry
  BY <1>1, <1>2 DEF CurIs
<1>3. CASE cur' # NoEntry
  <2>1. LsmView(cur.key)' = LsmView(cur'.key)
    BY DEF given, LsmView, NewestVisible, Written, Size
  <2> QED BY <1>1, <1>3, <2>1 DEF CurIs
<1> QED BY <1>2, <1>3

LEMMA MvKept ==
    ASSUME Typed, UNCHANGED given, NEW b \in Nat, mvNext' = After(b)
    PROVE  MvIs(b)'
BY GivenKept, AfterIs DEF MvIs

\* A position behind some key suffices for FindSmallest.
LEMMA SearchingFrom ==
    ASSUME NEW k \in Nat, Exact' => PassedTo(pos, k)', None(LsmShown, Base, k)',
           bound' = 0 => floor' <= k
    PROVE  Searching'
BY DEF Searching, PassedTo, None

\* SeekToFirst and Seek start behind all keys up to the floor.
LEMMA SearchKeeps ==
    ASSUME IInv, Typed', NEW p, NEW d, Search(p, d, "small"),
           UNCHANGED given, pc = "idle", NEW f \in Nat, floor' = f, mvNext' = After(f),
           op' \in Forwards, clean' => d = "Forward",
           Exact' => PassedTo(p, f)
    PROVE  IInv'
<1>1. /\ pos' = p /\ dir' = d /\ pc' = "small" /\ bound' = 0
      /\ back' = IF user = "lsm" THEN "idle" ELSE "advance"
  BY DEF Search
<1>2. Base' = f /\ user' = user /\ user \in {"lsm", "txn"}
  BY <1>1 DEF Base, given, IInv, Typed, UserTyped
<1>3. LsmShown' = LsmShown /\ Shown' = Shown
  BY GivenKept DEF IInv
<1>4. LsmShown \in SUBSET Nat /\ Shown \in SUBSET Nat
  BY LsmShownIs, ShownIs DEF IInv
<1>5. Calls'
  BY <1>1, <1>2 DEF Calls
<1>6. Searching'
  <2>1. Exact' => PassedTo(pos, f)'
    BY <1>1, PassedKept DEF IInv
  <2>2. None(LsmShown, Base, f)'
    BY <1>2, <1>3, <1>4 DEF None
  <2> QED BY <2>1, <2>2, SearchingFrom
<1>7. LsmIdle' /\ Advancing' /\ TxnIdle' /\ Delivering'
  BY <1>1, <1>2 DEF LsmIdle, Advancing, TxnIdle, Delivering
<1>8. Returning'
  <2>1. MvIs(f)'
    BY MvKept DEF IInv
  <2>2. MvIs(Base)'
    BY <1>2, <2>1 DEF MvIs
  <2>3. None(Shown, floor, Base)'
    BY <1>2, <1>3, <1>4 DEF None
  <2> QED BY <1>2, <2>2, <2>3 DEF Returning
<1> QED BY <1>5, <1>6, <1>7, <1>8 DEF IInv

LEMMA SeekToFirstKeeps ==
    ASSUME IInv, Typed', SeekToFirst
    PROVE  IInv'
<1>1. /\ Search(FirstAll, dir, "small") /\ mvNext' = LowerBoundMVCC(0)
      /\ Call("first", 0, dir = "Forward")
  BY DEF SeekToFirst, FirstAll
<1>2. UNCHANGED given /\ pc = "idle" /\ floor' = 0 /\ op' \in Forwards
  BY <1>1 DEF Call, Forwards
<1>3. clean' => dir = "Forward"
  BY <1>1 DEF Call
<1>4. mvNext' = After(floor') /\ PassedTo(FirstAll, floor')
  BY <1>1, <1>2, LowerBoundIs, StartsTyped DEF IInv
<1> QED BY <1>1, <1>2, <1>3, <1>4, SearchKeeps

LEMMA SeekKeeps ==
    ASSUME IInv, Typed', NEW k \in Keys, Seek(k)
    PROVE  IInv'
<1>1. /\ Search(SeekAll(k), "Forward", "small") /\ mvNext' = LowerBoundMVCC(k)
      /\ Call("seek", k - 1, FALSE)
  BY DEF Seek
<1>2. UNCHANGED given /\ pc = "idle" /\ floor' = k - 1 /\ op' \in Forwards /\ ~clean'
  BY <1>1 DEF Call, Forwards
<1>3. k \in Nat /\ k # 0 /\ k - 1 \in Nat
  BY ChildrenAssumption DEF Keys
<1>4. mvNext' = After(floor')
  BY <1>1, <1>2, <1>3, LowerBoundIs DEF IInv
<1>5. Exact' => PassedTo(SeekAll(k), floor')
  <2>1. Exact' => NoTables
    BY <1>2, GivenKept DEF Exact, IInv
  <2> QED BY <1>2, <1>3, <2>1, SeekIsExact DEF IInv
<1> QED BY <1>1, <1>2, <1>3, <1>4, <1>5, SearchKeeps

\* Next of the merge goes on from where it stands, or is put back there.
LEMMA MergeNextSearches ==
    ASSUME IInv, cur # NoEntry, NEW b, MergeNext(b), UNCHANGED given,
           clean' <=> clean, Exact /\ dir = "Forward" => PassedTo(pos, cur.key)
    PROVE  Searching' /\ (Exact' <=> Exact) /\ Base' = cur.key /\ cur.key \in Nat
<1>1. /\ bound' = cur.key /\ cur.key \in Nat /\ cur.key # 0
      /\ dir = "Forward" => pos' = pos
      /\ dir # "Forward" => pos' = SeekAll(cur.key)
  BY MergeNextIs DEF IInv
<1>2. Base' = cur.key
  BY <1>1 DEF Base
<1>3. Exact' <=> Exact
  BY GivenKept DEF Exact, IInv
<1>4. LsmShown' = LsmShown /\ LsmShown \in SUBSET Nat
  BY GivenKept, LsmShownIs DEF IInv
<1>5. ASSUME NEW k \in Nat, k \in {cur.key - 1, cur.key}, PassedTo(pos, k)'
      PROVE  Searching'
  <2>1. None(LsmShown, Base, k)'
    BY <1>1, <1>2, <1>4, <1>5 DEF None
  <2> QED BY <1>1, <1>5, <2>1, SearchingFrom
<1>6. ASSUME Exact, dir = "Forward" PROVE Searching'
  <2>1. PICK k \in Nat : k = cur.key
    BY <1>1
  <2>2. PassedTo(pos, k)'
    BY <1>1, <1>6, <2>1, PassedKept DEF IInv
  <2> QED BY <1>1, <1>5, <2>1, <2>2
<1>7. ASSUME Exact, dir # "Forward" PROVE Searching'
  <2>1. NoTables
    BY <1>7 DEF Exact, IInv, Calls
  <2>2. PICK k \in Nat : k = cur.key - 1
    BY <1>1
  <2>3. PassedTo(SeekAll(cur.key), k)
    BY <1>1, <2>1, <2>2, SeekIsExact DEF IInv
  <2>4. PassedTo(pos, k)'
    BY <1>1, <1>7, <2>3, PassedKept DEF IInv
  <2> QED BY <1>1, <1>5, <2>2, <2>4
<1>8. ASSUME ~Exact PROVE Searching'
  BY <1>3, <1>8 DEF Searching
<1> QED BY <1>1, <1>2, <1>3, <1>6, <1>7, <1>8

LEMMA NextEntryKeeps ==
    ASSUME IInv, Typed', NextEntry
    PROVE  IInv'
<1>1. /\ Now # NoEntry /\ mvNext' = mvNext /\ txn' = txn
      /\ Call("next", Now.key, clean)
  BY DEF NextEntry
<1>2. UNCHANGED given /\ pc = "idle" /\ floor' = Now.key /\ op' = "next" /\ (clean' <=> clean)
  BY <1>1 DEF Call
<1>3. user' = user /\ user \in {"lsm", "txn"} /\ (Exact' <=> Exact)
  BY <1>2, GivenKept DEF Exact, IInv, Typed, UserTyped
<1>4. clean' => clean /\ dir = "Forward"
  BY <1>2 DEF IInv, Calls
<1>5. CASE user = "lsm"
  <2>1. MergeNext("idle") /\ cur # NoEntry /\ floor' = cur.key
    BY <1>1, <1>2, <1>5 DEF NextEntry, Now
  <2>2. dir' = "Forward" /\ pc' = "small" /\ back' = "idle"
    BY <2>1, MergeNextIs DEF IInv
  <2>3. Exact /\ dir = "Forward" => PassedTo(pos, cur.key)
    BY <1>2, <1>5, <2>1 DEF IInv, LsmIdle
  <2>4. Searching' /\ Base' = cur.key
    BY <1>2, <2>1, <2>3, MergeNextSearches
  <2>5. Calls'
    BY <1>2, <2>1, <2>2, <2>4 DEF Calls, Forwards
  <2>6. LsmIdle' /\ Advancing' /\ Returning' /\ Delivering' /\ TxnIdle'
    BY <1>3, <1>5, <2>2 DEF LsmIdle, Advancing, Returning, Delivering, TxnIdle
  <2> QED BY <2>4, <2>5, <2>6 DEF IInv
<1>6. CASE user = "txn"
  <2>1. /\ pc' = "advance" /\ UNCHANGED <<merge, back, bound>>
        /\ txn # NoEntry /\ floor' = txn.key
    BY <1>1, <1>2, <1>6 DEF NextEntry, Now
  <2>2. Calls' /\ Searching' /\ LsmIdle' /\ Returning' /\ Delivering' /\ TxnIdle'
    BY <1>2, <1>4, <2>1
    DEF Calls, Forwards, Searching, LsmIdle, Returning, Delivering, TxnIdle, merge
  <2>3. Advancing'
    <3> SUFFICES ASSUME Exact
                 PROVE  \E b \in Nat : floor' <= b /\ CurIs(b)' /\ MvIs(b)'
                                       /\ None(Shown, floor, b)'
      BY <1>3 DEF Advancing
    <3>1. Delivered /\ CurIs(txn.key)
      BY <1>2, <1>6, <2>1 DEF IInv, TxnIdle
    <3>2. PICK b \in Nat : b = txn.key
      BY <2>1, <1>3, ShownIs, <3>1 DEF Delivered, IInv
    <3>3. CurIs(b)'
      <4>1. pos' = pos /\ cur' = cur
        BY <2>1 DEF merge
      <4>2. CurIs(b)
        BY <3>1, <3>2
      <4>3. cur # NoEntry => PassedTo(pos, cur.key)'
        BY <1>2, <4>1, <4>2, PassedKept DEF CurIs, IInv
      <4> QED BY <1>2, <4>1, <4>2, <4>3, CurKept DEF CurIs, IInv
    <3>4. MvIs(b)'
      BY <1>1, <1>2, <3>1, <3>2, GivenKept DEF Delivered, MvIs, IInv
    <3>5. None(Shown, floor, b)' /\ floor' <= b
      BY <1>2, <2>1, <3>2, GivenKept, ShownIs DEF None, IInv
    <3> QED BY <3>3, <3>4, <3>5
  <2> QED BY <2>2, <2>3 DEF IInv
<1> QED BY <1>3, <1>5, <1>6

\* The other calls are not followed by a promise but the one on the position.
LEMMA SeekToLastKeeps ==
    ASSUME IInv, Typed', SeekToLast
    PROVE  IInv'
<1>1. /\ mvNext' = mvNext /\ UNCHANGED given /\ pc = "idle" /\ op' = "last" /\ ~clean'
  BY DEF SeekToLast, Call
<1>2. user' = user /\ user \in {"lsm", "txn"}
  BY <1>1 DEF IInv, Typed, UserTyped, given
<1>3. CASE user = "lsm"
  <2>1. pc' = "large"
    BY <1>3 DEF SeekToLast, Search
  <2> QED BY <1>1, <2>1
      DEF IInv, Calls, Forwards, Searching, LsmIdle, Advancing, Returning, Delivering, TxnIdle
<1>4. CASE user = "txn"
  <2>1. pc' = "idle" /\ txn' = NoEntry
    BY <1>1, <1>4 DEF SeekToLast, EndTxn, control
  <2> QED BY <1>1, <1>2, <1>4, <2>1
      DEF IInv, Calls, Forwards, Searching, LsmIdle, Advancing, Returning, Delivering, TxnIdle
<1> QED BY <1>2, <1>3, <1>4

LEMMA PrevKeeps ==
    ASSUME IInv, Typed', Prev
    PROVE  IInv'
<1>1. /\ mvNext' = mvNext /\ UNCHANGED given /\ pc = "idle" /\ ~clean'
      /\ op' \in {"prev", "prevs"}
  BY DEF Prev, Call
<1>2. user' = user /\ user \in {"lsm", "txn"}
  BY <1>1 DEF IInv, Typed, UserTyped, given
<1>3. CASE user = "lsm"
  <2>1. pc' = "large"
    BY <1>3 DEF Prev, MergePrev
  <2> QED BY <1>1, <2>1
      DEF IInv, Calls, Forwards, Searching, LsmIdle, Advancing, Returning, Delivering, TxnIdle
<1>4. CASE user = "txn"
  <2>1. pc' = "idle" /\ txn' = NoEntry
    BY <1>1, <1>4 DEF Prev, EndTxn, control
  <2> QED BY <1>1, <1>2, <1>4, <2>1
      DEF IInv, Calls, Forwards, Searching, LsmIdle, Advancing, Returning, Delivering, TxnIdle
<1> QED BY <1>2, <1>3, <1>4

-----------------------------------------------------------------------------
(* The turns of the loops keep it. *)

\* FindSmallest returns, to its caller or to Advance.
LEMMA SmallestReturns ==
    ASSUME IInv, Typed', pc = "small", UNCHANGED <<given, dir, mvNext, txn, history>>,
           pc' = back, back' = "idle", bound' = 0,
           NEW b \in Nat, b = Base, Exact => CurIs(b)'
    PROVE  IInv'
<1>1. /\ UNCHANGED given /\ dir' = dir /\ mvNext' = mvNext /\ txn' = txn
      /\ op' = op /\ floor' = floor /\ (clean' <=> clean)
  BY DEF history
<1>2. user' = user /\ user \in {"lsm", "txn"} /\ (Exact' <=> Exact) /\ Shown' = Shown
  BY <1>1, GivenKept DEF Exact, IInv, Typed, UserTyped, given
<1>3. Base \in Nat /\ floor \in Nat /\ back \in {"idle", "advance"} /\ op \in Forwards
  BY DEF Base, IInv, Typed, Calls
<1>4. Calls' /\ Searching' /\ Returning' /\ Delivering'
  BY <1>1, <1>2, <1>3 DEF IInv, Calls, Searching, Returning, Delivering
<1>5. LsmIdle'
  <2> SUFFICES ASSUME user = "lsm", Exact
               PROVE  CurIs(floor)' /\ (cur' # NoEntry => PassedTo(pos, cur.key)')
    BY <1>2 DEF LsmIdle
  <2>1. b = floor'
    BY <1>1 DEF IInv, Calls
  <2> QED BY <2>1 DEF CurIs
<1>6. MvIs(b) => MvIs(b)'
  BY <1>1, GivenKept DEF MvIs, IInv
<1>7. Advancing'
  <2> SUFFICES ASSUME Exact, back = "advance"
               PROVE  floor' <= b /\ CurIs(b)' /\ MvIs(b)' /\ None(Shown, floor, b)'
    BY <1>2 DEF Advancing
  <2>1. floor <= b /\ MvIs(b) /\ None(Shown, floor, b)
    BY DEF IInv, Returning
  <2> QED BY <1>1, <1>2, <1>6, <2>1 DEF None
<1>8. TxnIdle'
  <2> SUFFICES ASSUME user = "txn", Exact, back = "idle"
               PROVE  txn' # NoEntry /\ Delivered' /\ CurIs(txn.key)'
    BY <1>2 DEF TxnIdle
  <2>1. Delivered /\ bound = txn.key
    BY DEF IInv, Delivering
  <2>2. b = txn.key
    BY <1>3, <2>1, ShownIs DEF Base, Delivered, IInv
  <2>3. Delivered'
    <3>1. MvIs(txn.key)'
      BY <1>1, <1>6, <2>1, <2>2 DEF Delivered, MvIs
    <3>2. View(txn.key)' = View(txn.key)
      BY <1>1 DEF given, View, NewestVisible, Written, Size, ChainKeys, OfChain
    <3> QED BY <1>1, <1>2, <2>1, <3>1, <3>2 DEF Delivered
  <2>4. CurIs(txn.key)'
    BY <1>1, <2>2 DEF CurIs
  <2> QED BY <2>3, <2>4 DEF Delivered
<1> QED BY <1>4, <1>5, <1>7, <1>8 DEF IInv

LEMMA FindSmallestKeeps ==
    ASSUME IInv, Typed', FindSmallest
    PROVE  IInv'
<1>1. /\ pc = "small" /\ UNCHANGED <<given, dir, mvNext, txn, history>> /\ UNCHANGED given
      /\ op' = op /\ floor' = floor /\ (clean' <=> clean)
  BY DEF FindSmallest, history
<1>2. user' = user /\ (Exact' <=> Exact) /\ Shown' = Shown /\ LsmShown' = LsmShown
  BY <1>1, GivenKept DEF Exact, IInv, given
<1>3. Base \in Nat /\ bound \in Nat /\ floor \in Nat /\ pos \in Positions
  BY DEF Base, IInv, Typed
<1>4. /\ \A l \in LsmShown : l \in Nat
      /\ \A l \in LsmShown : \E c \in Children : \E i \in 1 .. Size(c) : data[c][i].key = l
  BY LsmShownIs DEF IInv
<1>5. PICK b \in Nat : b = Base
  BY <1>3
<1>6. CASE ValidIn(pos) = {} /\ NoMore
  <2>1. cur' = NoEntry /\ pc' = back /\ back' = "idle" /\ bound' = 0
    BY <1>6, NoMoreIs DEF IInv
  <2>2. Exact => CurIs(b)'
    <3> SUFFICES ASSUME Exact PROVE CurIs(b)'
      OBVIOUS
    <3>1. PICK k \in Nat : PassedTo(pos, k) /\ None(LsmShown, Base, k)
      BY <1>1 DEF IInv, Searching
    <3>2. \A l \in LsmShown : l <= k
      <4> TAKE l \in LsmShown
      <4>0. PICK c \in Children : \E i \in 1 .. Size(c) : data[c][i].key = l
        BY <1>4
      <4>1. PICK i \in 1 .. Size(c) : data[c][i].key = l
        BY <4>0
      <4>2. pos[c] = 0
        BY <1>3, <1>6, KeysAt DEF IInv
      <4>3. ~(l > k)
        BY <3>1, <4>1, <4>2 DEF PassedTo
      <4> QED BY <1>4, <4>3
    <3>3. \A l \in LsmShown : l <= b
      BY <1>4, <1>5, <3>1, <3>2 DEF None
    <3> QED BY <1>1, <2>1, <3>3, CurKept DEF IInv
  <2> QED BY <1>1, <1>5, <2>1, <2>2, SmallestReturns
<1>7. CASE /\ ValidIn(pos) # {}
           /\ Turn(pos, SmallestKey(pos), Consumed(pos, SmallestKey(pos)), SmallestKey(pos) > bound)
  <2>0. PICK n : n = SmallestKey(pos)
    OBVIOUS
  <2> DEFINE e == NewestVisible(Consumed(pos, n))
  <2>1. /\ pos' = Consume(pos, n) /\ (cur' # NoEntry => cur'.key = n)
        /\ cur' = IF IsLive(e) THEN e ELSE NoEntry
        /\ \/ /\ cur' # NoEntry /\ n > bound
              /\ pc' = back /\ back' = "idle" /\ bound' = 0
           \/ /\ cur' = NoEntry \/ ~(n > bound)
              /\ pc' = pc /\ back' = back /\ bound' = bound
    <3>1. Turn(pos, n, Consumed(pos, n), n > bound)
      BY <1>7, <2>0
    <3> QED BY <1>3, <3>1, TurnIs DEF IInv
  <2>2. ASSUME Exact
        PROVE  /\ n \in Nat /\ PassedTo(pos, n)'
               /\ cur' = IF n \in LsmShown THEN LsmView(n) ELSE NoEntry
               /\ n \in LsmShown <=> cur' # NoEntry
               /\ None(LsmShown, Base, n - 1)
               /\ bound = 0 => floor < n
    <3>1. PICK k \in Nat : PassedTo(pos, k) /\ None(LsmShown, Base, k) /\ (bound = 0 => floor <= k)
      BY <1>1, <2>2 DEF IInv, Searching
    <3>2. /\ n \in Keys /\ n \in Nat /\ k < n
          /\ \A c \in Children : \A i \in 1 .. Size(c) : data[c][i].key <= k \/ n <= data[c][i].key
      BY <1>3, <1>7, <2>0, <3>1, SmallestIs DEF IInv
    <3>3. Consumed(pos, n) = Written(n) /\ PassedTo(Consume(pos, n), n)
      BY <1>3, <3>1, <3>2, ConsumedIs DEF IInv
    <3>4. PassedTo(pos, n)'
      BY <1>1, <2>1, <3>3, PassedKept DEF IInv
    <3>5. e = LsmView(n)
      BY <3>3 DEF LsmView
    <3>6. n \in LsmShown <=> IsLive(e)
      BY <3>2, <3>5 DEF LsmShown
    <3>7. None(LsmShown, Base, n - 1)
      <4> SUFFICES ASSUME NEW l \in LsmShown, ~(l <= Base), ~(n - 1 < l)
                   PROVE  FALSE
        BY DEF None
      <4>0. PICK c \in Children : \E i \in 1 .. Size(c) : data[c][i].key = l
        BY <1>4
      <4>1. PICK i \in 1 .. Size(c) : data[c][i].key = l
        BY <4>0
      <4>2. l <= k \/ n <= l
        BY <3>2, <4>1
      <4>3. l <= Base \/ k < l
        BY <3>1 DEF None
      <4> QED BY <1>3, <1>4, <3>2, <4>2, <4>3
    <3>8. IsLive(e) => e # NoEntry
      BY DEF IsLive
    <3> HIDE DEF e
    <3> QED BY <1>3, <2>1, <3>1, <3>2, <3>4, <3>5, <3>6, <3>7, <3>8
  <2> HIDE DEF e
  <2>3. CASE cur' # NoEntry /\ n > bound
    <3>1. ASSUME Exact PROVE CurIs(b)'
      <4>1. /\ n \in Nat /\ n \in LsmShown /\ cur' = LsmView(n) /\ PassedTo(pos, n)'
            /\ None(LsmShown, b, n - 1) /\ cur'.key = n
        BY <1>5, <2>1, <2>2, <2>3, <3>1
      <4>2. b < n
        BY <1>3, <1>5, <2>2, <2>3, <3>1 DEF Base
      <4>3. \A l \in LsmShown : l <= b \/ n <= l
        BY <1>4, <4>1 DEF None
      <4>4. PassedTo(pos, cur.key)'
        BY <4>1 DEF PassedTo
      <4> QED BY <1>1, <2>3, <4>1, <4>2, <4>3, <4>4, CurKept DEF IInv
    <3> QED BY <1>1, <1>5, <2>1, <2>3, <3>1, SmallestReturns
  <2>4. CASE ~(cur' # NoEntry /\ n > bound)
    <3>1. pc' = pc /\ back' = back /\ bound' = bound /\ txn' = txn /\ mvNext' = mvNext
      BY <1>1, <2>1, <2>4
    <3>2. Base' = Base
      BY <1>1, <3>1 DEF Base
    <3>3. Searching'
      <4>1. CASE Exact
        <5>1. /\ n \in Nat /\ PassedTo(pos, n)' /\ None(LsmShown, Base, n - 1)
              /\ bound' = 0 => floor' <= n
          BY <1>1, <1>3, <2>2, <3>1, <4>1
        <5>2. n \in LsmShown => n <= Base
          BY <1>3, <2>2, <2>4, <4>1, <5>1 DEF Base
        <5>3. None(LsmShown, Base, n)
          BY <1>3, <1>4, <5>1, <5>2 DEF None
        <5>4. None(LsmShown, Base, n)'
          BY <1>2, <3>2, <5>3 DEF None
        <5> QED BY <5>1, <5>4, SearchingFrom
      <4>2. CASE ~Exact
        BY <1>2, <4>2 DEF Searching
      <4> QED BY <4>1, <4>2
    <3>4. Calls' /\ LsmIdle' /\ Advancing' /\ TxnIdle'
      BY <1>1, <1>2, <3>1, <3>2 DEF IInv, Calls, LsmIdle, Advancing, TxnIdle
    <3>5. Returning'
      BY <1>1, <1>2, <3>1, <3>2, GivenKept DEF IInv, Returning, MvIs, None
    <3>6. Delivering'
      <4>1. View(txn.key)' = View(txn.key)
        BY <1>1, <3>1 DEF given, View, NewestVisible, Written, Size, ChainKeys, OfChain
      <4> QED BY <1>1, <1>2, <3>1, <4>1, GivenKept DEF IInv, Delivering, Delivered, MvIs
    <3> QED BY <3>3, <3>4, <3>5, <3>6 DEF IInv
  <2> QED BY <2>3, <2>4
<1> QED BY <1>6, <1>7 DEF FindSmallest

\* FindLargest promises no more than that memtables stand behind the key.
LEMMA FindLargestKeeps ==
    ASSUME IInv, Typed', FindLargest
    PROVE  IInv'
<1>1. /\ pc = "large" /\ UNCHANGED given /\ dir' = dir /\ mvNext' = mvNext /\ txn' = txn
      /\ op' = op /\ floor' = floor /\ (clean' <=> clean)
  BY DEF FindLargest, history
<1>2. user' = user /\ user = "lsm" /\ back = "idle" /\ op \notin Forwards /\ ~clean
  BY <1>1 DEF IInv, Typed, UserTyped, Calls, given
<1>3. pc' \in {"idle", "large"} /\ (Exact' /\ cur' # NoEntry => PassedTo(pos, cur.key)')
  <2>1. CASE ValidIn(pos) = {} /\ NoMore
    BY <1>2, <2>1, NoMoreIs DEF IInv
  <2>2. CASE /\ ValidIn(pos) # {}
             /\ LET k == LargestKey(pos)
                IN  Turn(SeekAll(k), k, Consumed(SeekAll(k), k), bound = 0 \/ k < bound)
    <3>1. PICK k \in Nat : k = LargestKey(pos) /\ k # 0
      BY <2>2, LargestIs DEF IInv, Typed
    <3>2. SeekAll(k) \in Positions
      BY SeekTyped DEF IInv
    <3>3. Turn(SeekAll(k), k, Consumed(SeekAll(k), k), bound = 0 \/ k < bound)
      BY <2>2, <3>1
    <3>4. /\ pos' = Consume(SeekAll(k), k) /\ (cur' # NoEntry => cur'.key = k)
          /\ pc' \in {back, pc}
      BY <3>2, <3>3, TurnIs DEF IInv
    <3>5. ASSUME NoTables PROVE PassedTo(pos, k)'
      <4>1. PICK j \in Nat : j = k - 1
        BY <3>1
      <4>2. PassedTo(SeekAll(k), j)
        BY <3>1, <3>5, <4>1, SeekIsExact DEF IInv
      <4>3. \A c \in Children : \A i \in 1 .. Size(c) : data[c][i].key <= j \/ k <= data[c][i].key
        <5>1. \A c \in Children : \A i \in 1 .. Size(c) : data[c][i].key \in Nat
          BY DataFacts DEF IInv
        <5> QED BY <4>1, <5>1
      <4>4. PassedTo(Consume(SeekAll(k), k), k)
        BY <3>2, <4>1, <4>2, <4>3, ConsumedIs DEF IInv
      <4> QED BY <1>1, <3>4, <4>4, PassedKept DEF IInv
    <3>6. Exact' => NoTables
      BY <1>1, <1>2, GivenKept DEF Exact, IInv
    <3>7. Exact' /\ cur' # NoEntry => PassedTo(pos, cur.key)'
      BY <3>4, <3>5, <3>6 DEF PassedTo
    <3> QED BY <1>1, <1>2, <3>4, <3>7
  <2> QED BY <2>1, <2>2 DEF FindLargest
<1>4. Calls' /\ Searching' /\ Advancing' /\ Returning' /\ Delivering' /\ TxnIdle'
  BY <1>1, <1>2, <1>3 DEF Calls, Searching, Advancing, Returning, Delivering, TxnIdle
<1>5. LsmIdle'
  BY <1>1, <1>2, <1>3 DEF LsmIdle
<1> QED BY <1>4, <1>5 DEF IInv

-----------------------------------------------------------------------------
(* Advance. *)

\* Between two numbers below the next keys of the tree and the chain nothing
\* is shown.
LEMMA NoneUpTo ==
    ASSUME Typed, NEW b \in Nat, CurIs(b), MvIs(b), NEW n \in Nat,
           mvNext = 0 \/ n <= mvNext, cur = NoEntry \/ n <= cur.key
    PROVE  \A k \in Shown : k <= b \/ n <= k
<1> TAKE k \in Shown
<1>1. k \in Nat /\ (k \in ChainKeys \/ k \in LsmShown)
  BY ShownIs
<1>2. mvNext \in Nat /\ (cur # NoEntry => cur.key \in Nat)
  BY ShownIs, EntryFacts DEF Typed
<1>3. CASE k \in ChainKeys
  BY <1>1, <1>2, <1>3 DEF MvIs
<1>4. CASE k \in LsmShown
  BY <1>1, <1>2, <1>4 DEF CurIs
<1> QED BY <1>1, <1>3, <1>4

LEMMA AdvanceEndsKeeps ==
    ASSUME IInv, Typed', AdvanceEnds
    PROVE  IInv'
<1>1. /\ pc = "advance" /\ mvNext = 0 /\ cur = NoEntry /\ txn' = NoEntry /\ pc' = "idle"
      /\ UNCHANGED given /\ op' = op /\ floor' = floor /\ (clean' <=> clean)
  BY DEF AdvanceEnds, Lsm, history
<1>2. user' = user /\ user = "txn" /\ (Exact' <=> Exact) /\ Shown' = Shown /\ dir' = dir
  BY <1>1, GivenKept DEF Exact, IInv, Typed, UserTyped, given, AdvanceEnds, merge
<1>3. Calls' /\ Searching' /\ LsmIdle' /\ Advancing' /\ Returning' /\ Delivering'
  BY <1>1, <1>2
  DEF IInv, Calls, Searching, LsmIdle, Advancing, Returning, Delivering
<1>4. TxnIdle'
  <2> SUFFICES ASSUME Exact, NEW k \in Shown
               PROVE  k <= floor
    BY <1>1, <1>2 DEF TxnIdle
  <2>1. PICK b \in Nat : floor <= b /\ CurIs(b) /\ MvIs(b) /\ None(Shown, floor, b)
    BY <1>1 DEF IInv, Advancing
  <2>2. k \in Nat /\ k <= b
    BY <1>1, <2>1, ShownIs DEF CurIs, MvIs, IInv
  <2> QED BY <2>1, <2>2 DEF None
<1> QED BY <1>3, <1>4 DEF IInv

\* After what a turn of Advance has passed, the next keys are those above it.
LEMMA PassesKey ==
    ASSUME IInv, UNCHANGED given, NEW b \in Nat, CurIs(b), NEW n \in Nat, b < n,
           cur = NoEntry \/ n < cur.key, pos' = pos, cur' = cur
    PROVE  CurIs(n)'
<1>1. LsmShown \in SUBSET Nat
  BY LsmShownIs DEF IInv
<1>2. CASE cur = NoEntry
  BY <1>1, <1>2, CurKept DEF CurIs, IInv
<1>3. CASE cur # NoEntry
  <2>1. /\ cur.key \in LsmShown /\ cur = LsmView(cur.key) /\ n < cur.key
        /\ \A k \in LsmShown : k <= n \/ cur.key <= k
    BY <1>1, <1>3 DEF CurIs
  <2>2. PassedTo(pos, cur.key)'
    BY <1>3, PassedKept DEF CurIs, IInv
  <2> QED BY <1>3, <2>1, <2>2, CurKept DEF IInv
<1> QED BY <1>2, <1>3

LEMMA AdvanceVersionKeeps ==
    ASSUME IInv, Typed', AdvanceVersion
    PROVE  IInv'
<1> DEFINE e == OfChain(mvNext)
           after == IF e.kind = "Deletion" THEN "advance" ELSE "idle"
<1>1. /\ pc = "advance" /\ mvNext # 0 /\ (cur # NoEntry => mvNext <= cur.key)
      /\ mvNext' = After(mvNext)
      /\ txn' = IF e.kind = "Deletion" THEN txn ELSE e
      /\ IF cur # NoEntry /\ cur.key = mvNext THEN MergeNext(after)
         ELSE pc' = after /\ UNCHANGED <<merge, back, bound>>
      /\ UNCHANGED given /\ op' = op /\ floor' = floor /\ (clean' <=> clean)
  BY DEF AdvanceVersion, VersionFirst, Lsm, history
<1>2. user' = user /\ user = "txn" /\ dir = "Forward" /\ op \in Forwards
  BY <1>1 DEF IInv, Typed, UserTyped, given, Calls
<1>3. (Exact' <=> Exact) /\ Shown' = Shown /\ Shown \in SUBSET Nat
  BY <1>1, GivenKept, ShownIs DEF Exact, IInv
<1>4. PICK n \in ChainKeys : n = mvNext
  BY <1>1 DEF IInv, Typed
<1>5. /\ n \in Nat /\ n # 0 /\ e.key = n /\ e # NoEntry /\ View(n) = e
      /\ e.kind \in {"Value", "Deletion"} /\ (n \in Shown <=> e.kind = "Value")
  BY <1>4, ShownIs DEF IInv
<1>6. floor \in Nat /\ (cur # NoEntry => cur.key \in Nat)
  BY EntryFacts DEF IInv, Typed
<1>7. MvIs(n)'
  BY <1>1, <1>4, <1>5, MvKept DEF IInv
<1>8. View(n)' = View(n)
  BY <1>1, GivenKept DEF IInv
<1> HIDE DEF e, after
<1>9. ASSUME Exact
      PROVE  /\ floor < n /\ (\A k \in Shown : k <= floor \/ n <= k)
             /\ cur # NoEntry /\ cur.key = n => PassedTo(pos, cur.key)
             /\ ~(cur # NoEntry /\ cur.key = n) /\ pos' = pos /\ cur' = cur => CurIs(n)'
  <2>1. PICK b \in Nat : floor <= b /\ CurIs(b) /\ MvIs(b) /\ None(Shown, floor, b)
    BY <1>1, <1>9 DEF IInv, Advancing
  <2>2. b < n
    BY <1>1, <1>4, <2>1 DEF MvIs
  <2>3. \A k \in Shown : k <= b \/ n <= k
    BY <1>1, <1>4, <1>5, <1>6, <2>1, NoneUpTo DEF IInv
  <2>4. floor < n /\ \A k \in Shown : k <= floor \/ n <= k
    BY <1>3, <1>5, <1>6, <2>1, <2>2, <2>3 DEF None
  <2>5. cur # NoEntry /\ cur.key = n => PassedTo(pos, cur.key)
    BY <2>1 DEF CurIs
  <2>6. ~(cur # NoEntry /\ cur.key = n) => cur = NoEntry \/ n < cur.key
    BY <1>1, <1>4, <1>5, <1>6
  <2> QED BY <1>1, <1>5, <2>1, <2>2, <2>4, <2>5, <2>6, PassesKey
<1>10. ASSUME Exact, e.kind = "Deletion"
       PROVE  None(Shown, floor, n)'
  BY <1>1, <1>3, <1>5, <1>6, <1>9, <1>10 DEF None
<1>11. ASSUME Exact, e.kind # "Deletion"
       PROVE  Delivered' /\ txn'.key = n
  <2>1. txn' = e /\ txn'.key = n /\ n \in Shown
    BY <1>1, <1>5, <1>11
  <2>2. View(txn.key)' = e
    <3>1. View(txn.key)' = View(n)'
      BY <2>1 DEF View, NewestVisible, Written, Size, ChainKeys, OfChain
    <3> QED BY <1>5, <1>8, <3>1
  <2>3. MvIs(txn.key)'
    BY <1>7, <2>1 DEF MvIs
  <2> QED BY <1>1, <1>3, <1>5, <1>9, <1>11, <2>1, <2>2, <2>3 DEF Delivered
<1>12. CASE cur # NoEntry /\ cur.key = n
  <2>1. MergeNext(after)
    BY <1>1, <1>4, <1>12
  <2>2. pc' = "small" /\ back' = after /\ bound' = n /\ dir' = "Forward"
    BY <1>12, <2>1, MergeNextIs DEF IInv
  <2>3. Searching' /\ Base' = n
    BY <1>1, <1>9, <1>12, <2>1, MergeNextSearches
  <2>4. Calls'
    BY <1>1, <1>2, <2>2 DEF IInv, Calls
  <2>5. LsmIdle' /\ Advancing' /\ TxnIdle'
    BY <1>2, <2>2 DEF LsmIdle, Advancing, TxnIdle
  <2>6. Returning'
    <3> SUFFICES ASSUME Exact, after = "advance"
                 PROVE  floor' <= n /\ MvIs(Base)' /\ None(Shown, floor, Base)'
      BY <1>3, <2>2, <2>3 DEF Returning
    <3>1. e.kind = "Deletion"
      BY DEF after
    <3>2. MvIs(Base)'
      BY <1>7, <2>3 DEF MvIs
    <3>3. None(Shown, floor, Base)'
      BY <1>10, <2>3, <3>1 DEF None
    <3> QED BY <1>1, <1>5, <1>6, <1>9, <3>2, <3>3
  <2>7. Delivering'
    <3> SUFFICES ASSUME Exact, after = "idle"
                 PROVE  Delivered' /\ bound' = txn'.key
      BY <1>3, <2>2 DEF Delivering
    <3>1. e.kind # "Deletion"
      BY DEF after
    <3> QED BY <1>11, <2>2, <3>1
  <2> QED BY <2>3, <2>4, <2>5, <2>6, <2>7 DEF IInv
<1>13. CASE ~(cur # NoEntry /\ cur.key = n)
  <2>1. pc' = after /\ UNCHANGED <<merge, back, bound>> /\ pos' = pos /\ cur' = cur /\ dir' = dir
    BY <1>1, <1>4, <1>13 DEF merge
  <2>2. after \in {"advance", "idle"}
    BY DEF after
  <2>3. Calls' /\ Searching' /\ LsmIdle' /\ Returning' /\ Delivering'
    BY <1>1, <1>2, <2>1, <2>2 DEF IInv, Calls, Searching, LsmIdle, Returning, Delivering
  <2>4. Advancing'
    <3> SUFFICES ASSUME Exact, after = "advance"
                 PROVE  floor' <= n /\ CurIs(n)' /\ MvIs(n)' /\ None(Shown, floor, n)'
      BY <1>3, <1>5, <2>1 DEF Advancing
    <3>1. e.kind = "Deletion"
      BY DEF after
    <3> QED BY <1>1, <1>5, <1>6, <1>7, <1>9, <1>10, <1>13, <2>1, <3>1
  <2>5. TxnIdle'
    <3> SUFFICES ASSUME Exact, after = "idle"
                 PROVE  txn' # NoEntry /\ Delivered' /\ CurIs(txn.key)'
      BY <1>3, <2>1 DEF TxnIdle
    <3>1. Delivered' /\ txn'.key = n
      BY <1>11 DEF after
    <3>2. CurIs(n)'
      BY <1>9, <1>13, <2>1
    <3>3. CurIs(txn.key)'
      BY <3>1, <3>2 DEF CurIs
    <3> QED BY <3>1, <3>3 DEF Delivered
  <2> QED BY <2>3, <2>4, <2>5 DEF IInv
<1> QED BY <1>12, <1>13

\* An entry of the tree is delivered when it lies before the next one of the
\* chain; then the chain has no version of it.
LEMMA AdvanceTreeKeeps ==
    ASSUME IInv, Typed', AdvanceTree
    PROVE  IInv'
<1> DEFINE e == IF cur.key \in ChainKeys THEN OfChain(cur.key) ELSE cur
           after == IF e.kind = "Deletion" THEN "advance" ELSE "idle"
<1>1. /\ pc = "advance" /\ cur # NoEntry /\ (mvNext = 0 \/ ~(mvNext <= cur.key))
      /\ mvNext' = mvNext
      /\ txn' = IF e.kind = "Deletion" THEN txn ELSE e
      /\ MergeNext(after)
      /\ UNCHANGED given /\ op' = op /\ floor' = floor /\ (clean' <=> clean)
  BY DEF AdvanceTree, VersionFirst, Lsm, history
<1>2. user' = user /\ user = "txn" /\ dir = "Forward" /\ op \in Forwards
  BY <1>1 DEF IInv, Typed, UserTyped, given, Calls
<1>3. (Exact' <=> Exact) /\ Shown' = Shown /\ ChainKeys' = ChainKeys /\ Shown \in SUBSET Nat
  BY <1>1, GivenKept, ShownIs DEF Exact, IInv
<1>4. PICK n \in Nat : n = cur.key /\ n # 0
  BY <1>1, EntryFacts DEF IInv, Typed
<1> HIDE DEF e, after
<1>5. pc' = "small" /\ back' = after /\ bound' = n /\ dir' = "Forward"
  BY <1>1, <1>4, MergeNextIs DEF IInv
<1>6. floor \in Nat /\ mvNext \in Nat
  BY ShownIs DEF IInv, Typed
<1>7. ASSUME Exact
      PROVE  /\ PassedTo(pos, cur.key) /\ after = "idle" /\ e = cur
             /\ floor < n /\ n \in Shown /\ View(n) = cur
             /\ \A k \in Shown : k <= floor \/ n <= k
             /\ mvNext = 0 \/ n < mvNext
             /\ \A k \in ChainKeys : k <= n \/ (mvNext # 0 /\ mvNext <= k)
  <2>1. PICK b \in Nat : floor <= b /\ CurIs(b) /\ MvIs(b) /\ None(Shown, floor, b)
    BY <1>1, <1>7 DEF IInv, Advancing
  <2>2. /\ b < n /\ n \in LsmShown /\ cur = LsmView(n) /\ PassedTo(pos, cur.key)
    BY <1>1, <1>4, <2>1 DEF CurIs
  <2>3. ChainKeys \in SUBSET Nat
    BY ShownIs DEF IInv
  <2>4. n \notin ChainKeys
    BY <1>1, <1>4, <1>6, <2>1, <2>2 DEF MvIs
  <2>5. n \in Shown /\ View(n) = cur
    BY <2>2, <2>4, ShownIs DEF IInv
  <2>6. e = cur /\ after = "idle"
    <3>1. cur.kind = "Value"
      BY <2>2, LsmShownIs DEF IsLive, IInv
    <3> QED BY <1>4, <2>4, <3>1 DEF e, after
  <2>7. mvNext = 0 \/ n < mvNext
    BY <1>1, <1>4, <1>6
  <2>8. \A k \in Shown : k <= b \/ n <= k
    BY <1>4, <1>6, <2>1, <2>7, NoneUpTo DEF IInv
  <2>9. floor < n /\ \A k \in Shown : k <= floor \/ n <= k
    BY <1>3, <1>6, <2>1, <2>2, <2>8 DEF None
  <2>10. \A k \in ChainKeys : k <= n \/ (mvNext # 0 /\ mvNext <= k)
    BY <2>1, <2>2, <2>3 DEF MvIs
  <2> QED BY <2>2, <2>5, <2>6, <2>7, <2>9, <2>10
<1>8. Searching'
  BY <1>1, <1>7, MergeNextSearches
<1>9. Calls'
  BY <1>1, <1>2, <1>5 DEF IInv, Calls
<1>10. LsmIdle' /\ Advancing' /\ TxnIdle'
  BY <1>2, <1>5 DEF LsmIdle, Advancing, TxnIdle
<1>11. Returning'
  BY <1>3, <1>5, <1>7 DEF Returning
<1>12. Delivering'
  <2> SUFFICES ASSUME Exact
               PROVE  Delivered' /\ bound' = txn'.key
    BY <1>3 DEF Delivering
  <2>1. txn' = cur
    BY <1>1, <1>7 DEF after
  <2>2. txn' # NoEntry /\ txn'.key = n
    BY <1>1, <1>4, <2>1
  <2>3. View(txn.key)' = cur
    <3>1. View(txn.key)' = View(n)'
      BY <2>2 DEF View, NewestVisible, Written, Size, ChainKeys, OfChain
    <3>2. View(n)' = View(n)
      BY <1>1, GivenKept DEF IInv
    <3> QED BY <1>7, <3>1, <3>2
  <2>4. MvIs(txn.key)'
    BY <1>1, <1>3, <1>7, <2>2 DEF MvIs
  <2> QED BY <1>1, <1>3, <1>5, <1>7, <2>1, <2>2, <2>3, <2>4 DEF Delivered
<1> QED BY <1>8, <1>9, <1>10, <1>11, <1>12 DEF IInv

-----------------------------------------------------------------------------
(* The invariant holds. *)

\* At the start the children are in order and no call has been made.
LEMMA InitHolds == Init => IInv
<1> SUFFICES ASSUME Init PROVE IInv
    OBVIOUS
<1>1. PICK w \in [Slots -> {Absent} \cup [in : Children, kind : Kinds]] :
          \A c \in Children : data[c] \in Orders(c, Held(w, c))
  BY DEF Init
<1>2. ASSUME NEW c \in Children
      PROVE  ChildTyped(c)
  <2> DEFINE S == {s \in Slots : w[s].in = c}
             F == [s \in S |-> [key |-> s[1], seq |-> s[2], kind |-> w[s].kind]]
             es == Held(w, c)
  <2>1. IsFiniteSet(S)
    BY ChildrenAssumption, FS_Subset
  <2>2. F \in Surjection(S, es)
    BY DEF Surjection, Held
  <2>3. IsFiniteSet(es)
    <3> HIDE DEF F, S, es
    <3> QED BY <2>1, <2>2, FS_Surjection
  <2>4. Cardinality(es) \in Nat
    BY <2>3, FS_CardinalityType
  <2>5. es \subseteq Entries
    <3> SUFFICES ASSUME NEW s \in Slots, w[s].in = c
                 PROVE  [key |-> s[1], seq |-> s[2], kind |-> w[s].kind] \in Entries
      BY DEF Held
    <3>1. w[s] \in [in : Children, kind : Kinds] \/ w[s] = Absent
      OBVIOUS
    <3>2. w[s].kind \in Kinds
      <4>1. CASE w[s] = Absent
        BY <4>1, ChildrenAssumption DEF Absent
      <4>2. CASE w[s] \in [in : Children, kind : Kinds]
        BY <4>2
      <4> QED BY <3>1, <4>1, <4>2
    <3> QED BY <3>2 DEF Entries, Keys
  <2> HIDE DEF es
  <2>6. /\ data[c] \in [1 .. Cardinality(es) -> es]
        /\ \A i, j \in DOMAIN data[c] : i < j => Below(c, data[c][i], data[c][j])
    BY <1>1 DEF Orders, es
  <2>7. data[c] \in Seq(Entries) /\ Len(data[c]) = Cardinality(es)
        /\ DOMAIN data[c] = 1 .. Cardinality(es)
    BY <2>4, <2>5, <2>6
  <2>8. \A i, j \in 1 .. Size(c) : i < j => data[c][i].key <= data[c][j].key
    <3> TAKE i, j \in 1 .. Size(c)
    <3> HAVE i < j
    <3>1. data[c][i].key \in Nat /\ data[c][j].key \in Nat
      BY <2>7, EntryFacts DEF Size
    <3>2. Below(c, data[c][i], data[c][j])
      BY <2>6, <2>7 DEF Size
    <3> QED BY <3>1, <3>2 DEF Below, InternalBelow, BytesBelow
  <2> QED BY <2>7, <2>8 DEF ChildTyped
<1>3. pos \in Positions
  <2>1. \A c \in Children : Size(c) \in Nat
    BY <1>2 DEF ChildTyped, Size
  <2> QED BY <2>1 DEF Init, Positions
<1>4. Typed
  BY <1>2, <1>3 DEF Init, Typed, UserTyped
<1>5. Calls /\ Searching /\ LsmIdle /\ Advancing /\ Returning /\ Delivering /\ TxnIdle
  BY DEF Init, Calls, Forwards, Searching, LsmIdle, Advancing, Returning, Delivering, TxnIdle
<1> QED BY <1>4, <1>5 DEF IInv

LEMMA StutterKeeps ==
    ASSUME IInv, UNCHANGED vars
    PROVE  IInv'
<1>1. /\ UNCHANGED given /\ UNCHANGED merge /\ pos' = pos /\ dir' = dir /\ cur' = cur
      /\ mvNext' = mvNext /\ txn' = txn /\ pc' = pc /\ back' = back /\ bound' = bound
      /\ op' = op /\ floor' = floor /\ (clean' <=> clean)
      /\ data' = data /\ snapshot' = snapshot /\ chain' = chain /\ user' = user
  BY DEF vars, given, merge, control, history
<1>2. /\ Shown' = Shown /\ LsmShown' = LsmShown /\ ChainKeys' = ChainKeys
      /\ (Exact' <=> Exact) /\ Base' = Base
  BY <1>1, GivenKept DEF Exact, Base, IInv
<1>3. Typed'
  BY <1>1, TypedFrom DEF IInv, Typed, UserTyped
<1>4. /\ \A b : CurIs(b)' <=> CurIs(b)
      /\ CurIs(floor)' <=> CurIs(floor)
      /\ CurIs(txn.key)' <=> CurIs(txn.key)
      /\ PassedTo(pos, cur.key)' <=> PassedTo(pos, cur.key)
  <2>1. /\ LsmView(cur.key)' = LsmView(cur.key)
        /\ PassedTo(pos, cur.key)' <=> PassedTo(pos, cur.key)
    BY <1>1 DEF PassedTo, Size, LsmView, NewestVisible, Written
  <2> QED BY <1>1, <1>2, <2>1 DEF CurIs
<1>5. \A b : MvIs(b)' <=> MvIs(b)
  BY <1>1, <1>2 DEF MvIs
<1>6. Searching'
  BY <1>1, <1>2 DEF IInv, Searching, PassedTo, Size, None
<1>7. LsmIdle'
  BY <1>1, <1>2, <1>4 DEF IInv, LsmIdle
<1>8. Advancing'
  BY <1>1, <1>2, <1>4, <1>5 DEF IInv, Advancing, None
<1>9. Returning'
  BY <1>1, <1>2 DEF IInv, Returning, MvIs, None
<1>10. Delivered' <=> Delivered
  BY <1>1, <1>2
  DEF Delivered, MvIs, View, NewestVisible, Written, Size, ChainKeys, OfChain
<1>11. Delivering'
  BY <1>1, <1>2, <1>10 DEF IInv, Delivering
<1>12. TxnIdle'
  BY <1>1, <1>2, <1>4, <1>10 DEF IInv, TxnIdle
<1>13. Calls'
  BY <1>1, <1>2 DEF IInv, Calls
<1> QED BY <1>3, <1>6, <1>7, <1>8, <1>9, <1>11, <1>12, <1>13 DEF IInv

LEMMA StepKeeps == IInv /\ [Next]_vars => IInv'
<1> SUFFICES ASSUME IInv, [Next]_vars PROVE IInv'
    OBVIOUS
<1>1. CASE SeekToFirst \/ (\E k \in Keys : Seek(k)) \/ NextEntry \/ SeekToLast \/ Prev
  <2>1. Typed'
    BY <1>1, CallsTyped DEF IInv
  <2> QED BY <1>1, <2>1, SeekToFirstKeeps, SeekKeeps, NextEntryKeeps, SeekToLastKeeps, PrevKeeps
<1>2. CASE FindSmallest \/ FindLargest \/ AdvanceEnds \/ AdvanceVersion \/ AdvanceTree
  <2>1. Typed'
    BY <1>2, StepsTyped DEF IInv
  <2> QED BY <1>2, <2>1, FindSmallestKeeps, FindLargestKeeps, AdvanceEndsKeeps,
             AdvanceVersionKeeps, AdvanceTreeKeeps
<1>3. CASE UNCHANGED vars
  BY <1>3, StutterKeeps
<1> QED BY <1>1, <1>2, <1>3 DEF Next

(***************************************************************************)
(* The invariant holds in every state: at every turn of the loops of       *)
(* FindSmallest, FindLargest and Advance, and between the calls, the       *)
(* positions, the entry shown and the keys passed fit together.            *)
(***************************************************************************)
THEOREM InvariantHolds == Spec => []IInv
BY InitHolds, StepKeeps, PTL DEF Spec

\* The entry at which the iterator stands is the first one above a key.
LEMMA StandsAtNext ==
    ASSUME NEW k \in Nat, Shown \in SUBSET Nat,
           \/ Now = NoEntry /\ \A l \in Shown : l <= k
           \/ /\ Now # NoEntry /\ Now.key \in Shown /\ Now = View(Now.key) /\ k < Now.key
              /\ \A l \in Shown : l <= k \/ Now.key <= l
    PROVE  StandsAt(Above(k), Least(Above(k)))
<1>1. Above(k) \in SUBSET Nat /\ \A l : l \in Above(k) <=> l \in Shown /\ l > k
  BY DEF Above
<1>2. CASE Now = NoEntry /\ \A l \in Shown : l <= k
  <2>1. Above(k) = {}
    BY <1>1, <1>2
  <2> QED BY <1>2, <2>1 DEF StandsAt
<1>3. CASE /\ Now # NoEntry /\ Now.key \in Shown /\ Now = View(Now.key) /\ k < Now.key
           /\ \A l \in Shown : l <= k \/ Now.key <= l
  <2>1. Now.key \in Above(k) /\ \A l \in Above(k) : Now.key <= l
    BY <1>1, <1>3
  <2>2. Least(Above(k)) = Now.key
    <3> HIDE DEF Now
    <3> QED BY <1>1, <2>1, LeastIsThis
  <2> QED BY <1>3, <2>1, <2>2 DEF StandsAt
<1> QED BY <1>2, <1>3

LEMMA InvariantShows ==
    ASSUME IInv, pc = "idle", Exact, op \in Forwards
    PROVE  StandsAt(Above(floor), Least(Above(floor)))
<1>1. floor \in Nat /\ Shown \in SUBSET Nat
  BY ShownIs DEF IInv, Typed
<1>2. CASE user = "lsm"
  <2>1. CurIs(floor) /\ Now = cur
    BY <1>2 DEF IInv, LsmIdle, Now
  <2>2. ChainKeys = {}
    BY <1>2 DEF IInv, Typed, UserTyped, ChainKeys
  <2>3. Shown = LsmShown /\ \A k : View(k) = LsmView(k)
    <3>1. \A k : k \in Shown <=> k \in LsmShown
      BY <2>2, ShownIs DEF IInv
    <3> QED BY <2>2, <3>1, ShownIs DEF IInv
  <2>4. \/ Now = NoEntry /\ \A l \in Shown : l <= floor
        \/ /\ Now # NoEntry /\ Now.key \in Shown /\ Now = View(Now.key) /\ floor < Now.key
           /\ \A l \in Shown : l <= floor \/ Now.key <= l
    BY <2>1, <2>3 DEF CurIs
  <2> QED BY <1>1, <2>4, StandsAtNext
<1>3. CASE user = "txn"
  <2>1. Now = txn
    BY <1>3 DEF Now
  <2>2. \/ Now = NoEntry /\ \A l \in Shown : l <= floor
        \/ /\ Now # NoEntry /\ Now.key \in Shown /\ Now = View(Now.key) /\ floor < Now.key
           /\ \A l \in Shown : l <= floor \/ Now.key <= l
    BY <1>3, <2>1 DEF IInv, TxnIdle, Delivered
  <2> QED BY <1>1, <2>2, StandsAtNext
<1> QED BY <1>2, <1>3 DEF IInv, Typed, UserTyped

(***************************************************************************)
(* A scan from SeekToFirst by Next returns every key once, in order, with  *)
(* its newest visible version, whatever memtables and tables the versions  *)
(* come from, and for a transaction what its chain has in its place        *)
(* (LSMTreeMergeIterator::FindSmallest, Next, TxnIterator::Advance).       *)
(***************************************************************************)
THEOREM ScansAreComplete == Spec => []ScanIsComplete
<1>1. IInv => ScanIsComplete
  BY InvariantShows DEF ScanIsComplete, Exact, IInv, Calls
<1> QED BY <1>1, InvariantHolds, PTL

(***************************************************************************)
(* Over memtables Seek stops at the first key from the target on, and Next *)
(* at the first key after the last one, after any calls in between         *)
(* (LSMTreeMergeIterator::Seek, Next, MemTableIterator::Seek).             *)
(***************************************************************************)
THEOREM SeeksAreExact == Spec => []ForwardInMemory
<1>1. IInv => ForwardInMemory
  BY InvariantShows DEF ForwardInMemory, Exact, Forwards
<1> QED BY <1>1, InvariantHolds, PTL
=============================================================================
