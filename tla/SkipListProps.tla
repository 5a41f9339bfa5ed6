---------------------------- MODULE SkipListProps ---------------------------
(***************************************************************************)
(* What a memtable's iterators need of the skip list they read without a   *)
(* lock.                                                                   *)
(***************************************************************************)
EXTENDS SkipList

(* Insert enters a node on one level after another while searches descend  *)
(* from any of them (skiplist.h, Insert and FindGreaterOrEqual): at every  *)
(* moment the pointers of a level lead upwards, and what a level leads to, *)
(* the level below leads to as well, so a search that comes down at a node *)
(* misses nothing behind it.                                               *)
ChainsNested ==
    /\ \A i \in Levels, n \in Nodes : next[n][i] # 0 => n < next[n][i]
    /\ \A i \in Levels \ {1} : Chain(i) \subseteq Chain(i - 1)

(* A key is in the map from the moment a pointer of the lowest level leads *)
(* to its node.                                                            *)
Entered == {next[n][1] : n \in Nodes} \ {0}
Contents == [k \in Keys |-> IF k \in Entered THEN value[k] ELSE 0]

Map == INSTANCE OrderedMap WITH contents <- Contents

(* MemTableIterator reads the list without the lock Put and Delete hold:   *)
(* whatever their steps and its own, the iterator is where an iterator     *)
(* over an ordered map would be that a put enters in one step, and takes   *)
(* an entry that the map has at that moment for the key it stands at.      *)
Implements == Map!Spec
=============================================================================
