----------------------------- MODULE OrderedMap -----------------------------
(***************************************************************************)
(* What a reader of a memtable may rely on: an ordered map to which one    *)
(* writer adds, and iterators that move over it and take the entry they    *)
(* come to.  A move takes effect at one moment between the call and its    *)
(* return, the taking of the entry at a later one.                         *)
(***************************************************************************)
EXTENDS Integers

CONSTANTS Keys, Values, Readers

None == 0   \* no key, no value

VARIABLES contents, \* key -> value, None where there is none
          wish,     \* reader -> the call under way
          at,       \* reader -> the key it stands at
          got       \* reader -> the value it got

vars == <<contents, wish, at, got>>

Present == {k \in Keys : contents[k] # None}
Least(S) == IF S = {} THEN None ELSE CHOOSE k \in S : \A l \in S : k <= l
Greatest(S) == IF S = {} THEN None ELSE CHOOSE k \in S : \A l \in S : l <= k

Idle == [op |-> "none", key |-> None]
Calls == [op : {"seek", "less", "last"}, key : Keys \cup {None}]

Init ==
    /\ contents = [k \in Keys |-> None]
    /\ wish = [r \in Readers |-> Idle]
    /\ at = [r \in Readers |-> None] /\ got = [r \in Readers |-> None]

Put(k, v) == contents' = [contents EXCEPT ![k] = v] /\ UNCHANGED <<wish, at, got>>

Ask(r, call) ==
    /\ wish[r] = Idle
    /\ wish' = [wish EXCEPT ![r] = call]
    /\ UNCHANGED <<contents, at, got>>

StandAt(r, k) ==
    /\ at' = [at EXCEPT ![r] = k]
    /\ wish' = [wish EXCEPT ![r] = IF k = None THEN Idle ELSE [op |-> "get", key |-> k]]
    /\ got' = [got EXCEPT ![r] = IF k = None THEN None ELSE @]
    /\ UNCHANGED contents

Answer(r) ==
    \/ wish[r].op = "seek" /\ StandAt(r, Least({k \in Present : k >= wish[r].key}))
    \/ wish[r].op = "less" /\ StandAt(r, Greatest({k \in Present : k < wish[r].key}))
    \/ wish[r].op = "last" /\ StandAt(r, Greatest(Present))

(* To the next key; to the first one from None. *)
Move(r) ==
    /\ wish[r] = Idle
    /\ \E from \in {at[r], None} : StandAt(r, Least({k \in Present : k > from}))

Take(r) ==
    /\ wish[r].op = "get"
    /\ got' = [got EXCEPT ![r] = contents[wish[r].key]]
    /\ wish' = [wish EXCEPT ![r] = Idle]
    /\ UNCHANGED <<contents, at>>

Next ==
    \/ \E k \in Keys, v \in Values : Put(k, v)
    \/ \E r \in Readers : Answer(r) \/ Move(r) \/ Take(r) \/ \E call \in Calls : Ask(r, call)

Spec == Init /\ [][Next]_vars
=============================================================================
