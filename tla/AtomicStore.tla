---------------------------- MODULE AtomicStore ----------------------------
(***************************************************************************)
(* What the transactions of a column family promise to their users, with   *)
(* nothing of versions, sequence numbers, logs or background tasks: a      *)
(* transaction gathers writes, one transaction at a time per key, and they *)
(* take effect all at once or not at all.                                  *)
(***************************************************************************)
CONSTANTS Txns, Keys,
          Vals,    \* what a key can hold, Absent among it
          Absent,  \* the key is not there
          Nothing  \* no write

VARIABLES store,   \* key -> what is committed
          pending  \* transaction -> key -> what it has written

NoWrites == [k \in Keys |-> Nothing]

Init ==
    /\ store \in [Keys -> Vals]
    /\ pending = [t \in Txns |-> NoWrites]

Write(t, k, v) ==
    /\ \A u \in Txns \ {t} : pending[u][k] = Nothing
    /\ pending' = [pending EXCEPT ![t][k] = v]
    /\ UNCHANGED store

Commit(t) ==
    /\ store' = [k \in Keys |->
                    IF pending[t][k] = Nothing THEN store[k] ELSE pending[t][k]]
    /\ pending' = [pending EXCEPT ![t] = NoWrites]

Abort(t) ==
    /\ pending' = [pending EXCEPT ![t] = NoWrites]
    /\ UNCHANGED store

Next ==
    \E t \in Txns :
        \/ \E k \in Keys, v \in Vals : Write(t, k, v)
        \/ Commit(t)
        \/ Abort(t)

Spec == Init /\ [][Next]_<<store, pending>>
=============================================================================
