----------------------------- MODULE LockProps -----------------------------
(***************************************************************************)
(* What the point locks promise, over the state of LockManager.            *)
(***************************************************************************)
EXTENDS LockManager

\* Two transactions hold the lock of one key only if both hold it shared: an
\* exclusive lock is exclusive (Compatible and CanGrant, at every grant and
\* across every release, time-out and resolution).
MutualExclusion ==
    \A k \in Keys : \A g, h \in holders[k] :
        g.txn # h.txn => g.type = "S" /\ h.type = "S"

\* A queue holds exactly the transactions whose thread waits there, each once:
\* RemoveWaiter leaves no ghost that would block the queue for ever.
NoGhostWaiters ==
    \A k \in Keys :
        /\ Waiting(k) = {t \in Txns : pc[t] = "waiting" /\ want[t].key = k}
        /\ Cardinality(Waiting(k)) = Len(waiters[k])

\* When only exclusive locks are asked for, a waiter at the head of its queue
\* that could have the lock has been notified: no release is slept through
\* (notify_all in ReleaseAll; a time-out or a refusal notifies nobody).
NoLostWakeup ==
    \A k \in Keys : \A r \in Front(k) :
        CanGrant(k, r.txn, r.type) => r.txn \in woken

\* An edge of the wait-for graph goes from a waiting transaction to a holder
\* of the key it waits for, or to one whose ReleaseAll has not reached the
\* graph: no edge survives its reason and makes a later request look like a
\* deadlock.
NoStaleEdges ==
    \A t \in Txns : \A u \in graph[t] :
        /\ pc[t] = "waiting"
        /\ u \in HolderIds(want[t].key) \/ pc[u] = "releasing"

\* The precheck in Acquire keeps the graph free of cycles, so that the
\* detector (DetectCycle) never has a victim to choose.
GraphAcyclic ==
    /\ \A t \in Txns : ~WouldCreateCycle(graph, t)
    /\ aborted = {}

\* A thread in a call goes on: it takes the mutexes it needs, and it looks at
\* the queue again once it is notified.  A transaction ends at last.  Nothing
\* says that a deadline passes (the default lock_timeout is ten seconds) or
\* that a thread wakes without cause.
Fairness ==
    \A t \in Txns :
        /\ WF_vars(t \in woken /\ LeaveWait(t))
        /\ WF_vars(WakeAndSleep(t))
        /\ WF_vars(ReleaseAll(t))
        /\ WF_vars(\E k \in Keys : ReleaseEntry(t, k))
        /\ WF_vars(ReleaseGraph(t))

FairSpec == Spec /\ Fairness

\* With one key no transaction waits in a circle, and every waiting call of
\* Acquire returns without its time-out: the notifications of ReleaseAll are
\* enough, though a grant, a time-out and a refusal notify nobody.
EveryWaitEnds == \A t \in Txns : pc[t] = "waiting" ~> pc[t] # "waiting"

\* A lock is granted past a queue only to the transaction at its head: nobody
\* overtakes a waiter, whatever the entry point and the lock types.
NoOvertaking ==
    [][\A k \in Keys : \A h \in holders'[k] \ holders[k] :
         Front(k) \subseteq {h}]_vars
=============================================================================
