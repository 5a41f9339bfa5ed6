---------------------------- MODULE LockProofs -----------------------------
(***************************************************************************)
(* Proofs about LockManager, for any set of transactions and keys and any  *)
(* use of its entry points.                                                *)
(***************************************************************************)
EXTENDS LockProps, FiniteSetTheorems, FunctionTheorems, TLAPS

\* RemoveWaiter (lock_manager.cc) returns a queue of requests, as it got one.
LEMMA RemoveWaiterType ==
    ASSUME NEW q \in Seq(LockRequest), NEW S
    PROVE  RemoveWaiter(q, S) \in Seq(LockRequest)
<1>1. CASE \A i \in DOMAIN q : q[i].txn \notin S
  BY <1>1 DEF RemoveWaiter
<1>2. CASE ~ \A i \in DOMAIN q : q[i].txn \notin S
  <2>1. Len(q) - 1 \in Nat
    BY <1>2
  <2>2. \A i \in 1 .. Len(q) - 1 : q[i] \in LockRequest /\ q[i + 1] \in LockRequest
    OBVIOUS
  <2> QED BY <1>2, <2>1, <2>2 DEF RemoveWaiter
<1> QED BY <1>1, <1>2

\* The holders and waiters of a well-typed state are transactions.
LEMMA IdsAreTxns ==
    ASSUME LocksTyped, NEW k \in Keys
    PROVE  HolderIds(k) \subseteq Txns /\ Waiting(k) \subseteq Txns
<1>1. \A r \in LockRequest : r.txn \in Txns
  BY DEF LockRequest
<1>2. holders[k] \subseteq LockRequest
  BY DEF LocksTyped
<1>3. \A i \in DOMAIN waiters[k] : waiters[k][i] \in LockRequest
  <2>1. waiters[k] \in Seq(LockRequest)
    BY DEF LocksTyped
  <2> QED BY <2>1
<1> QED BY <1>1, <1>2, <1>3 DEF HolderIds, Waiting

\* Dropping edges leaves a graph over the transactions.
LEMMA RemoveEdgesType ==
    ASSUME NEW g \in [Txns -> SUBSET Txns], NEW S
    PROVE  RemoveEdgesFor(g, S) \in [Txns -> SUBSET Txns]
BY DEF RemoveEdgesFor

\* A victim is a transaction.
LEMMA VictimsType ==
    ASSUME NEW g, NEW V \in Victims(g)
    PROVE  V \subseteq Txns
BY DEF Victims

\* A request of a transaction for a lock type is a lock request.
LEMMA RequestType ==
    ASSUME NEW t \in Txns, NEW ty \in LockType
    PROVE  Request(t, ty) \in LockRequest
BY DEF Request, LockRequest

\* A grant, and the end of a call, leave what they touch well typed.
LEMMA HoldType ==
    ASSUME LocksTyped, NEW t \in Txns, NEW k \in Keys, NEW ty \in LockType,
           Hold(t, k, ty)
    PROVE  holders' \in [Keys -> SUBSET LockRequest]
BY RequestType DEF LocksTyped, Hold

LEMMA ReturnType ==
    ASSUME ThreadsTyped, NEW t \in Txns, NEW s \in Status, Return(t, s)
    PROVE  ThreadsTyped'
<1>1. pc' \in [Txns -> {"idle", "waiting", "releasing"}]
  BY DEF ThreadsTyped, Return
<1>2. want' \in [Txns -> Wish \cup {NoWish}]
  BY DEF ThreadsTyped, Return
<1>3. ASSUME NEW u \in Txns PROVE want'[u] \in Wish <=> pc'[u] = "waiting"
  <2>1. CASE u = t
    BY <2>1, NoWishAssumption DEF ThreadsTyped, Return
  <2>2. CASE u # t
    BY <2>2 DEF ThreadsTyped, Return
  <2> QED BY <2>1, <2>2
<1>4. todo' \in [Txns -> SUBSET Keys] /\ result' \in [Txns -> Status]
  BY DEF ThreadsTyped, Return
<1> QED BY <1>1, <1>2, <1>3, <1>4 DEF ThreadsTyped

\* What a waiting thread waits for is a lock of a key.
LEMMA WishType ==
    ASSUME ThreadsTyped, NEW t \in Txns, pc[t] = "waiting"
    PROVE  want[t].key \in Keys /\ want[t].type \in LockType
BY DEF ThreadsTyped, Wish

-----------------------------------------------------------------------------

\* Every variable keeps its type through every call of the lock manager, and
\* a wish is recorded exactly while the thread waits.
THEOREM TypeCorrect == Spec => []TypeOK
<1>1. Init => TypeOK
  BY NoWishAssumption
     DEF Init, TypeOK, LocksTyped, GraphTyped, ThreadsTyped, Status
<1>2. TypeOK /\ [Next]_vars => TypeOK'
  <2> SUFFICES ASSUME LocksTyped, GraphTyped, ThreadsTyped, [Next]_vars
               PROVE  LocksTyped' /\ GraphTyped' /\ ThreadsTyped'
    BY DEF TypeOK
  <2>0. "OK" \in Status /\ "Aborted" \in Status /\ "TimedOut" \in Status
          /\ "none" \in Status
    BY DEF Status
  <2> USE DEF lockVars, graphVars, threadVars
  <2>1. ASSUME NEW t \in Txns, NEW k \in Keys, NEW ty \in RequestTypes,
               AcquireGranted(t, k, ty)
        PROVE  LocksTyped' /\ GraphTyped' /\ ThreadsTyped'
    <3>1. LocksTyped'
      BY <2>1, HoldType, TypesAssumption DEF AcquireGranted, LocksTyped
    <3>2. ThreadsTyped'
      BY <2>0, <2>1, ReturnType DEF AcquireGranted
    <3> QED BY <2>1, <3>1, <3>2 DEF AcquireGranted, GraphTyped
  <2>2. ASSUME NEW t \in Txns, NEW k \in Keys, NEW ty \in RequestTypes,
               AcquireAborted(t, k, ty)
        PROVE  LocksTyped' /\ GraphTyped' /\ ThreadsTyped'
    <3>1. ThreadsTyped'
      BY <2>0, <2>2, ReturnType DEF AcquireAborted
    <3>2. GraphTyped'
      BY <2>2, RemoveEdgesType DEF AcquireAborted, GraphTyped
    <3> QED BY <2>2, <3>1, <3>2 DEF AcquireAborted, LocksTyped
  <2>3. ASSUME NEW t \in Txns, NEW k \in Keys, NEW ty \in RequestTypes,
               AcquireWaits(t, k, ty)
        PROVE  LocksTyped' /\ GraphTyped' /\ ThreadsTyped'
    <3>1. ty \in LockType /\ [key |-> k, type |-> ty] \in Wish
      BY TypesAssumption DEF Wish
    <3>2. LocksTyped'
      <4>1. Append(waiters[k], Request(t, ty)) \in Seq(LockRequest)
        BY <3>1, RequestType DEF LocksTyped
      <4> QED BY <2>3, <4>1 DEF AcquireWaits, LocksTyped
    <3>3. GraphTyped'
      BY <2>3, IdsAreTxns DEF AcquireWaits, AddEdges, GraphTyped
    <3>4. ThreadsTyped'
      BY <2>3, <3>1 DEF AcquireWaits, ThreadsTyped
    <3> QED BY <3>2, <3>3, <3>4
  <2>4. ASSUME NEW t \in Txns, NEW k \in Keys, NEW ty \in RequestTypes,
               TryAcquire(t, k, ty)
        PROVE  LocksTyped' /\ GraphTyped' /\ ThreadsTyped'
    <3>1. LocksTyped'
      BY <2>4, HoldType, TypesAssumption DEF TryAcquire, LocksTyped
    <3>2. ThreadsTyped'
      BY <2>0, <2>4, ReturnType DEF TryAcquire
    <3> QED BY <2>4, <3>1, <3>2 DEF TryAcquire, GraphTyped
  <2>5. ASSUME NEW t \in Txns, LeaveWait(t)
        PROVE  LocksTyped' /\ GraphTyped' /\ ThreadsTyped'
    <3>1. want[t].key \in Keys /\ want[t].type \in LockType
      BY <2>5, WishType DEF LeaveWait
    <3>2. waiters' \in [Keys -> Seq(LockRequest)]
      BY <2>5, <3>1, RemoveWaiterType DEF LeaveWait, LocksTyped
    <3>3. holders' \in [Keys -> SUBSET LockRequest]
      BY <2>5, <3>1, HoldType DEF LeaveWait, LocksTyped
    <3>4. GraphTyped'
      BY <2>5, RemoveEdgesType DEF LeaveWait, GraphTyped
    <3>5. ThreadsTyped'
      BY <2>0, <2>5, ReturnType DEF LeaveWait
    <3> QED BY <3>2, <3>3, <3>4, <3>5 DEF LocksTyped
  <2>6. ASSUME NEW t \in Txns, WakeAndSleep(t)
        PROVE  LocksTyped' /\ GraphTyped' /\ ThreadsTyped'
    BY <2>6 DEF WakeAndSleep, LocksTyped, GraphTyped, ThreadsTyped
  <2>7. ASSUME NEW t \in Txns, TimedOut(t)
        PROVE  LocksTyped' /\ GraphTyped' /\ ThreadsTyped'
    <3>1. LocksTyped'
      BY <2>7, WishType, RemoveWaiterType DEF TimedOut, LocksTyped
    <3>2. ThreadsTyped'
      BY <2>0, <2>7, ReturnType DEF TimedOut
    <3>3. GraphTyped'
      BY <2>7, RemoveEdgesType DEF TimedOut, GraphTyped
    <3> QED BY <3>1, <3>2, <3>3
  <2>8. ASSUME NEW t \in Txns, ReleaseAll(t)
        PROVE  LocksTyped' /\ GraphTyped' /\ ThreadsTyped'
    BY <2>8 DEF ReleaseAll, LocksTyped, GraphTyped, ThreadsTyped
  <2>9. ASSUME NEW t \in Txns, ReleaseGraph(t)
        PROVE  LocksTyped' /\ GraphTyped' /\ ThreadsTyped'
    <3>1. ThreadsTyped'
      BY <2>0, <2>9, ReturnType DEF ReleaseGraph
    <3>2. GraphTyped'
      BY <2>9, RemoveEdgesType DEF ReleaseGraph, GraphTyped
    <3> QED BY <2>9, <3>1, <3>2 DEF ReleaseGraph, LocksTyped
  <2>10. ASSUME NEW t \in Txns, NEW k \in Keys,
                ReleaseEntry(t, k) \/ Release(t, k)
         PROVE  LocksTyped' /\ GraphTyped' /\ ThreadsTyped'
    <3>1. GraphTyped'
      BY <2>10, IdsAreTxns DEF ReleaseEntry, Release, GraphTyped
    <3>2. LocksTyped'
      BY <2>10 DEF ReleaseEntry, Release, DropHolder, LocksTyped
    <3>3. ThreadsTyped'
      BY <2>10 DEF ReleaseEntry, Release, ThreadsTyped
    <3> QED BY <3>1, <3>2, <3>3
  <2>11. CASE DetectAndResolveDeadlocks
    <3>1. PICK V \in Victims(graph) :
            /\ aborted' = aborted \cup V
            /\ holders' = [k \in Keys |-> {h \in holders[k] : h.txn \notin V}]
            /\ waiters' = [k \in Keys |-> RemoveWaiter(waiters[k], V)]
            /\ graph' = RemoveEdgesFor(graph, V)
            /\ woken' = woken \cup UNION {Waiting(k) : k \in
                    {j \in Keys : V \cap (HolderIds(j) \cup Waiting(j)) # {}}}
      BY <2>11 DEF DetectAndResolveDeadlocks
    <3>2. V \subseteq Txns
      BY VictimsType
    <3>3. LocksTyped'
      BY <3>1, RemoveWaiterType DEF LocksTyped
    <3>4. woken' \subseteq Txns
      BY <3>1, IdsAreTxns DEF GraphTyped
    <3>5. GraphTyped'
      BY <3>1, <3>2, <3>4, RemoveEdgesType DEF GraphTyped
    <3> QED BY <2>11, <3>3, <3>5 DEF DetectAndResolveDeadlocks, ThreadsTyped
  <2>12. CASE UNCHANGED vars
    BY <2>12 DEF LocksTyped, GraphTyped, ThreadsTyped, vars
  <2> QED BY <2>1, <2>2, <2>3, <2>4, <2>5, <2>6, <2>7, <2>8, <2>9, <2>10,
             <2>11, <2>12 DEF Next
<1> QED BY <1>1, <1>2, PTL DEF Spec

-----------------------------------------------------------------------------

\* Granting a request that CanGrant allows keeps the locks exclusive.
LEMMA GrantIsExclusive ==
    ASSUME TypeOK, MutualExclusion, NEW t \in Txns, NEW k \in Keys,
           NEW ty \in LockType, CanGrant(k, t, ty), Hold(t, k, ty)
    PROVE  MutualExclusion'
<1> SUFFICES ASSUME NEW j \in Keys, NEW g \in holders'[j], NEW h \in holders'[j],
                    g.txn # h.txn
             PROVE  g.type = "S" /\ h.type = "S"
  BY DEF MutualExclusion
<1>1. CASE j # k
  BY <1>1 DEF Hold, TypeOK, LocksTyped, MutualExclusion
<1>2. CASE j = k
  <2>1. holders'[k] = holders[k] \cup {Request(t, ty)}
    BY DEF Hold, TypeOK, LocksTyped
  <2>2. \A x \in holders[k] : x.txn # t => x.type = "S" /\ ty = "S"
    BY DEF CanGrant, Compatible
  <2>3. Request(t, ty).txn = t /\ Request(t, ty).type = ty
    BY DEF Request
  <2> QED BY <1>2, <2>1, <2>2, <2>3 DEF MutualExclusion
<1> QED BY <1>1, <1>2

\* Taking requests away keeps the locks exclusive.
LEMMA FewerHolders ==
    ASSUME MutualExclusion, \A k \in Keys : holders'[k] \subseteq holders[k]
    PROVE  MutualExclusion'
BY DEF MutualExclusion

\* Two transactions never hold an exclusive lock of one key together, whatever
\* the entry points, lock types, time-outs and resolutions (lock_manager.cc,
\* Compatible and CanGrant; test_units.cc, LockManagerXXExclusion).
THEOREM LocksExclusive == Spec => []MutualExclusion
<1>1. Init => MutualExclusion
  BY DEF Init, MutualExclusion
<1>2. TypeOK /\ MutualExclusion /\ [Next]_vars => MutualExclusion'
  <2> SUFFICES ASSUME TypeOK, MutualExclusion, [Next]_vars
               PROVE  MutualExclusion'
    OBVIOUS
  <2> USE DEF lockVars, graphVars, threadVars
  <2>1. CASE UNCHANGED holders
    BY <2>1, FewerHolders
  <2>2. ASSUME NEW t \in Txns, NEW k \in Keys, NEW ty \in RequestTypes,
               AcquireGranted(t, k, ty) \/ TryAcquire(t, k, ty)
        PROVE  MutualExclusion'
    BY <2>1, <2>2, GrantIsExclusive, TypesAssumption
       DEF AcquireGranted, TryAcquire
  <2>3. ASSUME NEW t \in Txns, LeaveWait(t) PROVE MutualExclusion'
    <3>1. want[t].key \in Keys /\ want[t].type \in LockType
      BY <2>3, WishType DEF LeaveWait, TypeOK
    <3> QED BY <2>1, <2>3, <3>1, GrantIsExclusive DEF LeaveWait, MayGoOn
  <2>4. ASSUME NEW t \in Txns, NEW k \in Keys, ReleaseEntry(t, k) \/ Release(t, k)
        PROVE  MutualExclusion'
    <3>1. \A j \in Keys : holders'[j] \subseteq holders[j]
      BY <2>4 DEF ReleaseEntry, Release, DropHolder, TypeOK, LocksTyped
    <3> QED BY <3>1, FewerHolders
  <2>5. CASE DetectAndResolveDeadlocks
    <3>1. \A j \in Keys : holders'[j] \subseteq holders[j]
      BY <2>5 DEF DetectAndResolveDeadlocks
    <3> QED BY <3>1, FewerHolders
  <2>6. ASSUME NEW t \in Txns, NEW k \in Keys, NEW ty \in RequestTypes,
               AcquireAborted(t, k, ty) \/ AcquireWaits(t, k, ty)
        PROVE  MutualExclusion'
    BY <2>1, <2>6 DEF AcquireAborted, AcquireWaits
  <2>7. ASSUME NEW t \in Txns, WakeAndSleep(t) \/ TimedOut(t)
                    \/ ReleaseAll(t) \/ ReleaseGraph(t)
        PROVE  MutualExclusion'
    BY <2>1, <2>7 DEF WakeAndSleep, TimedOut, ReleaseAll, ReleaseGraph
  <2>8. CASE UNCHANGED vars
    BY <2>1, <2>8 DEF vars
  <2> QED BY <2>2, <2>3, <2>4, <2>5, <2>6, <2>7, <2>8 DEF Next
<1> QED BY <1>1, <1>2, TypeCorrect, PTL DEF Spec

\* Nobody overtakes a waiter: the holders grow by a request that CanGrant
\* allows, in Acquire, after its wait and in TryAcquire.
THEOREM NobodyOvertakes == Spec => NoOvertaking
<1> DEFINE Fair == \A k \in Keys : \A h \in holders'[k] \ holders[k] : Front(k) \subseteq {h}
<1>1. TypeOK /\ [Next]_vars => Fair
  <2> SUFFICES ASSUME TypeOK, [Next]_vars PROVE Fair
    OBVIOUS
  <2> USE DEF lockVars, graphVars, threadVars
  <2>1. ASSUME \A k \in Keys : holders'[k] \subseteq holders[k] PROVE Fair
    BY <2>1
  <2>2. ASSUME NEW t \in Txns, NEW k \in Keys, NEW ty \in LockType,
               CanGrant(k, t, ty), Hold(t, k, ty)
        PROVE  Fair
    BY <2>2 DEF CanGrant, Hold, TypeOK, LocksTyped
  <2>3. CASE UNCHANGED holders
    BY <2>1, <2>3
  <2> HIDE DEF Fair
  <2>4. ASSUME NEW t \in Txns, NEW k \in Keys, NEW ty \in RequestTypes,
               AcquireGranted(t, k, ty) \/ TryAcquire(t, k, ty)
        PROVE  Fair
    BY <2>2, <2>3, <2>4, TypesAssumption DEF AcquireGranted, TryAcquire
  <2>5. ASSUME NEW t \in Txns, LeaveWait(t) PROVE Fair
    <3>1. want[t].key \in Keys /\ want[t].type \in LockType
      BY <2>5, WishType DEF LeaveWait, TypeOK
    <3> QED BY <2>2, <2>3, <2>5, <3>1 DEF LeaveWait, MayGoOn
  <2>6. ASSUME NEW t \in Txns, NEW k \in Keys, ReleaseEntry(t, k) \/ Release(t, k)
        PROVE  Fair
    <3>1. \A j \in Keys : holders'[j] \subseteq holders[j]
      BY <2>6 DEF ReleaseEntry, Release, DropHolder, TypeOK, LocksTyped
    <3> QED BY <2>1, <3>1
  <2>7. CASE DetectAndResolveDeadlocks
    <3>1. \A j \in Keys : holders'[j] \subseteq holders[j]
      BY <2>7 DEF DetectAndResolveDeadlocks
    <3> QED BY <2>1, <3>1
  <2>8. ASSUME NEW t \in Txns, NEW k \in Keys, NEW ty \in RequestTypes,
               AcquireAborted(t, k, ty) \/ AcquireWaits(t, k, ty)
        PROVE  Fair
    BY <2>3, <2>8 DEF AcquireAborted, AcquireWaits
  <2>9. ASSUME NEW t \in Txns, WakeAndSleep(t) \/ TimedOut(t)
                    \/ ReleaseAll(t) \/ ReleaseGraph(t)
        PROVE  Fair
    BY <2>3, <2>9 DEF WakeAndSleep, TimedOut, ReleaseAll, ReleaseGraph
  <2>10. CASE UNCHANGED vars
    BY <2>3, <2>10 DEF vars
  <2> QED BY <2>4, <2>5, <2>6, <2>7, <2>8, <2>9, <2>10 DEF Next
<1>2. TypeOK /\ [Next]_vars => [Fair]_vars
  BY <1>1
<1> QED BY <1>2, TypeCorrect, PTL DEF Spec, NoOvertaking

-----------------------------------------------------------------------------
(* The wait-for graph has no cycle: WouldCreateCycle looks at the graph     *)
(* with the new edges in it, and every other change takes edges away.      *)

WaitGraphs == [Txns -> SUBSET Txns]

\* What t reaches has the ends of t's edges, and no edge leaves it.
LEMMA ReachIsClosed ==
    ASSUME NEW g \in WaitGraphs, NEW t \in Txns
    PROVE  /\ Reach(g, t) \subseteq Txns
           /\ g[t] \subseteq Reach(g, t)
           /\ \A v \in Reach(g, t) : g[v] \subseteq Reach(g, t)
BY DEF WaitGraphs, Reach

\* It is the least such set.
LEMMA ReachIsLeast ==
    ASSUME NEW g \in WaitGraphs, NEW t \in Txns, NEW C \in SUBSET Txns,
           g[t] \subseteq C, \A v \in C : g[v] \subseteq C
    PROVE  Reach(g, t) \subseteq C
BY DEF Reach

NoCycle(g) == \A u \in Txns : u \notin Reach(g, u)

\* Dfs finds no cycle from any transaction exactly when none reaches itself.
LEMMA NoCycleFound ==
    ASSUME NEW g \in WaitGraphs
    PROVE  NoCycle(g) <=> \A t \in Txns : ~WouldCreateCycle(g, t)
BY ReachIsClosed DEF NoCycle, WouldCreateCycle

\* Taking edges away opens no cycle.
LEMMA FewerEdges ==
    ASSUME NEW g \in WaitGraphs, NEW h \in WaitGraphs, NoCycle(g),
           \A t \in Txns : h[t] \subseteq g[t]
    PROVE  NoCycle(h)
<1> SUFFICES ASSUME NEW u \in Txns PROVE Reach(h, u) \subseteq Reach(g, u)
  BY DEF NoCycle
<1>1. /\ Reach(g, u) \subseteq Txns
      /\ g[u] \subseteq Reach(g, u)
      /\ \A v \in Reach(g, u) : g[v] \subseteq Reach(g, u)
  BY ReachIsClosed
<1>2. h[u] \subseteq Reach(g, u) /\ \A v \in Reach(g, u) : h[v] \subseteq Reach(g, u)
  BY <1>1
<1> QED BY <1>1, <1>2, ReachIsLeast

\* Edges out of t close no cycle at all when the search from t meets none.
LEMMA MoreEdges ==
    ASSUME NEW g \in WaitGraphs, NoCycle(g), NEW t \in Txns, NEW S \in SUBSET Txns,
           ~WouldCreateCycle(AddEdges(g, t, S), t)
    PROVE  NoCycle(AddEdges(g, t, S))
<1> DEFINE h == AddEdges(g, t, S)
<1>1. h \in WaitGraphs /\ \A v \in Txns \ {t} : h[v] = g[v]
  BY DEF WaitGraphs, AddEdges
<1> HIDE DEF h
<1>2. t \notin Reach(h, t) /\ \A u \in Reach(h, t) : u \notin Reach(h, u)
  BY DEF WouldCreateCycle, h
<1>3. ASSUME NEW u \in Txns, u \in Reach(h, u) PROVE FALSE
  <2> DEFINE C == Reach(g, u) \cup Reach(h, t) \cup {t}
  <2>1. u # t /\ u \notin Reach(h, t)
    BY <1>2, <1>3
  <2>2. /\ Reach(g, u) \subseteq Txns /\ g[u] \subseteq Reach(g, u)
        /\ \A v \in Reach(g, u) : g[v] \subseteq Reach(g, u)
    BY ReachIsClosed
  <2>3. /\ Reach(h, t) \subseteq Txns /\ h[t] \subseteq Reach(h, t)
        /\ \A v \in Reach(h, t) : h[v] \subseteq Reach(h, t)
    BY <1>1, ReachIsClosed
  <2>4. C \in SUBSET Txns /\ h[u] \subseteq C
    BY <1>1, <2>1, <2>2, <2>3
  <2>5. ASSUME NEW v \in C PROVE h[v] \subseteq C
    <3>1. CASE v = t
      BY <2>3, <3>1
    <3>2. CASE v # t /\ v \in Reach(g, u)
      BY <1>1, <2>2, <3>2
    <3>3. CASE v \in Reach(h, t)
      BY <2>3, <3>3
    <3> QED BY <3>1, <3>2, <3>3
  <2> HIDE DEF C
  <2>6. u \in C
    BY <1>1, <1>3, <2>4, <2>5, ReachIsLeast
  <2>7. u \in Reach(g, u)
    BY <2>1, <2>6 DEF C
  <2> QED BY <2>7 DEF NoCycle
<1> QED BY <1>3 DEF NoCycle, h

\* RemoveEdgesFor adds no edge.
LEMMA RemovesEdges ==
    ASSUME NEW g \in WaitGraphs, NEW S, NoCycle(g)
    PROVE  NoCycle(RemoveEdgesFor(g, S))
<1> DEFINE h == RemoveEdgesFor(g, S)
<1>1. h \in WaitGraphs
  BY RemoveEdgesType DEF WaitGraphs
<1>2. \A t \in Txns : h[t] \subseteq g[t]
  BY DEF RemoveEdgesFor
<1> HIDE DEF h
<1>3. NoCycle(h)
  BY <1>1, <1>2, FewerEdges
<1> QED BY <1>3 DEF h

\* Without a cycle DetectAndResolveDeadlocks finds no victim and does nothing.
LEMMA DetectorIdles ==
    ASSUME TypeOK, NoCycle(graph), DetectAndResolveDeadlocks
    PROVE  UNCHANGED vars
<1>1. graph \in WaitGraphs
  BY DEF TypeOK, GraphTyped, WaitGraphs
<1>2. {t \in Txns : WouldCreateCycle(graph, t)} = {}
  BY <1>1, NoCycleFound
<1>3. Victims(graph) = {{}}
  BY <1>2 DEF Victims
<1>4. /\ aborted' = aborted
      /\ holders' = [k \in Keys |-> holders[k]]
      /\ waiters' = [k \in Keys |-> RemoveWaiter(waiters[k], {})]
      /\ graph' = [u \in Txns |-> graph[u]]
      /\ woken' = woken
      /\ UNCHANGED threadVars
  <2>1. PICK V \in Victims(graph) :
          /\ aborted' = aborted \cup V
          /\ holders' = [k \in Keys |-> {h \in holders[k] : h.txn \notin V}]
          /\ waiters' = [k \in Keys |-> RemoveWaiter(waiters[k], V)]
          /\ graph' = RemoveEdgesFor(graph, V)
          /\ woken' = woken \cup UNION {Waiting(k) : k \in
                  {j \in Keys : V \cap (HolderIds(j) \cup Waiting(j)) # {}}}
    BY DEF DetectAndResolveDeadlocks
  <2>2. V = {}
    BY <1>3
  <2>3. \A k \in Keys : {h \in holders[k] : h.txn \notin V} = holders[k]
    BY <2>2
  <2>4. {j \in Keys : V \cap (HolderIds(j) \cup Waiting(j)) # {}} = {}
    BY <2>2
  <2>5. holders' = [k \in Keys |-> holders[k]] /\ woken' = woken
    BY <2>1, <2>3, <2>4
  <2>6. graph' = [u \in Txns |-> graph[u]]
    BY <2>1, <2>2 DEF RemoveEdgesFor
  <2> QED BY <2>1, <2>2, <2>5, <2>6 DEF DetectAndResolveDeadlocks
<1>5. \A k \in Keys : RemoveWaiter(waiters[k], {}) = waiters[k]
  BY DEF RemoveWaiter
<1>6. waiters' = [k \in Keys |-> waiters[k]]
  BY <1>4, <1>5
<1>7. holders' = holders /\ waiters' = waiters /\ graph' = graph
  BY <1>4, <1>6 DEF TypeOK, LocksTyped, GraphTyped
<1> QED BY <1>4, <1>7 DEF vars, threadVars

\* The check in Acquire keeps cycles out of the graph, whatever the lock types
\* and the other entry points do, so the detector never marks a victim
\* (lock_manager.cc, WouldCreateCycle before the wait).
THEOREM NeverACycle == Spec => []GraphAcyclic
<1> DEFINE Clear == NoCycle(graph) /\ aborted = {}
<1>1. Init => Clear
  <2> SUFFICES ASSUME Init, NEW u \in Txns PROVE Reach(graph, u) \subseteq {}
    BY DEF Init, NoCycle
  <2>1. graph \in WaitGraphs /\ graph[u] = {}
    BY DEF Init, WaitGraphs
  <2> QED BY <2>1, ReachIsLeast
<1>2. TypeOK /\ Clear /\ [Next]_vars => Clear'
  <2> SUFFICES ASSUME TypeOK, NoCycle(graph), aborted = {}, [Next]_vars
               PROVE  NoCycle(graph') /\ aborted' = {}
    BY DEF NoCycle
  <2> USE DEF lockVars, graphVars, threadVars
  <2>1. graph \in WaitGraphs
    BY DEF TypeOK, GraphTyped, WaitGraphs
  <2>2. ASSUME NEW t \in Txns, NEW k \in Keys, NEW ty \in RequestTypes,
               AcquireAborted(t, k, ty)
        PROVE  NoCycle(graph') /\ aborted' = {}
    BY <2>1, <2>2, RemovesEdges DEF AcquireAborted
  <2>3. ASSUME NEW t \in Txns, NEW k \in Keys, NEW ty \in RequestTypes,
               AcquireWaits(t, k, ty)
        PROVE  NoCycle(graph') /\ aborted' = {}
    <3>1. /\ graph' = AddEdges(graph, t, HolderIds(k)) /\ UNCHANGED aborted
          /\ ~WouldCreateCycle(AddEdges(graph, t, HolderIds(k)), t)
      BY <2>3 DEF AcquireWaits, Deadlocks
    <3>2. HolderIds(k) \in SUBSET Txns
      BY IdsAreTxns DEF TypeOK
    <3> QED BY <2>1, <3>1, <3>2, MoreEdges
  <2>4. ASSUME NEW t \in Txns, LeaveWait(t) \/ TimedOut(t) \/ ReleaseGraph(t)
        PROVE  NoCycle(graph') /\ aborted' = {}
    BY <2>1, <2>4, RemovesEdges DEF LeaveWait, TimedOut, ReleaseGraph
  <2>5. CASE UNCHANGED <<graph, aborted>>
    BY <2>5
  <2>6. ASSUME NEW t \in Txns, NEW k \in Keys, NEW ty \in RequestTypes,
               AcquireGranted(t, k, ty) \/ TryAcquire(t, k, ty)
        PROVE  NoCycle(graph') /\ aborted' = {}
    BY <2>6 DEF AcquireGranted, TryAcquire
  <2>7. ASSUME NEW t \in Txns, WakeAndSleep(t) \/ ReleaseAll(t)
        PROVE  NoCycle(graph') /\ aborted' = {}
    BY <2>5, <2>7 DEF WakeAndSleep, ReleaseAll
  <2>8. ASSUME NEW t \in Txns, NEW k \in Keys, ReleaseEntry(t, k) \/ Release(t, k)
        PROVE  NoCycle(graph') /\ aborted' = {}
    BY <2>5, <2>8 DEF ReleaseEntry, Release
  <2>9. CASE DetectAndResolveDeadlocks
    BY <2>5, <2>9, DetectorIdles DEF vars
  <2>10. CASE UNCHANGED vars
    BY <2>5, <2>10 DEF vars
  <2> QED BY <2>2, <2>3, <2>4, <2>6, <2>7, <2>8, <2>9, <2>10 DEF Next
<1>3. TypeOK /\ Clear => GraphAcyclic
  BY NoCycleFound DEF GraphAcyclic, TypeOK, GraphTyped, WaitGraphs
<1> QED BY <1>1, <1>2, <1>3, TypeCorrect, PTL DEF Spec

\* So no call of the detector changes anything.
LEMMA DetectorDoesNothing ==
    ASSUME TypeOK, GraphAcyclic, DetectAndResolveDeadlocks
    PROVE  UNCHANGED vars
<1>1. NoCycle(graph)
  BY NoCycleFound DEF GraphAcyclic, TypeOK, GraphTyped, WaitGraphs
<1> QED BY <1>1, DetectorIdles

-----------------------------------------------------------------------------
(* The queues.  DetectAndResolveDeadlocks would take a victim out of its   *)
(* queue before the victim's thread knows, but it never has one.           *)

Distinct(q) == \A i, j \in DOMAIN q : q[i].txn = q[j].txn => i = j
TxnsIn(q) == {q[i].txn : i \in DOMAIN q}
ThreadsAt(k) == {t \in Txns : pc[t] = "waiting" /\ want[t].key = k}

QueuesOK ==
    \A k \in Keys : Distinct(waiters[k]) /\ TxnsIn(waiters[k]) = ThreadsAt(k)

\* RemoveWaiter takes one transaction out of a queue and leaves the others.
LEMMA RemoveWaiterLeaves ==
    ASSUME NEW q \in Seq(LockRequest), Distinct(q), NEW t
    PROVE  /\ Distinct(RemoveWaiter(q, {t}))
           /\ TxnsIn(RemoveWaiter(q, {t})) = TxnsIn(q) \ {t}
<1> DEFINE r == RemoveWaiter(q, {t})
<1>1. CASE \A i \in DOMAIN q : q[i].txn # t
  BY <1>1 DEF RemoveWaiter, TxnsIn
<1>2. CASE \E i \in DOMAIN q : q[i].txn = t
  <2>1. PICK p \in DOMAIN q : q[p].txn = t
    BY <1>2
  <2>2. DOMAIN q = 1 .. Len(q) /\ Len(q) \in Nat
    OBVIOUS
  <2>3. DOMAIN r = 1 .. Len(q) - 1
    BY <1>2 DEF RemoveWaiter
  <2>4. ASSUME NEW i \in 1 .. Len(q) - 1
        PROVE  r[i] = IF p <= i THEN q[i + 1] ELSE q[i]
    <3>1. (\E j \in 1 .. i : q[j].txn \in {t}) <=> p <= i
      BY <2>1, <2>2 DEF Distinct
    <3> QED BY <1>2, <3>1 DEF RemoveWaiter
  <2> HIDE DEF r
  <2>5. Distinct(r)
    <3> SUFFICES ASSUME NEW i \in 1 .. Len(q) - 1, NEW j \in 1 .. Len(q) - 1,
                        r[i].txn = r[j].txn
                 PROVE  i = j
      BY <2>3 DEF Distinct
    <3> QED BY <2>1, <2>2, <2>4 DEF Distinct
  <2>6. ASSUME NEW i \in 1 .. Len(q) - 1
        PROVE  r[i].txn \in TxnsIn(q) \ {t}
    BY <2>1, <2>2, <2>4 DEF Distinct, TxnsIn
  <2>7. ASSUME NEW i \in DOMAIN q, q[i].txn # t
        PROVE  q[i].txn \in TxnsIn(r)
    <3>1. CASE i < p
      <4>1. i \in 1 .. Len(q) - 1 /\ r[i] = q[i]
        BY <2>1, <2>2, <2>4, <3>1
      <4> QED BY <2>3, <4>1 DEF TxnsIn
    <3>2. CASE p < i
      <4>1. i - 1 \in 1 .. Len(q) - 1 /\ r[i - 1] = q[i]
        BY <2>1, <2>2, <2>4, <3>2
      <4> QED BY <2>3, <4>1 DEF TxnsIn
    <3> QED BY <2>1, <2>2, <2>7, <3>1, <3>2
  <2>8. TxnsIn(r) = TxnsIn(q) \ {t}
    BY <2>3, <2>6, <2>7 DEF TxnsIn
  <2> QED BY <2>5, <2>8 DEF r
<1> QED BY <1>1, <1>2

\* A queue without doubles is as long as its set of transactions is large.
LEMMA DistinctCounts ==
    ASSUME NEW q \in Seq(LockRequest), Distinct(q)
    PROVE  Cardinality(TxnsIn(q)) = Len(q)
<1> DEFINE f == [i \in 1 .. Len(q) |-> q[i].txn]
<1>1. f \in Bijection(1 .. Len(q), TxnsIn(q))
  <2>1. f \in [1 .. Len(q) -> TxnsIn(q)]
    BY DEF TxnsIn
  <2>2. \A a, b \in 1 .. Len(q) : f[a] = f[b] => a = b
    BY DEF Distinct
  <2>3. \A t \in TxnsIn(q) : \E i \in 1 .. Len(q) : f[i] = t
    BY DEF TxnsIn
  <2> QED BY <2>1, <2>2, <2>3, Fun_IsBij
<1>2. IsFiniteSet(1 .. Len(q)) /\ Cardinality(1 .. Len(q)) = Len(q)
  <2>1. Len(q) \in Nat /\ 1 \in Int /\ Len(q) \in Int
    OBVIOUS
  <2> HIDE DEF f
  <2>2. /\ IsFiniteSet(1 .. Len(q))
        /\ Cardinality(1 .. Len(q)) = IF 1 > Len(q) THEN 0 ELSE Len(q) - 1 + 1
    BY <2>1, FS_Interval
  <2> QED BY <2>1, <2>2
<1> QED BY <1>1, <1>2, FS_Bijection DEF ExistsBijection

\* A step that touches no queue and moves no thread to or from one.
LEMMA QueuesStay ==
    ASSUME QueuesOK, UNCHANGED waiters,
           \A t \in Txns : /\ pc'[t] = "waiting" <=> pc[t] = "waiting"
                           /\ pc[t] = "waiting" => want'[t] = want[t]
    PROVE  QueuesOK'
<1>1. \A k \in Keys : ThreadsAt(k)' = ThreadsAt(k)
  BY DEF ThreadsAt
<1> QED BY <1>1 DEF QueuesOK

\* A thread that leaves its wait takes its request with it.
LEMMA LeavesQueue ==
    ASSUME TypeOK, QueuesOK, NEW t \in Txns, pc[t] = "waiting",
           NEW s, Return(t, s),
           waiters' = [waiters EXCEPT ![want[t].key] = RemoveWaiter(@, {t})]
    PROVE  QueuesOK'
<1> SUFFICES ASSUME NEW k \in Keys
             PROVE  Distinct(waiters'[k]) /\ TxnsIn(waiters'[k]) = ThreadsAt(k)'
  BY DEF QueuesOK
<1>1. pc' = [pc EXCEPT ![t] = "idle"] /\ want' = [want EXCEPT ![t] = NoWish]
  BY DEF Return
<1>2. pc \in [Txns -> {"idle", "waiting", "releasing"}] /\ DOMAIN want = Txns
      /\ waiters \in [Keys -> Seq(LockRequest)]
  BY DEF TypeOK, ThreadsTyped, LocksTyped
<1>3. ThreadsAt(k)' = ThreadsAt(k) \ {t}
  BY <1>1, <1>2 DEF ThreadsAt
<1>4. Distinct(waiters[k]) /\ TxnsIn(waiters[k]) = ThreadsAt(k)
  BY DEF QueuesOK
<1>5. CASE k = want[t].key
  <2>1. waiters'[k] = RemoveWaiter(waiters[k], {t})
    BY <1>2, <1>5
  <2> QED BY <1>2, <1>3, <1>4, <2>1, RemoveWaiterLeaves
<1>6. CASE k # want[t].key
  <2>1. waiters'[k] = waiters[k] /\ t \notin ThreadsAt(k)
    BY <1>2, <1>6 DEF ThreadsAt
  <2> QED BY <1>3, <1>4, <2>1
<1> QED BY <1>5, <1>6

\* A request goes to the end of the queue, by a thread that waited nowhere.
LEMMA JoinsQueue ==
    ASSUME TypeOK, QueuesOK, NEW t \in Txns, NEW j \in Keys, NEW ty \in RequestTypes,
           AcquireWaits(t, j, ty)
    PROVE  QueuesOK'
<1> SUFFICES ASSUME NEW k \in Keys
             PROVE  Distinct(waiters'[k]) /\ TxnsIn(waiters'[k]) = ThreadsAt(k)'
  BY DEF QueuesOK, AcquireWaits
<1>1. /\ pc[t] = "idle" /\ pc' = [pc EXCEPT ![t] = "waiting"]
      /\ want' = [want EXCEPT ![t] = [key |-> j, type |-> ty]]
      /\ waiters' = [waiters EXCEPT ![j] = Append(@, Request(t, ty))]
  BY DEF AcquireWaits, Calls
<1>2. /\ pc \in [Txns -> {"idle", "waiting", "releasing"}] /\ DOMAIN want = Txns
      /\ waiters \in [Keys -> Seq(LockRequest)]
  BY DEF TypeOK, ThreadsTyped, LocksTyped
<1>3. Distinct(waiters[k]) /\ TxnsIn(waiters[k]) = ThreadsAt(k) /\ t \notin ThreadsAt(k)
  BY <1>1 DEF QueuesOK, ThreadsAt
<1>4. CASE k = j
  <2>1. ThreadsAt(k)' = ThreadsAt(k) \cup {t}
    BY <1>1, <1>2, <1>4 DEF ThreadsAt
  <2>2. waiters'[k] = Append(waiters[k], Request(t, ty)) /\ waiters[k] \in Seq(LockRequest)
    BY <1>1, <1>2, <1>4
  <2>3. Request(t, ty).txn = t
    BY DEF Request
  <2> DEFINE q == waiters[k]
             a == Append(q, Request(t, ty))
             n == Len(q)
  <2>4. /\ n \in Nat /\ DOMAIN q = 1 .. n /\ DOMAIN a = 1 .. n + 1
        /\ a[n + 1] = Request(t, ty) /\ \A i \in 1 .. n : a[i] = q[i]
    BY <2>2
  <2>5. \A i \in 1 .. n : q[i].txn # t
    BY <1>3, <2>4 DEF TxnsIn
  <2> HIDE DEF q, a, n
  <2>6. Distinct(a)
    <3> SUFFICES ASSUME NEW x \in 1 .. n + 1, NEW y \in 1 .. n + 1, a[x].txn = a[y].txn
                 PROVE  x = y
      BY <2>4 DEF Distinct
    <3>1. CASE x \in 1 .. n /\ y \in 1 .. n
      BY <1>3, <2>4, <3>1 DEF Distinct, q
    <3>2. CASE ~(x \in 1 .. n /\ y \in 1 .. n)
      BY <2>3, <2>4, <2>5, <3>2
    <3> QED BY <3>1, <3>2
  <2>7. TxnsIn(a) = TxnsIn(q) \cup {t}
    <3>1. TxnsIn(a) \subseteq TxnsIn(q) \cup {t}
      BY <2>3, <2>4 DEF TxnsIn
    <3>2. \A i \in 1 .. n : i \in 1 .. n + 1
      BY <2>4
    <3>3. TxnsIn(q) \subseteq TxnsIn(a)
      BY <2>4, <3>2 DEF TxnsIn
    <3>4. t \in TxnsIn(a)
      BY <2>3, <2>4 DEF TxnsIn
    <3> QED BY <3>1, <3>3, <3>4
  <2> QED BY <1>3, <2>1, <2>2, <2>6, <2>7 DEF q, a
<1>5. CASE k # j
  BY <1>1, <1>2, <1>3, <1>5 DEF ThreadsAt
<1> QED BY <1>4, <1>5

\* The invariant of the queues.
THEOREM QueuesKept == Spec => []QueuesOK
<1>1. Init => QueuesOK
  <2> SUFFICES ASSUME Init, NEW k \in Keys
               PROVE  Distinct(waiters[k]) /\ TxnsIn(waiters[k]) = ThreadsAt(k)
    BY DEF Init, QueuesOK
  <2>1. waiters[k] = <<>> /\ \A t \in Txns : pc[t] = "idle"
    BY DEF Init
  <2> QED BY <2>1 DEF Distinct, TxnsIn, ThreadsAt
<1>2. TypeOK /\ GraphAcyclic /\ QueuesOK /\ [Next]_vars => QueuesOK'
  <2> SUFFICES ASSUME TypeOK, GraphAcyclic, QueuesOK, [Next]_vars PROVE QueuesOK'
    OBVIOUS
  <2> USE DEF lockVars, graphVars, threadVars
  <2>1. pc \in [Txns -> {"idle", "waiting", "releasing"}] /\ DOMAIN want = Txns
    BY DEF TypeOK, ThreadsTyped
  <2>2. ASSUME NEW t \in Txns, NEW k \in Keys, NEW ty \in RequestTypes,
               AcquireGranted(t, k, ty) \/ AcquireAborted(t, k, ty) \/ TryAcquire(t, k, ty)
        PROVE  QueuesOK'
    <3>1. pc[t] = "idle" /\ UNCHANGED waiters
          /\ \E s : Return(t, s)
      BY <2>1, <2>2 DEF AcquireGranted, AcquireAborted, TryAcquire, Calls
    <3> QED BY <2>1, <3>1, QueuesStay DEF Return
  <2>3. ASSUME NEW t \in Txns, NEW k \in Keys, NEW ty \in RequestTypes, AcquireWaits(t, k, ty)
        PROVE  QueuesOK'
    BY <2>3, JoinsQueue
  <2>4. ASSUME NEW t \in Txns, LeaveWait(t) \/ TimedOut(t) PROVE QueuesOK'
    <3>1. /\ pc[t] = "waiting" /\ \E s : Return(t, s)
          /\ waiters' = [waiters EXCEPT ![want[t].key] = RemoveWaiter(@, {t})]
      BY <2>1, <2>4 DEF LeaveWait, TimedOut
    <3> QED BY <3>1, LeavesQueue
  <2>5. ASSUME NEW t \in Txns, WakeAndSleep(t) \/ ReleaseAll(t) PROVE QueuesOK'
    BY <2>1, <2>5, QueuesStay DEF WakeAndSleep, ReleaseAll
  <2>6. ASSUME NEW t \in Txns, ReleaseGraph(t) PROVE QueuesOK'
    BY <2>1, <2>6, QueuesStay DEF ReleaseGraph, Return
  <2>7. ASSUME NEW t \in Txns, NEW k \in Keys, ReleaseEntry(t, k) \/ Release(t, k)
        PROVE  QueuesOK'
    BY <2>1, <2>7, QueuesStay DEF ReleaseEntry, Release
  <2>8. CASE UNCHANGED vars
    BY <2>1, <2>8, QueuesStay DEF vars
  <2> QED BY <2>2, <2>3, <2>4, <2>5, <2>6, <2>7, <2>8, DetectorDoesNothing DEF Next
<1> QED BY <1>1, <1>2, TypeCorrect, NeverACycle, PTL DEF Spec

\* A queue holds exactly the threads that wait in Acquire for its key, each
\* once: RemoveWaiter is called on every way out of the wait.
THEOREM QueuesHaveNoGhosts == Spec => []NoGhostWaiters
<1>1. TypeOK /\ QueuesOK => NoGhostWaiters
  <2> SUFFICES ASSUME TypeOK, QueuesOK, NEW k \in Keys
               PROVE  /\ Waiting(k) = ThreadsAt(k)
                      /\ Cardinality(Waiting(k)) = Len(waiters[k])
    BY DEF NoGhostWaiters, ThreadsAt
  <2>1. waiters[k] \in Seq(LockRequest) /\ Waiting(k) = TxnsIn(waiters[k])
    BY DEF TypeOK, LocksTyped, Waiting, TxnsIn
  <2> QED BY <2>1, DistinctCounts DEF QueuesOK
<1> QED BY <1>1, QueuesKept, TypeCorrect, PTL

\* No edge of the wait-for graph outlives its reason: LeaveWait, the time-out,
\* the refusal and ReleaseAll remove the edges of their transaction.
THEOREM EdgesHaveReasons ==
    ASSUME "Release" \notin Api
    PROVE  Spec => []NoStaleEdges
<1>1. Init => NoStaleEdges
  BY DEF Init, NoStaleEdges
<1>2. TypeOK /\ GraphAcyclic /\ NoStaleEdges /\ [Next]_vars => NoStaleEdges'
  <2> SUFFICES ASSUME TypeOK, GraphAcyclic, NoStaleEdges, [Next]_vars,
                      NEW t \in Txns, NEW u \in graph'[t]
               PROVE  /\ pc'[t] = "waiting"
                      /\ \/ \E h \in holders'[want'[t].key] : h.txn = u
                         \/ pc'[u] = "releasing"
    BY DEF NoStaleEdges, HolderIds
  <2> USE DEF lockVars, graphVars, threadVars
  <2> DEFINE Reason == /\ pc'[t] = "waiting"
                       /\ \/ \E h \in holders'[want'[t].key] : h.txn = u
                          \/ pc'[u] = "releasing"
             Stands == \A k \in Keys : \A h \in holders[k] :
                           h.txn = u => h \in holders'[k] \/ pc'[u] = "releasing"
  <2>1. /\ aborted = {} /\ graph \in [Txns -> SUBSET Txns] /\ DOMAIN want = Txns
        /\ pc \in [Txns -> {"idle", "waiting", "releasing"}]
        /\ \A x \in Txns : pc[x] = "waiting" => want[x].key \in Keys
        /\ holders \in [Keys -> SUBSET LockRequest]
    BY WishType DEF GraphAcyclic, TypeOK, GraphTyped, ThreadsTyped, LocksTyped
  \* The edge was there, its thread waits on, and its holder has not let go.
  <2>2. ASSUME u \in graph[t], pc'[t] = pc[t], want'[t] = want[t], Stands,
               pc[u] = "releasing" => pc'[u] = "releasing"
        PROVE  Reason
    <3>1. /\ pc[t] = "waiting" /\ want[t].key \in Keys
          /\ (\E h \in holders[want[t].key] : h.txn = u) \/ pc[u] = "releasing"
      BY <2>1, <2>2 DEF NoStaleEdges, HolderIds
    <3> QED BY <2>2, <3>1
  <2>3. ASSUME u \in graph[t] PROVE pc[t] = "waiting" /\ u \in Txns
    BY <2>1, <2>3 DEF NoStaleEdges
  <2>4. ASSUME NEW k \in Keys, NEW x \in Txns, NEW ty, Hold(x, k, ty) PROVE Stands
    BY <2>1, <2>4 DEF Hold
  <2>5. UNCHANGED holders => Stands
    OBVIOUS
  <2> HIDE DEF Reason, Stands
  <2>6. ASSUME NEW x \in Txns, NEW k \in Keys, NEW ty \in RequestTypes,
               AcquireGranted(x, k, ty) \/ TryAcquire(x, k, ty)
        PROVE  Reason
    <3>1. u \in graph[t] /\ pc[x] = "idle" /\ Stands
          /\ \E s : Return(x, s)
      BY <2>4, <2>5, <2>6 DEF AcquireGranted, TryAcquire, Calls
    <3> QED BY <2>1, <2>2, <2>3, <3>1 DEF Return
  <2>7. ASSUME NEW x \in Txns, NEW k \in Keys, NEW ty \in RequestTypes,
               AcquireAborted(x, k, ty)
        PROVE  Reason
    <3>1. /\ u \in graph[t] /\ u # x /\ t # x
          /\ pc[x] = "idle" /\ Stands /\ \E s : Return(x, s)
      BY <2>1, <2>5, <2>7 DEF AcquireAborted, Calls, RemoveEdgesFor
    <3> QED BY <2>1, <2>2, <2>3, <3>1 DEF Return
  <2>8. ASSUME NEW x \in Txns, NEW k \in Keys, NEW ty \in RequestTypes,
               AcquireWaits(x, k, ty)
        PROVE  Reason
    <3>1. /\ pc[x] = "idle" /\ pc' = [pc EXCEPT ![x] = "waiting"]
          /\ want' = [want EXCEPT ![x] = [key |-> k, type |-> ty]]
          /\ graph' = [graph EXCEPT ![x] = @ \cup HolderIds(k)] /\ UNCHANGED holders
      BY <2>8 DEF AcquireWaits, Calls, AddEdges
    <3>2. CASE u \in graph[t]
      BY <2>1, <2>2, <2>3, <2>5, <3>1, <3>2
    <3>3. CASE u \notin graph[t]
      <4>1. t = x /\ \E h \in holders[k] : h.txn = u
        BY <2>1, <3>1, <3>3 DEF HolderIds
      <4>2. pc'[t] = "waiting" /\ want'[t].key = k /\ holders'[k] = holders[k]
        BY <2>1, <3>1, <4>1
      <4> QED BY <4>1, <4>2 DEF Reason
    <3> QED BY <3>2, <3>3
  <2>9. ASSUME NEW x \in Txns, LeaveWait(x) \/ TimedOut(x) PROVE Reason
    <3>1. /\ u \in graph[t] /\ u # x /\ t # x /\ pc[x] = "waiting"
          /\ \E s : Return(x, s)
      BY <2>1, <2>9 DEF LeaveWait, TimedOut, RemoveEdgesFor
    <3>2. Stands
      BY <2>1, <2>4, <2>5, <2>9, <3>1 DEF LeaveWait, TimedOut
    <3> QED BY <2>1, <2>2, <2>3, <3>1, <3>2 DEF Return
  <2>10. ASSUME NEW x \in Txns, ReleaseGraph(x) PROVE Reason
    <3>1. /\ u \in graph[t] /\ u # x /\ t # x /\ pc[x] = "releasing" /\ Return(x, "none")
      BY <2>1, <2>10 DEF ReleaseGraph, RemoveEdgesFor
    <3> QED BY <2>1, <2>2, <2>3, <2>5, <2>10, <3>1 DEF ReleaseGraph, Return
  <2>11. ASSUME NEW x \in Txns, WakeAndSleep(x) \/ ReleaseAll(x) PROVE Reason
    <3>1. u \in graph[t]
      BY <2>11 DEF WakeAndSleep, ReleaseAll
    <3> QED BY <2>1, <2>2, <2>3, <2>5, <2>11, <3>1 DEF WakeAndSleep, ReleaseAll
  <2>12. ASSUME NEW x \in Txns, NEW k \in Keys, ReleaseEntry(x, k) PROVE Reason
    <3>1. Stands
      BY <2>1, <2>12 DEF ReleaseEntry, DropHolder, Stands
    <3> QED BY <2>2, <2>12, <3>1 DEF ReleaseEntry
  <2>13. ASSUME UNCHANGED vars PROVE Reason
    BY <2>2, <2>5, <2>13 DEF vars
  <2>14. Reason
    BY <2>6, <2>7, <2>8, <2>9, <2>10, <2>11, <2>12, <2>13, DetectorDoesNothing
       DEF Next, Release
  <2> QED BY <2>14 DEF Reason
<1> QED BY <1>1, <1>2, NeverACycle, TypeCorrect, PTL DEF Spec

-----------------------------------------------------------------------------
(* No release is slept through, while only exclusive locks are asked for.  *)

OnlyExclusive ==
    /\ \A k \in Keys : \A h \in holders[k] : h.type = "X"
    /\ \A k \in Keys : \A i \in DOMAIN waiters[k] : waiters[k][i].type = "X"
    /\ \A t \in Txns : pc[t] = "waiting" => want[t].type = "X"

NotOnItself == \A t \in Txns : pc[t] = "waiting" => t \notin HolderIds(want[t].key)

HeadIsWoken ==
    \A k \in Keys : holders[k] = {} => \A r \in Front(k) : r.txn \in woken

\* What RemoveWaiter leaves was in the queue, and another transaction's
\* request at the head stays there.
LEMMA RemoveWaiterKeeps ==
    ASSUME NEW q \in Seq(LockRequest), NEW S
    PROVE  LET r == RemoveWaiter(q, S)
           IN  /\ \A i \in DOMAIN r : \E j \in DOMAIN q : r[i] = q[j]
               /\ \A i \in DOMAIN r \cap {1} :
                    1 \in DOMAIN q /\ (q[1].txn \notin S => r[i] = q[1])
<1> DEFINE r == RemoveWaiter(q, S)
<1>1. CASE \A i \in DOMAIN q : q[i].txn \notin S
  BY <1>1 DEF RemoveWaiter
<1>2. CASE ~ \A i \in DOMAIN q : q[i].txn \notin S
  <2>1. DOMAIN q = 1 .. Len(q) /\ Len(q) \in Nat
    OBVIOUS
  <2>2. r = [i \in 1 .. Len(q) - 1 |->
                IF \E j \in 1 .. i : q[j].txn \in S THEN q[i + 1] ELSE q[i]]
    BY <1>2 DEF RemoveWaiter
  <2>3. DOMAIN r = 1 .. Len(q) - 1
    BY <2>2
  <2>4. \A i \in 1 .. Len(q) - 1 : r[i] = q[i + 1] \/ r[i] = q[i]
    BY <2>2
  <2>5. \A i \in 1 .. Len(q) - 1 : i \in DOMAIN q /\ i + 1 \in DOMAIN q
    BY <2>1
  <2>6. ASSUME 1 \in DOMAIN r, q[1].txn \notin S PROVE r[1] = q[1]
    <3>1. ~ \E j \in 1 .. 1 : q[j].txn \in S
      BY <2>6
    <3> QED BY <2>2, <2>3, <2>6, <3>1
  <2> HIDE DEF r
  <2> QED BY <2>3, <2>4, <2>5, <2>6 DEF r
<1> QED BY <1>1, <1>2

\* Every lock that is held, queued for or wished for is exclusive.
LEMMA ExclusiveStep ==
    ASSUME "S" \notin RequestTypes, TypeOK, GraphAcyclic, OnlyExclusive, [Next]_vars
    PROVE  OnlyExclusive'
<1> USE DEF lockVars, graphVars, threadVars
<1>1. /\ \A ty \in RequestTypes : ty = "X"
      /\ \A t, ty : Request(t, ty).type = ty
  BY TypesAssumption DEF LockType, Request
<1>2. /\ holders \in [Keys -> SUBSET LockRequest] /\ waiters \in [Keys -> Seq(LockRequest)]
      /\ pc \in [Txns -> {"idle", "waiting", "releasing"}] /\ DOMAIN want = Txns
      /\ aborted = {}
  BY DEF GraphAcyclic, TypeOK, LocksTyped, ThreadsTyped
<1>3. ASSUME NEW t \in Txns, NEW k, Hold(t, k, "X")
      PROVE  \A j \in Keys : \A h \in holders'[j] : h.type = "X"
  BY <1>1, <1>2, <1>3 DEF Hold, OnlyExclusive
<1>4. ASSUME NEW t \in Txns, NEW s, Return(t, s)
      PROVE  \A u \in Txns : pc'[u] = "waiting" => want'[u].type = "X"
  BY <1>2, <1>4 DEF Return, OnlyExclusive
<1>5. CASE UNCHANGED <<holders, waiters, pc, want>>
  BY <1>5 DEF OnlyExclusive
<1>6. ASSUME NEW t \in Txns, NEW k \in Keys, NEW ty \in RequestTypes,
             AcquireGranted(t, k, ty) \/ AcquireAborted(t, k, ty) \/ TryAcquire(t, k, ty)
      PROVE  OnlyExclusive'
  <2>1. UNCHANGED waiters /\ \E s : Return(t, s)
    BY <1>6 DEF AcquireGranted, AcquireAborted, TryAcquire
  <2>2. UNCHANGED holders \/ Hold(t, k, "X")
    BY <1>1, <1>6 DEF AcquireGranted, AcquireAborted, TryAcquire
  <2>3. \A j \in Keys : \A h \in holders'[j] : h.type = "X"
    BY <1>3, <2>2 DEF OnlyExclusive
  <2> QED BY <1>4, <2>1, <2>3 DEF OnlyExclusive
<1>7. ASSUME NEW t \in Txns, NEW k \in Keys, NEW ty \in RequestTypes,
             AcquireWaits(t, k, ty)
      PROVE  OnlyExclusive'
  <2>1. /\ waiters' = [waiters EXCEPT ![k] = Append(@, Request(t, ty))]
        /\ want' = [want EXCEPT ![t] = [key |-> k, type |-> ty]]
        /\ pc' = [pc EXCEPT ![t] = "waiting"] /\ UNCHANGED holders
    BY <1>7 DEF AcquireWaits
  <2>2. \A u \in Txns : pc'[u] = "waiting" => want'[u].type = "X"
    BY <1>1, <1>2, <2>1 DEF OnlyExclusive
  <2>3. ASSUME NEW j \in Keys, NEW i \in DOMAIN waiters'[j]
        PROVE  waiters'[j][i].type = "X"
    <3>1. waiters[j] \in Seq(LockRequest) /\ \A x \in DOMAIN waiters[j] : waiters[j][x].type = "X"
      BY <1>2 DEF OnlyExclusive
    <3>2. CASE j = k
      <4>1. waiters'[j] = Append(waiters[j], Request(t, ty))
        BY <1>2, <2>1, <3>2
      <4>2. \A q \in Seq(LockRequest) : \A r : \A x \in DOMAIN Append(q, r) :
                Append(q, r)[x] = r \/ (x \in DOMAIN q /\ Append(q, r)[x] = q[x])
        OBVIOUS
      <4> QED BY <1>1, <2>3, <3>1, <4>1, <4>2
    <3>3. CASE j # k
      BY <1>2, <2>1, <2>3, <3>1, <3>3
    <3> QED BY <3>2, <3>3
  <2> QED BY <2>1, <2>2, <2>3 DEF OnlyExclusive
<1>8. ASSUME NEW t \in Txns, LeaveWait(t) \/ TimedOut(t) PROVE OnlyExclusive'
  <2>1. /\ pc[t] = "waiting" /\ \E s : Return(t, s)
        /\ waiters' = [waiters EXCEPT ![want[t].key] = RemoveWaiter(@, {t})]
        /\ UNCHANGED holders \/ Hold(t, want[t].key, want[t].type)
    BY <1>8 DEF LeaveWait, TimedOut
  <2>2. want[t].type = "X"
    BY <2>1 DEF OnlyExclusive
  <2>3. \A j \in Keys : \A h \in holders'[j] : h.type = "X"
    BY <1>3, <2>1, <2>2 DEF OnlyExclusive
  <2>4. ASSUME NEW j \in Keys, NEW i \in DOMAIN waiters'[j]
        PROVE  waiters'[j][i].type = "X"
    <3>1. /\ waiters[j] \in Seq(LockRequest)
          /\ waiters'[j] = waiters[j] \/ waiters'[j] = RemoveWaiter(waiters[j], {t})
      BY <1>2, <2>1
    <3>2. PICK x \in DOMAIN waiters[j] : waiters'[j][i] = waiters[j][x]
      BY <2>4, <3>1, RemoveWaiterKeeps
    <3> QED BY <3>2 DEF OnlyExclusive
  <2> QED BY <1>4, <2>1, <2>3, <2>4 DEF OnlyExclusive
<1>9. ASSUME NEW t \in Txns, WakeAndSleep(t) \/ ReleaseAll(t) \/ ReleaseGraph(t)
      PROVE  OnlyExclusive'
  <2>1. UNCHANGED lockVars
        /\ \A u \in Txns : pc'[u] = "waiting" => pc[u] = "waiting" /\ want'[u] = want[u]
    BY <1>2, <1>9 DEF WakeAndSleep, ReleaseAll, ReleaseGraph, Return
  <2> QED BY <2>1 DEF OnlyExclusive
<1>10. ASSUME NEW t \in Txns, NEW k \in Keys, ReleaseEntry(t, k) \/ Release(t, k)
       PROVE  OnlyExclusive'
  <2>1. UNCHANGED <<waiters, pc, want>> /\ \A j \in Keys : holders'[j] \subseteq holders[j]
    BY <1>2, <1>10 DEF ReleaseEntry, Release, DropHolder
  <2> QED BY <2>1 DEF OnlyExclusive
<1>11. CASE DetectAndResolveDeadlocks \/ UNCHANGED vars
  BY <1>5, <1>11, DetectorDoesNothing DEF vars
<1> QED BY <1>6, <1>7, <1>8, <1>9, <1>10, <1>11 DEF Next

\* A transaction never waits for a lock of a key it holds: its own edge would
\* be the cycle that refuses the request.
LEMMA NotOnItselfStep ==
    ASSUME TypeOK, GraphAcyclic, NotOnItself, [Next]_vars
    PROVE  NotOnItself'
<1> USE DEF lockVars, graphVars, threadVars
<1>1. /\ holders \in [Keys -> SUBSET LockRequest] /\ DOMAIN want = Txns
      /\ pc \in [Txns -> {"idle", "waiting", "releasing"}]
      /\ \A t \in Txns : pc[t] = "waiting" => want[t].key \in Keys
  BY WishType DEF TypeOK, LocksTyped, ThreadsTyped
\* A thread that goes on waiting sees no holder come but another thread's.
<1>2. ASSUME \A u \in Txns : pc'[u] = "waiting" =>
                /\ pc[u] = "waiting" /\ want'[u] = want[u]
                /\ \A k \in Keys : \A h \in holders'[k] : h.txn = u => h \in holders[k]
      PROVE  NotOnItself'
  BY <1>1, <1>2 DEF NotOnItself, HolderIds
<1>3. ASSUME NEW t \in Txns, NEW s, Return(t, s),
             UNCHANGED holders \/ \E k, ty : Hold(t, k, ty)
      PROVE  NotOnItself'
  <2>1. \A u \in Txns : pc'[u] = "waiting" => u # t /\ pc[u] = "waiting" /\ want'[u] = want[u]
    BY <1>1, <1>3 DEF Return
  <2>2. \A k \in Keys : \A h \in holders'[k] : h.txn = t \/ h \in holders[k]
    BY <1>1, <1>3 DEF Hold, Request
  <2> QED BY <1>2, <2>1, <2>2
<1>4. ASSUME NEW t \in Txns, NEW k \in Keys, NEW ty \in RequestTypes,
             AcquireGranted(t, k, ty) \/ AcquireAborted(t, k, ty) \/ TryAcquire(t, k, ty)
      PROVE  NotOnItself'
  <2>1. \E s : Return(t, s)
    BY <1>4 DEF AcquireGranted, AcquireAborted, TryAcquire
  <2>2. UNCHANGED holders \/ Hold(t, k, ty)
    BY <1>4 DEF AcquireGranted, AcquireAborted, TryAcquire
  <2> QED BY <1>3, <2>1, <2>2
<1>5. ASSUME NEW t \in Txns, LeaveWait(t) \/ TimedOut(t) \/ ReleaseGraph(t)
      PROVE  NotOnItself'
  <2>1. \E s : Return(t, s)
    BY <1>5 DEF LeaveWait, TimedOut, ReleaseGraph
  <2>2. UNCHANGED holders \/ Hold(t, want[t].key, want[t].type)
    BY <1>5 DEF LeaveWait, TimedOut, ReleaseGraph
  <2> QED BY <1>3, <2>1, <2>2
<1>6. ASSUME NEW t \in Txns, NEW k \in Keys, NEW ty \in RequestTypes,
             AcquireWaits(t, k, ty)
      PROVE  NotOnItself'
  <2>1. /\ pc' = [pc EXCEPT ![t] = "waiting"] /\ UNCHANGED holders
        /\ want' = [want EXCEPT ![t] = [key |-> k, type |-> ty]]
        /\ ~WouldCreateCycle(AddEdges(graph, t, HolderIds(k)), t)
    BY <1>6 DEF AcquireWaits, Deadlocks
  <2>2. t \notin HolderIds(k)
    <3> DEFINE g == AddEdges(graph, t, HolderIds(k))
    <3>1. g \in WaitGraphs /\ g[t] = graph[t] \cup HolderIds(k)
      BY IdsAreTxns DEF AddEdges, WaitGraphs, TypeOK, GraphTyped
    <3> HIDE DEF g
    <3>2. g[t] \subseteq Reach(g, t)
      BY <3>1, ReachIsClosed
    <3>3. t \notin Reach(g, t)
      BY <2>1 DEF WouldCreateCycle, g
    <3> QED BY <3>1, <3>2, <3>3
  <2> QED BY <1>1, <2>1, <2>2 DEF NotOnItself, HolderIds
<1>7. ASSUME NEW t \in Txns, WakeAndSleep(t) \/ ReleaseAll(t) PROVE NotOnItself'
  BY <1>1, <1>2, <1>7 DEF WakeAndSleep, ReleaseAll
<1>8. ASSUME NEW t \in Txns, NEW k \in Keys, ReleaseEntry(t, k) \/ Release(t, k)
      PROVE  NotOnItself'
  <2>1. UNCHANGED <<pc, want>> /\ \A j \in Keys : holders'[j] \subseteq holders[j]
    BY <1>1, <1>8 DEF ReleaseEntry, Release, DropHolder
  <2> QED BY <1>2, <2>1
<1>9. CASE DetectAndResolveDeadlocks \/ UNCHANGED vars
  BY <1>2, <1>9, DetectorDoesNothing DEF vars
<1> QED BY <1>4, <1>5, <1>6, <1>7, <1>8, <1>9 DEF Next

\* The request at the head of a free key's queue could be granted.
LEMMA HeadMayGoOn ==
    ASSUME TypeOK, QueuesOK, OnlyExclusive, NEW t \in Txns, pc[t] = "waiting",
           holders[want[t].key] = {}, NEW r \in Front(want[t].key), r.txn = t
    PROVE  MayGoOn(t)
<1> DEFINE k == want[t].key
<1>1. k \in Keys /\ want[t].type = "X"
  BY WishType DEF TypeOK, OnlyExclusive
<1>2. waiters[k] \in Seq(LockRequest)
  BY <1>1 DEF TypeOK, LocksTyped
<1>3. 1 \in DOMAIN waiters[k] /\ Front(k) = {waiters[k][1]} /\ r = waiters[k][1]
  BY DEF Front
<1>4. r.type = "X" /\ r \in LockRequest
  BY <1>1, <1>2, <1>3 DEF OnlyExclusive
<1>5. r = Request(t, "X")
  BY <1>4 DEF LockRequest, Request
<1> QED BY <1>1, <1>3, <1>5 DEF MayGoOn, CanGrant

\* A step that changes no queue, wakes whom it should and frees no key silently.
LEMMA HeadStays ==
    ASSUME HeadIsWoken, UNCHANGED waiters,
           \A k \in Keys : holders'[k] = {} =>
               \/ holders[k] = {} /\ \A r \in Front(k) : r.txn \in woken => r.txn \in woken'
               \/ \A r \in Front(k) : r.txn \in woken'
    PROVE  HeadIsWoken'
<1>1. \A k \in Keys : Front(k)' = Front(k)
  BY DEF Front
<1> QED BY <1>1 DEF HeadIsWoken

\* Whoever is at the head of a free key's queue has been notified, after every
\* way a key becomes free and every way a queue gets a new head.
LEMMA HeadStep ==
    ASSUME "S" \notin RequestTypes, TypeOK, GraphAcyclic, QueuesOK,
           OnlyExclusive, NotOnItself, HeadIsWoken, [Next]_vars
    PROVE  HeadIsWoken'
<1> USE DEF lockVars, graphVars, threadVars
<1>1. /\ holders \in [Keys -> SUBSET LockRequest] /\ waiters \in [Keys -> Seq(LockRequest)]
      /\ \A t \in Txns : pc[t] = "waiting" => want[t].key \in Keys
      /\ aborted = {}
  BY WishType DEF GraphAcyclic, TypeOK, LocksTyped
<1>2. \A k \in Keys : \A r \in Front(k) : r.txn \in Waiting(k)
  BY DEF Front, Waiting
<1>3. \A k \in Keys : \A r \in Front(k) :
        r.txn \in Txns /\ pc[r.txn] = "waiting" /\ want[r.txn].key = k
  <2>1. \A k \in Keys : Waiting(k) = ThreadsAt(k)
    BY DEF QueuesOK, Waiting, TxnsIn
  <2> QED BY <1>2, <2>1 DEF ThreadsAt
<1>4. ASSUME NEW t \in Txns, NEW k \in Keys, NEW ty \in RequestTypes,
             AcquireGranted(t, k, ty) \/ AcquireAborted(t, k, ty) \/ TryAcquire(t, k, ty)
      PROVE  HeadIsWoken'
  <2>1. UNCHANGED <<waiters, woken>> /\ (UNCHANGED holders \/ Hold(t, k, ty))
    BY <1>4 DEF AcquireGranted, AcquireAborted, TryAcquire
  <2>2. \A j \in Keys : holders[j] \subseteq holders'[j]
    BY <1>1, <2>1 DEF Hold
  <2> QED BY <2>1, <2>2, HeadStays
<1>5. ASSUME NEW t \in Txns, NEW k \in Keys, NEW ty \in RequestTypes,
             AcquireWaits(t, k, ty)
      PROVE  HeadIsWoken'
  <2> SUFFICES ASSUME NEW j \in Keys, holders[j] = {}, NEW r \in Front(j)'
               PROVE  r.txn \in woken
    BY <1>5 DEF HeadIsWoken, AcquireWaits
  <2>1. /\ waiters' = [waiters EXCEPT ![k] = Append(@, Request(t, ty))]
        /\ ~CanGrant(k, t, ty)
    BY <1>5 DEF AcquireWaits
  <2>2. 1 \in DOMAIN waiters'[j] /\ r = waiters'[j][1]
    BY DEF Front
  <2>3. CASE j # k
    <3>1. waiters'[j] = waiters[j]
      BY <1>1, <2>1, <2>3
    <3> QED BY <2>2, <3>1 DEF HeadIsWoken, Front
  <2>4. CASE j = k
    <3>1. waiters'[k] = Append(waiters[k], Request(t, ty)) /\ waiters[k] \in Seq(LockRequest)
      BY <1>1, <2>1
    <3>2. Front(k) # {}
      BY <2>1, <2>4 DEF CanGrant
    <3>3. 1 \in DOMAIN waiters[k]
      BY <3>2 DEF Front
    <3>4. r = waiters[k][1]
      BY <2>2, <2>4, <3>1, <3>3
    <3> QED BY <2>4, <3>3, <3>4 DEF HeadIsWoken, Front
  <2> QED BY <2>3, <2>4
<1>6. ASSUME NEW t \in Txns, LeaveWait(t) \/ TimedOut(t) PROVE HeadIsWoken'
  <2> SUFFICES ASSUME NEW j \in Keys, holders'[j] = {}, NEW r \in Front(j)'
               PROVE  r.txn \in woken'
    BY DEF HeadIsWoken
  <2> DEFINE k == want[t].key
  <2>1. /\ pc[t] = "waiting" /\ k \in Keys /\ woken' = woken \ {t}
        /\ waiters' = [waiters EXCEPT ![k] = RemoveWaiter(@, {t})]
    BY <1>1, <1>6 DEF LeaveWait, TimedOut
  <2>2. 1 \in DOMAIN waiters'[j] /\ r = waiters'[j][1]
    BY DEF Front
  <2>3. CASE j # k
    <3>1. waiters'[j] = waiters[j] /\ holders'[j] = holders[j]
      BY <1>1, <1>6, <2>1, <2>3 DEF LeaveWait, TimedOut, Hold
    <3>2. r \in Front(j) /\ r.txn # t
      BY <1>3, <2>1, <2>2, <2>3, <3>1 DEF Front
    <3> QED BY <2>1, <3>1, <3>2 DEF HeadIsWoken
  <2>4. CASE j = k
    <3>1. /\ waiters'[k] = RemoveWaiter(waiters[k], {t}) /\ waiters[k] \in Seq(LockRequest)
      BY <1>1, <2>1
    <3>2. ~LeaveWait(t)
      <4>1. LeaveWait(t) => Hold(t, k, want[t].type)
        BY <1>1 DEF LeaveWait
      <4>2. LeaveWait(t) => holders'[k] # {}
        BY <1>1, <2>1, <4>1 DEF Hold
      <4> QED BY <2>4, <4>2
    <3>3. ~MayGoOn(t) /\ UNCHANGED holders
      BY <1>6, <3>2 DEF TimedOut
    <3>4. \A i \in DOMAIN waiters'[k] \cap {1} :
            1 \in DOMAIN waiters[k]
            /\ (waiters[k][1].txn \notin {t} => waiters'[k][i] = waiters[k][1])
      BY <3>1, RemoveWaiterKeeps
    <3>5. waiters[k][1] \in Front(k)
      BY <2>2, <2>4, <3>4 DEF Front
    <3>6. waiters[k][1].txn # t
      BY <2>1, <2>4, <3>3, <3>5, HeadMayGoOn
    <3>7. r = waiters[k][1]
      BY <2>2, <2>4, <3>4, <3>6
    <3> QED BY <2>1, <2>4, <3>3, <3>5, <3>6, <3>7 DEF HeadIsWoken
  <2> QED BY <2>3, <2>4
<1>7. ASSUME NEW t \in Txns, WakeAndSleep(t) PROVE HeadIsWoken'
  <2>1. /\ pc[t] = "waiting" /\ ~MayGoOn(t) /\ woken' = woken \ {t}
        /\ UNCHANGED lockVars
    BY <1>7 DEF WakeAndSleep
  <2>2. ASSUME NEW k \in Keys, holders[k] = {}, NEW r \in Front(k) PROVE r.txn # t
    BY <1>3, <2>1, <2>2, HeadMayGoOn
  <2> QED BY <2>1, <2>2, HeadStays
<1>8. ASSUME NEW t \in Txns, ReleaseAll(t) \/ ReleaseGraph(t) PROVE HeadIsWoken'
  BY <1>8, HeadStays DEF ReleaseAll, ReleaseGraph
<1>9. ASSUME NEW t \in Txns, NEW k \in Keys, ReleaseEntry(t, k) \/ Release(t, k)
      PROVE  HeadIsWoken'
  <2>1. /\ UNCHANGED waiters /\ woken \subseteq woken'
        /\ \A j \in Keys \ {k} : holders'[j] = holders[j]
        /\ holders'[k] = {h \in holders[k] : h.txn # t}
    BY <1>1, <1>9 DEF ReleaseEntry, Release, DropHolder
  <2>2. Waiting(k) \subseteq woken' \/ t \notin HolderIds(k)
    BY <1>9 DEF ReleaseEntry, Release
  <2>3. t \notin HolderIds(k) => holders'[k] = holders[k]
    BY <2>1 DEF HolderIds
  <2> QED BY <1>2, <2>1, <2>2, <2>3, HeadStays
<1>10. CASE DetectAndResolveDeadlocks \/ UNCHANGED vars
  <2>1. UNCHANGED vars
    BY <1>10, DetectorDoesNothing
  <2> QED BY <2>1, HeadStays DEF vars
<1> QED BY <1>4, <1>5, <1>6, <1>7, <1>8, <1>9, <1>10 DEF Next

\* While only exclusive locks are asked for, as TransactionImpl does, a waiter
\* that could have its lock has been notified: the notify_all of ReleaseAll is
\* enough, though a time-out, a refusal and a grant notify nobody.
THEOREM NoReleaseIsSleptThrough ==
    ASSUME "S" \notin RequestTypes
    PROVE  Spec => []NoLostWakeup
<1> DEFINE WakeInv == OnlyExclusive /\ NotOnItself /\ HeadIsWoken
<1>1. Init => WakeInv
  <2>1. ASSUME Init, NEW k \in Keys PROVE Front(k) = {}
    BY <2>1 DEF Init, Front
  <2> QED BY <2>1 DEF Init, OnlyExclusive, NotOnItself, HeadIsWoken
<1>2. TypeOK /\ GraphAcyclic /\ QueuesOK /\ WakeInv /\ [Next]_vars => WakeInv'
  BY ExclusiveStep, NotOnItselfStep, HeadStep
<1>3. TypeOK /\ QueuesOK /\ WakeInv => NoLostWakeup
  <2> SUFFICES ASSUME TypeOK, QueuesOK, WakeInv, NEW k \in Keys, NEW r \in Front(k),
                      CanGrant(k, r.txn, r.type)
               PROVE  r.txn \in woken
    BY DEF NoLostWakeup
  <2>1. r.txn \in ThreadsAt(k)
    BY DEF QueuesOK, TxnsIn, Front
  <2>2. r.txn \in Txns /\ pc[r.txn] = "waiting" /\ want[r.txn].key = k
    BY <2>1 DEF ThreadsAt
  <2>3. \A h \in holders[k] : h.txn # r.txn /\ h.type = "X"
    BY <2>2 DEF NotOnItself, HolderIds, OnlyExclusive
  <2>4. holders[k] = {}
    BY <2>3 DEF CanGrant, Compatible
  <2> QED BY <2>4 DEF HeadIsWoken
<1> QED BY <1>1, <1>2, <1>3, TypeCorrect, NeverACycle, QueuesKept, PTL DEF Spec
=============================================================================
