---------------------------- MODULE LockManager ----------------------------
(***************************************************************************)
(* The point locks of LRDB (src/src/concurrency/lock_manager.cc): one      *)
(* entry per key with its holders and its FIFO queue of waiters, the       *)
(* wait-for graph used to refuse a request that would deadlock, and the    *)
(* set of deadlock victims.                                                *)
(*                                                                         *)
(* A transaction is used by one thread, so a transaction is in at most one *)
(* call.  Everything Acquire does up to its wait runs under the mutex of   *)
(* the key's entry and is one action; so is everything it does after the   *)
(* wait.  ReleaseAll takes the entries one at a time, and the graph last.  *)
(*                                                                         *)
(* Range locks are not here: a call of AcquireRange never returns, since   *)
(* it locks range_mu_ twice, so range_locks_ stays empty and               *)
(* RangeConflicts is FALSE for every call that gets past it.               *)
(***************************************************************************)
EXTENDS Naturals, Sequences, FiniteSets

CONSTANTS Txns,          \* transaction ids
          Keys,          \* the keys that are locked
          RequestTypes,  \* lock types the callers ask for
          NoWish,        \* the wish of a transaction that waits for nothing
          Api            \* entry points in use that TransactionImpl never calls

LockType == {"S", "X"}
OptionalCalls == {"TryAcquire", "Release", "Detect"}

ASSUME TypesAssumption == RequestTypes \subseteq LockType
ASSUME ApiAssumption == Api \subseteq OptionalCalls

VARIABLES holders,   \* key -> set of lock requests that are granted
          waiters,   \* key -> queue of lock requests
          graph,     \* wait-for graph: waiter -> holders it waits for
          aborted,   \* deadlock victims that have not been told yet
          pc,        \* what each transaction's thread is doing
          want,      \* the key and type a waiting transaction asked for
          todo,      \* keys a transaction's ReleaseAll has still to visit
          woken,     \* waiters notified since they last looked
          result     \* status of each transaction's last finished call

lockVars == <<holders, waiters>>
graphVars == <<graph, aborted>>
threadVars == <<pc, want, todo, result>>
vars == <<holders, waiters, graph, aborted, pc, want, todo, woken, result>>

LockRequest == [txn : Txns, type : LockType]
Request(t, ty) == [txn |-> t, type |-> ty]
Wish == [key : Keys, type : LockType]
ASSUME NoWishAssumption == NoWish \notin Wish
Status == {"none", "OK", "Aborted", "TimedOut"}

LocksTyped ==
    /\ holders \in [Keys -> SUBSET LockRequest]
    /\ waiters \in [Keys -> Seq(LockRequest)]

GraphTyped ==
    /\ graph \in [Txns -> SUBSET Txns]
    /\ aborted \subseteq Txns
    /\ woken \subseteq Txns

ThreadsTyped ==
    /\ pc \in [Txns -> {"idle", "waiting", "releasing"}]
    /\ want \in [Txns -> Wish \cup {NoWish}]
    /\ \A t \in Txns : want[t] \in Wish <=> pc[t] = "waiting"
    /\ todo \in [Txns -> SUBSET Keys]
    /\ result \in [Txns -> Status]

TypeOK == LocksTyped /\ GraphTyped /\ ThreadsTyped

Init ==
    /\ holders = [k \in Keys |-> {}]
    /\ waiters = [k \in Keys |-> <<>>]
    /\ graph = [t \in Txns |-> {}]
    /\ aborted = {}
    /\ pc = [t \in Txns |-> "idle"]
    /\ want = [t \in Txns |-> NoWish]
    /\ todo = [t \in Txns |-> {}]
    /\ woken = {}
    /\ result = [t \in Txns |-> "none"]

-----------------------------------------------------------------------------
(* Helpers of the code. *)

Compatible(held, requested) == held = "S" /\ requested = "S"

\* The request at the head of the queue, if there is one.
Front(k) == {waiters[k][i] : i \in DOMAIN waiters[k] \cap {1}}

\* Mutations of CanGrant: without the test of the holders, or of the queue.
CanGrantBarges(k, t, ty) == Front(k) \subseteq {Request(t, ty)}
CanGrantOvertakes(k, t, ty) ==
    \A h \in holders[k] : h.txn = t \/ Compatible(h.type, ty)

CanGrant(k, t, ty) ==
    /\ \A h \in holders[k] : h.txn = t \/ Compatible(h.type, ty)
    /\ Front(k) \subseteq {Request(t, ty)}

HolderIds(k) == {h.txn : h \in holders[k]}
Waiting(k) == {waiters[k][i].txn : i \in DOMAIN waiters[k]}

\* The queue q without its first request of a transaction of S.
RemoveWaiter(q, S) ==
    IF \A i \in DOMAIN q : q[i].txn \notin S THEN q
    ELSE [i \in 1 .. Len(q) - 1 |->
            IF \E j \in 1 .. i : q[j].txn \in S THEN q[i + 1] ELSE q[i]]

AddEdges(g, t, S) == [g EXCEPT ![t] = @ \cup S]

\* Mutation of RemoveEdgesFor: the edges into S stay.
RemoveEdgesOutOf(g, S) == [u \in Txns |-> IF u \in S THEN {} ELSE g[u]]

\* Edges out of and into every transaction of S.
RemoveEdgesFor(g, S) ==
    [u \in Txns |-> IF u \in S THEN {} ELSE g[u] \ S]

\* The transactions that t reaches in g by one edge or more: those in every
\* set that has the ends of t's edges and is left by no edge.
Reach(g, t) ==
    {u \in Txns : \A C \in SUBSET Txns :
        g[t] \subseteq C /\ (\A v \in C : g[v] \subseteq C) => u \in C}

\* Dfs from t meets a transaction that is on its path.
WouldCreateCycle(g, t) == \E u \in {t} \cup Reach(g, t) : u \in Reach(g, u)

\* DetectCycle: nothing, or a transaction on a path that runs into a cycle
\* (the code takes the largest id of the path its search was on).
Victims(g) ==
    LET onPath == {t \in Txns : WouldCreateCycle(g, t)}
    IN  IF onPath = {} THEN {{}} ELSE {{v} : v \in onPath}

\* Mutation of Return: the wish of the call stays behind.
ReturnKeepsWish(t, status) ==
    /\ pc' = [pc EXCEPT ![t] = "idle"]
    /\ result' = [result EXCEPT ![t] = status]
    /\ UNCHANGED <<want, todo>>

Return(t, status) ==
    /\ pc' = [pc EXCEPT ![t] = "idle"]
    /\ want' = [want EXCEPT ![t] = NoWish]
    /\ result' = [result EXCEPT ![t] = status]
    /\ UNCHANGED todo

Hold(t, k, ty) ==
    holders' = [holders EXCEPT ![k] = @ \cup {Request(t, ty)}]

-----------------------------------------------------------------------------
(* Acquire, up to its wait. *)

\* Mutation of Deadlocks: the graph is searched before the edges are added.
DeadlocksTooEarly(t, k, ty) == ~CanGrant(k, t, ty) /\ WouldCreateCycle(graph, t)

\* The request would close a cycle: the edges go to every holder, the
\* requester itself included when it holds the key already.
Deadlocks(t, k, ty) ==
    /\ ~CanGrant(k, t, ty)
    /\ WouldCreateCycle(AddEdges(graph, t, HolderIds(k)), t)

Calls(t, k, ty) == pc[t] = "idle" /\ k \in Keys /\ ty \in RequestTypes

AcquireGranted(t, k, ty) ==
    /\ Calls(t, k, ty)
    /\ t \notin aborted /\ CanGrant(k, t, ty)
    /\ Hold(t, k, ty)
    /\ Return(t, "OK")
    /\ UNCHANGED <<waiters, graphVars, woken>>

\* Told it is a victim of the detector, or refused because its wait would
\* close a cycle; the latter drops the edges into t as well as those out of t.
AcquireAborted(t, k, ty) ==
    /\ Calls(t, k, ty)
    /\ t \in aborted \/ Deadlocks(t, k, ty)
    /\ graph' = IF t \in aborted THEN graph ELSE RemoveEdgesFor(graph, {t})
    /\ aborted' = aborted \ {t}
    /\ Return(t, "Aborted")
    /\ UNCHANGED <<lockVars, woken>>

AcquireWaits(t, k, ty) ==
    /\ Calls(t, k, ty)
    /\ t \notin aborted /\ ~CanGrant(k, t, ty) /\ ~Deadlocks(t, k, ty)
    /\ waiters' = [waiters EXCEPT ![k] = Append(@, Request(t, ty))]
    /\ graph' = AddEdges(graph, t, HolderIds(k))
    /\ pc' = [pc EXCEPT ![t] = "waiting"]
    /\ want' = [want EXCEPT ![t] = [key |-> k, type |-> ty]]
    /\ UNCHANGED <<holders, aborted, todo, woken, result>>

-----------------------------------------------------------------------------
(* Acquire, after its wait. *)

\* What the waiting thread tests when it wakes.
MayGoOn(t) == t \in aborted \/ CanGrant(want[t].key, t, want[t].type)

\* The thread looks (notified, spuriously awake or at its deadline, wait_for
\* makes no difference) and leaves: as a victim, or with the lock.
LeaveWait(t) ==
    LET k == want[t].key
    IN  /\ pc[t] = "waiting" /\ MayGoOn(t)
        /\ waiters' = [waiters EXCEPT ![k] = RemoveWaiter(@, {t})]
        /\ IF t \in aborted
           THEN UNCHANGED holders /\ Return(t, "Aborted")
           ELSE Hold(t, k, want[t].type) /\ Return(t, "OK")
        /\ graph' = RemoveEdgesFor(graph, {t})
        /\ woken' = woken \ {t}
        /\ UNCHANGED aborted

WakeAndSleep(t) ==
    /\ pc[t] = "waiting" /\ t \in woken
    /\ ~MayGoOn(t)
    /\ woken' = woken \ {t}
    /\ UNCHANGED <<lockVars, graphVars, threadVars>>

\* Mutation of TimedOut: the request stays in the queue.
TimedOutStaysQueued(t) ==
    /\ pc[t] = "waiting" /\ ~MayGoOn(t)
    /\ graph' = RemoveEdgesFor(graph, {t})
    /\ woken' = woken \ {t}
    /\ Return(t, "TimedOut")
    /\ UNCHANGED <<lockVars, aborted>>

\* The deadline passes and the predicate is still false.
TimedOut(t) ==
    /\ pc[t] = "waiting" /\ ~MayGoOn(t)
    /\ waiters' = [waiters EXCEPT ![want[t].key] = RemoveWaiter(@, {t})]
    /\ graph' = RemoveEdgesFor(graph, {t})
    /\ woken' = woken \ {t}
    /\ Return(t, "TimedOut")
    /\ UNCHANGED <<holders, aborted>>

-----------------------------------------------------------------------------
(* Release and ReleaseAll. *)

DropHolder(k, t) ==
    holders' = [holders EXCEPT ![k] = {h \in @ : h.txn # t}]

\* Commit, Rollback, Abort and the destructor of the transaction.
ReleaseAll(t) ==
    /\ pc[t] = "idle"
    /\ pc' = [pc EXCEPT ![t] = "releasing"]
    /\ todo' = [todo EXCEPT ![t] = Keys]
    /\ UNCHANGED <<lockVars, graphVars, want, woken, result>>

\* Mutation of ReleaseEntry: notify_one in the place of notify_all.
ReleaseEntryWakesOne(t, k) ==
    /\ pc[t] = "releasing" /\ k \in todo[t]
    /\ DropHolder(k, t)
    /\ \E W \in IF t \in HolderIds(k) /\ Waiting(k) # {}
                THEN {{u} : u \in Waiting(k)} ELSE {{}} :
            woken' = woken \cup W
    /\ todo' = [todo EXCEPT ![t] = @ \ {k}]
    /\ UNCHANGED <<waiters, graphVars, pc, want, result>>

ReleaseEntry(t, k) ==
    /\ pc[t] = "releasing" /\ k \in todo[t]
    /\ DropHolder(k, t)
    /\ woken' = IF t \in HolderIds(k) THEN woken \cup Waiting(k) ELSE woken
    /\ todo' = [todo EXCEPT ![t] = @ \ {k}]
    /\ UNCHANGED <<waiters, graphVars, pc, want, result>>

ReleaseGraph(t) ==
    /\ pc[t] = "releasing" /\ todo[t] = {}
    /\ graph' = RemoveEdgesFor(graph, {t})
    /\ Return(t, "none")
    /\ UNCHANGED <<lockVars, aborted, woken>>

-----------------------------------------------------------------------------
(* Entry points of the class that no code of the repository calls. *)

TryAcquire(t, k, ty) ==
    /\ "TryAcquire" \in Api /\ Calls(t, k, ty)
    /\ aborted' = aborted \ {t}
    /\ IF t \notin aborted /\ CanGrant(k, t, ty)
       THEN Hold(t, k, ty) /\ Return(t, "OK")
       ELSE /\ UNCHANGED holders
            /\ Return(t, IF t \in aborted THEN "Aborted" ELSE "TimedOut")
    /\ UNCHANGED <<waiters, graph, woken>>

Release(t, k) ==
    /\ "Release" \in Api /\ pc[t] = "idle" /\ k \in Keys
    /\ DropHolder(k, t)
    /\ woken' = woken \cup Waiting(k)
    /\ UNCHANGED <<waiters, graphVars, threadVars>>

\* V is empty or one victim: marked, its locks released, out of every queue.
DetectAndResolveDeadlocks ==
    /\ "Detect" \in Api
    /\ \E V \in Victims(graph) :
        /\ aborted' = aborted \cup V
        /\ holders' = [k \in Keys |-> {h \in holders[k] : h.txn \notin V}]
        /\ waiters' = [k \in Keys |-> RemoveWaiter(waiters[k], V)]
        /\ graph' = RemoveEdgesFor(graph, V)
        /\ woken' = woken \cup UNION {Waiting(k) : k \in
                {j \in Keys : V \cap (HolderIds(j) \cup Waiting(j)) # {}}}
    /\ UNCHANGED threadVars

-----------------------------------------------------------------------------

Next ==
    \/ \E t \in Txns :
        \/ \E k \in Keys, ty \in RequestTypes :
            \/ AcquireGranted(t, k, ty)
            \/ AcquireAborted(t, k, ty)
            \/ AcquireWaits(t, k, ty)
            \/ TryAcquire(t, k, ty)
        \/ LeaveWait(t)
        \/ WakeAndSleep(t)
        \/ TimedOut(t)
        \/ ReleaseAll(t)
        \/ ReleaseGraph(t)
        \/ \E k \in Keys : ReleaseEntry(t, k) \/ Release(t, k)
    \/ DetectAndResolveDeadlocks

Spec == Init /\ [][Next]_vars
=============================================================================
