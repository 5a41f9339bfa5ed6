----------------------------- MODULE Background -----------------------------
(***************************************************************************)
(* The background task manager (src/src/background/background_manager.cc)  *)
(* and the tasks registered under a name with the database                 *)
(* (DBImpl::RegisterBackgroundTask, UnregisterBackgroundTask).             *)
(*                                                                         *)
(* A task is one call of ScheduleTask.  A periodic task lives on as a      *)
(* sequence of instances, each with an id of its own: only the id of the   *)
(* first is ever returned.  The state tells the current instance from      *)
(* those before it, and does not count them.                               *)
(***************************************************************************)
EXTENDS Integers, FiniteSets

CONSTANTS Tasks,
          Periodic,     \* the tasks with an interval
          Prio,         \* task -> priority
          Kind,         \* task -> type
          Name,         \* task -> "component/task", NoName for tasks of the LSM trees
          NoName,
          Workers, NoTask

Names == {Name[t] : t \in Tasks} \ {NoName}

ASSUME TasksAssumption ==
    /\ Periodic \subseteq Tasks /\ Prio \in [Tasks -> Nat]
    /\ NoTask \notin Tasks

VARIABLES
    call,      \* how far ScheduleTask or RegisterBackgroundTask is
    place,     \* where the current instance is
    first,     \* the current instance is the first one
    cancel,    \* its cancel_requested
    listed,    \* it is in active_tasks_
    leftover,  \* an earlier instance is in active_tasks_
    names,     \* background_tasks_
    pc, at,    \* worker -> step in its loop, task in its hands
    paused,    \* paused_
    stage,     \* of Shutdown: "up", "stopping", "joined", "down"
    inTime     \* history: cancelled before a worker began to run it

ofTasks == <<call, place, first, cancel, listed, leftover>>
vars == <<ofTasks, names, pc, at, paused, stage, inTime>>

Queue == {t \in Tasks : place[t] = "queue"}

-----------------------------------------------------------------------------
(* Scheduling. *)

(* RegisterBackgroundTask looks for the name and lets go of the mutex.     *)
FindName(t) ==
    /\ call[t] = "none" /\ Name[t] # NoName
    /\ call' = [call EXCEPT ![t] = IF names[Name[t]] = NoTask THEN "free" ELSE "refused"]
    /\ UNCHANGED <<place, first, cancel, listed, leftover, names, pc, at, paused, stage, inTime>>

(* ScheduleTask asks whether the manager is up, before the mutex. *)
Admit(t) ==
    /\ call[t] = "free" \/ (call[t] = "none" /\ Name[t] = NoName)
    /\ call' = [call EXCEPT ![t] = IF stage = "up" THEN "admitted" ELSE "refused"]
    /\ UNCHANGED <<place, first, cancel, listed, leftover, names, pc, at, paused, stage, inTime>>

Push(t) ==
    /\ call[t] = "admitted"
    /\ call' = [call EXCEPT ![t] = "scheduled"]
    /\ place' = [place EXCEPT ![t] = "queue"]
    /\ listed' = [listed EXCEPT ![t] = TRUE]
    /\ UNCHANGED <<first, cancel, leftover, names, pc, at, paused, stage, inTime>>

Record(t) ==
    /\ call[t] = "scheduled" /\ Name[t] # NoName
    /\ call' = [call EXCEPT ![t] = "recorded"]
    /\ names' = [names EXCEPT ![Name[t]] = t]
    /\ UNCHANGED <<place, first, cancel, listed, leftover, pc, at, paused, stage, inTime>>

-----------------------------------------------------------------------------
(* Cancelling sets a flag that is looked at between the queue and the run. *)

Flagged(T) ==
    /\ cancel' = [t \in Tasks |-> cancel[t] \/ (t \in T /\ listed[t])]
    /\ inTime' = [t \in Tasks |-> inTime[t] \/ (t \in T /\ listed[t]
                                                /\ place[t] \in {"queue", "taken"})]

(* CancelTask with the id that was returned: of the first instance. *)
CancelFirst(t) == Flagged(IF first[t] THEN {t} ELSE {})

CancelTask(t) ==
    /\ call[t] \in {"scheduled", "recorded"} /\ Name[t] = NoName
    /\ CancelFirst(t)
    /\ UNCHANGED <<call, place, first, listed, leftover, names, pc, at, paused, stage>>

(* UnregisterBackgroundTask. *)
Unregister(n) ==
    /\ names[n] # NoTask
    /\ CancelFirst(names[n])
    /\ names' = [names EXCEPT ![n] = NoTask]
    /\ UNCHANGED <<call, place, first, listed, leftover, pc, at, paused, stage>>

CancelAllTasks(k) ==
    /\ Flagged({t \in Tasks : Kind[t] = k})
    /\ UNCHANGED <<call, place, first, listed, leftover, names, pc, at, paused, stage>>

-----------------------------------------------------------------------------
(* WorkerThreadFunction. *)

(* Mutant: a paused worker does not look whether it shall end. *)
PassesChecksPaused(w) ==
    /\ pc[w] = "top" /\ ~paused
    /\ pc' = [pc EXCEPT ![w] = IF stage = "up" THEN "past" ELSE "gone"]
    /\ UNCHANGED <<ofTasks, names, at, paused, stage, inTime>>

(* The top of the loop: shutdown_, then paused_. *)
PassesChecks(w) ==
    /\ pc[w] = "top" /\ (stage = "up" => ~paused)
    /\ pc' = [pc EXCEPT ![w] = IF stage = "up" THEN "past" ELSE "gone"]
    /\ UNCHANGED <<ofTasks, names, at, paused, stage, inTime>>

(* One of the highest priority; the order of their times is left out. *)
GetNextTask(w, t) ==
    /\ pc[w] = "past"
    /\ t \in Queue /\ \A u \in Queue : Prio[u] <= Prio[t]
    /\ pc' = [pc EXCEPT ![w] = "took"]
    /\ at' = [at EXCEPT ![w] = t]
    /\ place' = [place EXCEPT ![t] = "taken"]
    /\ UNCHANGED <<call, first, cancel, listed, leftover, names, paused, stage, inTime>>

FindsNone(w) ==
    /\ pc[w] = "past" /\ Queue = {}
    /\ pc' = [pc EXCEPT ![w] = "top"]
    /\ UNCHANGED <<ofTasks, names, at, paused, stage, inTime>>

(* Mutant: the flag is not looked at. *)
BeginsAnyway(w) ==
    /\ pc[w] = "took"
    /\ place' = [place EXCEPT ![at[w]] = "running"]
    /\ pc' = [pc EXCEPT ![w] = "runs"]
    /\ UNCHANGED <<call, first, cancel, listed, leftover, names, at, paused, stage, inTime>>

(* Mutant: a cancelled task is removed and stays in the worker's hands. *)
BeginsKeeps(w) ==
    LET t == at[w]
    IN  /\ pc[w] = "took"
        /\ place' = [place EXCEPT ![t] = IF cancel[t] THEN "over" ELSE "running"]
        /\ listed' = [listed EXCEPT ![t] = listed[t] /\ ~cancel[t]]
        /\ pc' = [pc EXCEPT ![w] = IF cancel[t] THEN "top" ELSE "runs"]
        /\ UNCHANGED <<call, first, cancel, leftover, names, at, paused, stage, inTime>>

(* A cancelled task is removed, any other one is run. *)
Begins(w) ==
    LET t == at[w]
    IN  /\ pc[w] = "took"
        /\ IF cancel[t]
           THEN /\ place' = [place EXCEPT ![t] = "over"]
                /\ listed' = [listed EXCEPT ![t] = FALSE]
                /\ pc' = [pc EXCEPT ![w] = "top"]
                /\ at' = [at EXCEPT ![w] = NoTask]
           ELSE /\ place' = [place EXCEPT ![t] = "running"]
                /\ pc' = [pc EXCEPT ![w] = "runs"]
                /\ UNCHANGED <<listed, at>>
        /\ UNCHANGED <<call, first, cancel, leftover, names, paused, stage, inTime>>

(* ExecuteTask after the run.  A periodic task that succeeded leaves its   *)
(* instance in active_tasks_ and goes on as a copy with a new id, which    *)
(* SchedulePeriodicTaskInternal gives to a sleeping thread; every other    *)
(* one is removed.                                                         *)
Ends(w, ok) ==
    LET t == at[w]
        again == ok /\ t \in Periodic
    IN  /\ pc[w] = "runs"
        /\ place' = [place EXCEPT ![t] = IF again THEN "asleep" ELSE "over"]
        /\ first' = [first EXCEPT ![t] = first[t] /\ ~again]
        /\ cancel' = [cancel EXCEPT ![t] = cancel[t] /\ ~again]
        /\ leftover' = [leftover EXCEPT ![t] = leftover[t] \/ again]
        /\ listed' = [listed EXCEPT ![t] = FALSE]
        /\ pc' = [pc EXCEPT ![w] = "top"]
        /\ at' = [at EXCEPT ![w] = NoTask]
        /\ UNCHANGED <<call, names, paused, stage, inTime>>

(* Mutant: a copy that wakes up during a pause is not queued. *)
WakesUnlessPaused(t) ==
    /\ place[t] = "asleep"
    /\ place' = [place EXCEPT ![t] = IF stage = "up" /\ ~cancel[t] /\ ~paused
                                     THEN "waking" ELSE "over"]
    /\ UNCHANGED <<call, first, cancel, listed, leftover, names, pc, at, paused, stage, inTime>>

(* The sleeping thread looks at shutdown_ and the flag, then queues.       *)
Wakes(t) ==
    /\ place[t] = "asleep"
    /\ place' = [place EXCEPT ![t] = IF stage = "up" /\ ~cancel[t] THEN "waking" ELSE "over"]
    /\ UNCHANGED <<call, first, cancel, listed, leftover, names, pc, at, paused, stage, inTime>>

Requeues(t) ==
    /\ place[t] = "waking"
    /\ place' = [place EXCEPT ![t] = "queue"]
    /\ listed' = [listed EXCEPT ![t] = TRUE]
    /\ UNCHANGED <<call, first, cancel, leftover, names, pc, at, paused, stage, inTime>>

-----------------------------------------------------------------------------
(* Pause and shutdown. *)

PauseExecution ==
    /\ ~paused /\ paused' = TRUE
    /\ UNCHANGED <<ofTasks, names, pc, at, stage, inTime>>

ResumeExecution ==
    /\ paused /\ paused' = FALSE
    /\ UNCHANGED <<ofTasks, names, pc, at, stage, inTime>>

Shutdown ==
    /\ stage = "up" /\ stage' = "stopping"
    /\ UNCHANGED <<ofTasks, names, pc, at, paused, inTime>>

JoinWorkers ==
    /\ stage = "stopping" /\ \A w \in Workers : pc[w] = "gone"
    /\ stage' = "joined"
    /\ UNCHANGED <<ofTasks, names, pc, at, paused, inTime>>

Cleared ==
    /\ stage' = "down"
    /\ place' = [t \in Tasks |-> IF place[t] = "queue" THEN "over" ELSE place[t]]
    /\ listed' = [t \in Tasks |-> FALSE] /\ leftover' = [t \in Tasks |-> FALSE]
    /\ UNCHANGED <<call, first, cancel, names, pc, at, paused, inTime>>

(* Mutant: the threads that sleep are left alone. *)
JoinSleepersDetached == stage = "joined" /\ Cleared

(* The sleeping threads are joined, then queue and active_tasks_ cleared.  *)
JoinSleepers ==
    /\ stage = "joined" /\ \A t \in Tasks : place[t] \notin {"asleep", "waking"}
    /\ Cleared

-----------------------------------------------------------------------------

(* Initialize has started the workers. *)
Init ==
    /\ call = [t \in Tasks |-> "none"] /\ place = [t \in Tasks |-> "none"]
    /\ first = [t \in Tasks |-> TRUE] /\ cancel = [t \in Tasks |-> FALSE]
    /\ listed = [t \in Tasks |-> FALSE] /\ leftover = [t \in Tasks |-> FALSE]
    /\ names = [n \in Names |-> NoTask]
    /\ pc = [w \in Workers |-> "top"] /\ at = [w \in Workers |-> NoTask]
    /\ paused = FALSE /\ stage = "up" /\ inTime = [t \in Tasks |-> FALSE]

Step(w) == \/ PassesChecks(w) \/ FindsNone(w) \/ Begins(w)
           \/ \E ok \in BOOLEAN : Ends(w, ok)

Next ==
    \/ \E t \in Tasks : \/ FindName(t) \/ Admit(t) \/ Push(t) \/ Record(t)
                        \/ CancelTask(t) \/ Wakes(t) \/ Requeues(t)
                        \/ CancelAllTasks(Kind[t])
                        \/ \E w \in Workers : GetNextTask(w, t)
    \/ \E n \in Names : Unregister(n)
    \/ \E w \in Workers : Step(w)
    \/ PauseExecution \/ ResumeExecution \/ Shutdown \/ JoinWorkers \/ JoinSleepers

Spec == Init /\ [][Next]_vars
=============================================================================
