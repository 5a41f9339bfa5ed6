-------------------------- MODULE BackgroundProps --------------------------
(* What the background task manager promises. *)
EXTENDS Background

TypeOK ==
    /\ call \in [Tasks -> {"none", "free", "admitted", "scheduled", "recorded", "refused"}]
    /\ place \in [Tasks -> {"none", "queue", "taken", "running", "asleep", "waking", "over"}]
    /\ first \in [Tasks -> BOOLEAN] /\ cancel \in [Tasks -> BOOLEAN]
    /\ listed \in [Tasks -> BOOLEAN] /\ leftover \in [Tasks -> BOOLEAN]
    /\ inTime \in [Tasks -> BOOLEAN]
    /\ names \in [Names -> Tasks \cup {NoTask}]
    /\ pc \in [Workers -> {"top", "past", "took", "runs", "gone"}]
    /\ at \in [Workers -> Tasks \cup {NoTask}]
    /\ \A w \in Workers : pc[w] \in {"took", "runs"} <=> at[w] # NoTask
    /\ paused \in BOOLEAN /\ stage \in {"up", "stopping", "joined", "down"}

(***************************************************************************)
(* When Shutdown returns nobody is left who could run a task or queue one  *)
(* again: no worker, no sleeping thread, though tasks were running, asleep *)
(* or about to be queued when it was called (Shutdown,                     *)
(* SchedulePeriodicTaskInternal).  A caller of ScheduleTask may be late    *)
(* and still put its task into the queue, where it stays.                  *)
(***************************************************************************)
QuietWhenDown ==
    stage = "down" =>
        /\ \A w \in Workers : pc[w] = "gone"
        /\ \A t \in Tasks : place[t] \notin {"taken", "running", "asleep", "waking"}

(***************************************************************************)
(* A task that was cancelled while it waited, or by a call that came after *)
(* a worker took it and before the worker looked at the flag, is not run,  *)
(* now or later (CancelTask, CancelAllTasks, WorkerThreadFunction).        *)
(***************************************************************************)
CancelledIsNotRun == \A t \in Tasks : inTime[t] => place[t] \notin {"running", "asleep"}

-----------------------------------------------------------------------------
(* Workers and sleeping threads are scheduled, and tasks return.  Among    *)
(* tasks of one priority the oldest is taken first.                        *)
Fairness ==
    /\ \A w \in Workers : WF_vars(Step(w))
    /\ \A t \in Tasks : /\ SF_vars(\E w \in Workers : GetNextTask(w, t))
                        /\ WF_vars(Wakes(t) \/ Requeues(t))
    /\ WF_vars(JoinWorkers) /\ WF_vars(JoinSleepers)
FairSpec == Spec /\ Fairness

(***************************************************************************)
(* A waiting task of the highest priority is run, and a periodic one whose *)
(* run succeeded is run again, if pauses end and nobody cancels or shuts   *)
(* down (GetNextTask, SchedulePeriodicTaskInternal).                       *)
(***************************************************************************)
TopTasksGoOn ==
    \A t \in Tasks : (\A u \in Tasks : Prio[u] <= Prio[t]) =>
        ((<>[]~paused) =>
            ((place[t] \in {"queue", "asleep"}) ~>
                (place[t] = "running" \/ cancel[t] \/ stage # "up")))

(***************************************************************************)
(* Shutdown returns, also when execution is paused (Shutdown,              *)
(* WorkerThreadFunction).                                                  *)
(***************************************************************************)
ShutdownEnds == (stage = "stopping") ~> (stage = "down")
=============================================================================
