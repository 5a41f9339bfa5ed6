-------------------------- MODULE BackgroundProofs --------------------------
(* Shutdown and cancellation of background tasks: the proofs. *)
EXTENDS BackgroundProps, TLAPS

(***************************************************************************)
(* Neither property is inductive.  A task that is taken or running is in   *)
(* the hands of one worker, and of one only; a task that was not scheduled *)
(* yet is nowhere; a task cancelled in time waits for its removal.         *)
(***************************************************************************)
Holds(w, t) == at[w] = t /\ pc[w] \in {"took", "runs"}

HeldIsThere ==
    \A w \in Workers : /\ pc[w] = "took" => place[at[w]] = "taken"
                       /\ pc[w] = "runs" => place[at[w]] = "running"

HeldOnce == \A v, w \in Workers, t \in Tasks : Holds(v, t) /\ Holds(w, t) => v = w

TakenIsHeld ==
    \A t \in Tasks : place[t] \in {"taken", "running"} => \E w \in Workers : Holds(w, t)

NowhereYet ==
    \A t \in Tasks : call[t] \in {"none", "free", "admitted"} => place[t] = "none"

CancelledWaits ==
    \A t \in Tasks : inTime[t] => cancel[t] /\ place[t] \in {"queue", "taken", "over"}

WorkersGone == stage \in {"joined", "down"} => \A w \in Workers : pc[w] = "gone"

NobodySleeps == stage = "down" => \A t \in Tasks : place[t] \notin {"asleep", "waking"}

IInv == /\ TypeOK /\ HeldIsThere /\ HeldOnce /\ TakenIsHeld /\ NowhereYet
        /\ CancelledWaits /\ WorkersGone /\ NobodySleeps

(***************************************************************************)
(* Types hold at first and are kept by every step.                         *)
(***************************************************************************)
LEMMA TypeInit == Init => TypeOK
<1> SUFFICES ASSUME Init PROVE TypeOK
    OBVIOUS
<1>1. /\ first \in [Tasks -> BOOLEAN] /\ cancel \in [Tasks -> BOOLEAN]
      /\ listed \in [Tasks -> BOOLEAN] /\ leftover \in [Tasks -> BOOLEAN]
      /\ inTime \in [Tasks -> BOOLEAN]
  BY DEF Init
<1>2. /\ pc \in [Workers -> {"top", "past", "took", "runs", "gone"}]
      /\ at \in [Workers -> Tasks \cup {NoTask}]
      /\ \A w \in Workers : pc[w] \in {"took", "runs"} <=> at[w] # NoTask
  BY DEF Init
<1>3. /\ call \in [Tasks -> {"none", "free", "admitted", "scheduled", "recorded", "refused"}]
      /\ place \in [Tasks -> {"none", "queue", "taken", "running", "asleep", "waking", "over"}]
      /\ names \in [Names -> Tasks \cup {NoTask}]
  BY DEF Init
<1>4. paused \in BOOLEAN /\ stage \in {"up", "stopping", "joined", "down"}
  BY DEF Init
<1> QED
  BY <1>1, <1>2, <1>3, <1>4 DEF TypeOK

LEMMA TypeStep == TypeOK /\ [Next]_vars => TypeOK'
<1> SUFFICES ASSUME TypeOK, [Next]_vars PROVE TypeOK'
    OBVIOUS
<1> USE TasksAssumption DEF ofTasks
<1>1. CASE \E t \in Tasks : FindName(t)
  BY <1>1 DEF FindName, TypeOK
<1>2. CASE \E t \in Tasks : Admit(t)
  BY <1>2 DEF Admit, TypeOK
<1>3. CASE \E t \in Tasks : Push(t)
  BY <1>3 DEF Push, TypeOK
<1>4. CASE \E t \in Tasks : Record(t)
  BY <1>4 DEF Record, Names, TypeOK
<1>5. CASE \E t \in Tasks : CancelTask(t)
  BY <1>5 DEF CancelTask, CancelFirst, Flagged, TypeOK
<1>6. CASE \E n \in Names : Unregister(n)
  BY <1>6 DEF Unregister, CancelFirst, Flagged, TypeOK
<1>7. CASE \E t \in Tasks : CancelAllTasks(Kind[t])
  BY <1>7 DEF CancelAllTasks, Flagged, TypeOK
<1>8. CASE \E w \in Workers : PassesChecks(w) \/ FindsNone(w)
  BY <1>8 DEF PassesChecks, FindsNone, TypeOK
<1>9. CASE \E w \in Workers, t \in Tasks : GetNextTask(w, t)
  BY <1>9 DEF GetNextTask, Queue, TypeOK
<1>10. CASE \E w \in Workers : Begins(w)
  <2> PICK w \in Workers : Begins(w)
    BY <1>10
  <2>1. at[w] \in Tasks
    BY DEF Begins, TypeOK
  <2>2. /\ UNCHANGED <<call, first, cancel, leftover, names, paused, stage, inTime>>
        /\ pc[w] = "took"
    BY DEF Begins
  <2>3. /\ place' \in [Tasks -> {"none", "queue", "taken", "running", "asleep", "waking", "over"}]
        /\ pc' \in [Workers -> {"top", "past", "took", "runs", "gone"}]
        /\ at' \in [Workers -> Tasks \cup {NoTask}]
    BY DEF Begins, TypeOK
  <2>4. listed' \in [Tasks -> BOOLEAN]
    <3>1. listed' = listed \/ listed' = [listed EXCEPT ![at[w]] = FALSE]
      BY DEF Begins
    <3> QED
      BY <3>1 DEF TypeOK
  <2>5. ASSUME NEW v \in Workers PROVE pc'[v] \in {"took", "runs"} <=> at'[v] # NoTask
    <3>1. CASE cancel[at[w]]
      <4>1. pc' = [pc EXCEPT ![w] = "top"] /\ at' = [at EXCEPT ![w] = NoTask]
        BY <3>1 DEF Begins
      <4> QED
        BY <4>1 DEF TypeOK
    <3>2. CASE ~cancel[at[w]]
      <4>1. pc' = [pc EXCEPT ![w] = "runs"] /\ at' = at
        BY <3>2 DEF Begins
      <4> QED
        BY <4>1, <2>2 DEF TypeOK
    <3> QED
      BY <3>1, <3>2
  <2> QED
    BY <2>2, <2>3, <2>4, <2>5 DEF TypeOK
<1>11. CASE \E w \in Workers, ok \in BOOLEAN : Ends(w, ok)
  BY <1>11 DEF Ends, TypeOK
<1>12. CASE \E t \in Tasks : Wakes(t)
  BY <1>12 DEF Wakes, TypeOK
<1>13. CASE \E t \in Tasks : Requeues(t)
  BY <1>13 DEF Requeues, TypeOK
<1>14. CASE PauseExecution \/ ResumeExecution \/ Shutdown \/ JoinWorkers
  BY <1>14 DEF PauseExecution, ResumeExecution, Shutdown, JoinWorkers, TypeOK
<1>15. CASE JoinSleepers
  BY <1>15 DEF JoinSleepers, Cleared, TypeOK
<1>16. CASE UNCHANGED vars
  BY <1>16 DEF vars, TypeOK
<1> QED
  BY <1>1, <1>2, <1>3, <1>4, <1>5, <1>6, <1>7, <1>8, <1>9, <1>10, <1>11, <1>12, <1>13, <1>14, <1>15, <1>16
     DEF Next, Step
-----------------------------------------------------------------------------
(***************************************************************************)
(* The invariant holds at first, and every step keeps the seven parts that *)
(* are not types.                                                          *)
(***************************************************************************)
LEMMA InvInit == Init => IInv
  BY TypeInit DEF Init, IInv, HeldIsThere, HeldOnce, TakenIsHeld, NowhereYet,
                  CancelledWaits, WorkersGone, NobodySleeps, Holds

(* What a step that leaves workers and tasks in their places must keep.    *)
LEMMA PlacesKept ==
  ASSUME IInv, UNCHANGED <<pc, at, place>>
  PROVE  (HeldIsThere /\ HeldOnce /\ TakenIsHeld)'
  BY DEF IInv, HeldIsThere, HeldOnce, TakenIsHeld, Holds

LEMMA StageKept ==
  ASSUME IInv, UNCHANGED <<pc, place, stage>>
  PROVE  (WorkersGone /\ NobodySleeps)'
  BY DEF IInv, WorkersGone, NobodySleeps

(* What a step does that only sets flags: those of tasks that wait are in  *)
(* time, and the flags that were set remain.                               *)
LEMMA FlagsKept ==
  ASSUME IInv, NEW T, Flagged(T), UNCHANGED <<call, place, pc, at, stage>>
  PROVE  (HeldIsThere /\ HeldOnce /\ TakenIsHeld /\ NowhereYet
          /\ CancelledWaits /\ WorkersGone /\ NobodySleeps)'
<1>1. NowhereYet'
  BY DEF IInv, NowhereYet
<1>2. CancelledWaits'
  <2> SUFFICES ASSUME NEW t \in Tasks, inTime'[t]
               PROVE  cancel'[t] /\ place'[t] \in {"queue", "taken", "over"}
    BY DEF CancelledWaits
  <2> QED
    BY DEF Flagged, IInv, CancelledWaits
<1> QED
  BY <1>1, <1>2, PlacesKept, StageKept

LEMMA InvStep == IInv /\ [Next]_vars => IInv'
<1> SUFFICES ASSUME IInv, [Next]_vars PROVE IInv'
    OBVIOUS
<1> DEFINE Parts == /\ HeldIsThere /\ HeldOnce /\ TakenIsHeld /\ NowhereYet
                    /\ CancelledWaits /\ WorkersGone /\ NobodySleeps
<1> USE TasksAssumption
<1>0. TypeOK /\ TypeOK'
  BY TypeStep DEF IInv
<1> SUFFICES Parts'
  BY <1>0 DEF IInv
<1>1. CASE \E t \in Tasks : FindName(t) \/ Admit(t) \/ Record(t)
  <2> PICK t \in Tasks : FindName(t) \/ Admit(t) \/ Record(t)
    BY <1>1
  <2>1. UNCHANGED <<pc, at, place, stage, inTime, cancel>>
    BY DEF FindName, Admit, Record
  <2>2. NowhereYet'
    <3> SUFFICES ASSUME NEW u \in Tasks, call'[u] \in {"none", "free", "admitted"}
                 PROVE  place[u] = "none"
      BY <2>1 DEF NowhereYet
    <3>1. call[u] \in {"none", "free", "admitted"}
      BY <1>0 DEF FindName, Admit, Record, TypeOK
    <3> QED
      BY <3>1 DEF IInv, NowhereYet
  <2>3. CancelledWaits'
    BY <2>1 DEF IInv, CancelledWaits
  <2> QED
    BY <2>1, <2>2, <2>3, PlacesKept, StageKept
<1>2. CASE \E t \in Tasks : Push(t)
  <2> PICK t \in Tasks : Push(t)
    BY <1>2
  <2>1. /\ call' = [call EXCEPT ![t] = "scheduled"] /\ place' = [place EXCEPT ![t] = "queue"]
        /\ place[t] = "none" /\ UNCHANGED <<pc, at, stage, inTime, cancel>>
    BY DEF Push, IInv, NowhereYet
  <2>2. HeldIsThere' /\ HeldOnce' /\ TakenIsHeld'
    BY <1>0, <2>1 DEF IInv, HeldIsThere, HeldOnce, TakenIsHeld, Holds, TypeOK
  <2>3. NowhereYet'
    BY <1>0, <2>1 DEF IInv, NowhereYet, TypeOK
  <2>4. CancelledWaits'
    BY <1>0, <2>1 DEF IInv, CancelledWaits, TypeOK
  <2>5. WorkersGone' /\ NobodySleeps'
    BY <1>0, <2>1 DEF IInv, WorkersGone, NobodySleeps, TypeOK
  <2> QED
    BY <2>2, <2>3, <2>4, <2>5
<1>3. CASE \/ \E t \in Tasks : CancelTask(t) \/ CancelAllTasks(Kind[t])
           \/ \E n \in Names : Unregister(n)
  <2>1. PICK T : Flagged(T)
    BY <1>3 DEF CancelTask, CancelAllTasks, Unregister, CancelFirst
  <2>2. UNCHANGED <<call, place, pc, at, stage>>
    BY <1>3 DEF CancelTask, CancelAllTasks, Unregister
  <2> QED
    BY <2>1, <2>2, FlagsKept
<1>4. CASE \E w \in Workers : PassesChecks(w) \/ FindsNone(w)
  <2> PICK w \in Workers : PassesChecks(w) \/ FindsNone(w)
    BY <1>4
  <2>1. /\ UNCHANGED <<place, at, call, cancel, inTime, stage>>
        /\ pc[w] \in {"top", "past"}
        /\ \/ pc' = [pc EXCEPT ![w] = "gone"]
           \/ stage = "up" /\ pc' = [pc EXCEPT ![w] = "past"]
           \/ pc[w] = "past" /\ pc' = [pc EXCEPT ![w] = "top"]
    BY DEF PassesChecks, FindsNone, ofTasks
  <2>2. HeldIsThere' /\ HeldOnce' /\ TakenIsHeld'
    BY <1>0, <2>1 DEF IInv, HeldIsThere, HeldOnce, TakenIsHeld, Holds, TypeOK
  <2>3. NowhereYet' /\ CancelledWaits' /\ NobodySleeps'
    BY <2>1 DEF IInv, NowhereYet, CancelledWaits, NobodySleeps
  <2>4. WorkersGone'
    BY <1>0, <2>1 DEF IInv, WorkersGone, TypeOK
  <2> QED
    BY <2>2, <2>3, <2>4
<1>5. CASE \E w \in Workers, t \in Tasks : GetNextTask(w, t)
  <2> PICK w \in Workers, t \in Tasks : GetNextTask(w, t)
    BY <1>5
  <2>1. /\ UNCHANGED <<call, cancel, inTime, stage>>
        /\ pc[w] = "past" /\ place[t] = "queue"
        /\ pc' = [pc EXCEPT ![w] = "took"] /\ at' = [at EXCEPT ![w] = t]
        /\ place' = [place EXCEPT ![t] = "taken"]
    BY DEF GetNextTask, Queue
  <2>2. \A v \in Workers : ~Holds(v, t)
    BY <2>1 DEF IInv, HeldIsThere, Holds
  <2>3. /\ \A v \in Workers \ {w} : pc'[v] = pc[v] /\ at'[v] = at[v]
        /\ pc'[w] = "took" /\ at'[w] = t
        /\ \A u \in Tasks \ {t} : place'[u] = place[u]
        /\ place'[t] = "taken"
    BY <1>0, <2>1 DEF TypeOK
  <2>4. HeldIsThere'
    BY <1>0, <2>1, <2>2, <2>3 DEF IInv, HeldIsThere, Holds, TypeOK
  <2>5. HeldOnce'
    BY <2>1, <2>2, <2>3 DEF IInv, HeldOnce, Holds
  <2>6. TakenIsHeld'
    <3> SUFFICES ASSUME NEW u \in Tasks, place'[u] \in {"taken", "running"}
                 PROVE  \E v \in Workers : Holds(v, u)'
      BY DEF TakenIsHeld
    <3>1. CASE u = t
      BY <2>3, <3>1 DEF Holds
    <3>2. CASE u # t
      BY <2>1, <2>3, <3>2 DEF IInv, TakenIsHeld, Holds
    <3> QED
      BY <3>1, <3>2
  <2>7. NowhereYet'
    BY <2>1, <2>3 DEF IInv, NowhereYet
  <2>8. CancelledWaits' /\ NobodySleeps'
    BY <2>1, <2>3 DEF IInv, CancelledWaits, NobodySleeps
  <2>9. WorkersGone'
    BY <2>1, <2>3 DEF IInv, WorkersGone
  <2> QED
    BY <2>4, <2>5, <2>6, <2>7, <2>8, <2>9
<1>6. CASE \E w \in Workers : Begins(w)
  <2> PICK w \in Workers : Begins(w)
    BY <1>6
  <2> DEFINE t == at[w]
  <2>1. /\ UNCHANGED <<call, cancel, inTime, stage>> /\ pc[w] = "took"
        /\ t \in Tasks /\ place[t] = "taken" /\ Holds(w, t)
    BY <1>0 DEF Begins, IInv, HeldIsThere, Holds, TypeOK
  <2>2. /\ \A v \in Workers \ {w} : pc'[v] = pc[v] /\ at'[v] = at[v]
        /\ \A u \in Tasks \ {t} : place'[u] = place[u]
        /\ \/ cancel[t] /\ pc'[w] = "top" /\ place'[t] = "over"
           \/ ~cancel[t] /\ pc'[w] = "runs" /\ at'[w] = t /\ place'[t] = "running"
    <3>1. CASE cancel[t]
      <4>1. /\ pc' = [pc EXCEPT ![w] = "top"] /\ at' = [at EXCEPT ![w] = NoTask]
            /\ place' = [place EXCEPT ![t] = "over"]
        BY <3>1 DEF Begins
      <4> QED
        BY <4>1, <3>1, <2>1, <1>0 DEF TypeOK
    <3>2. CASE ~cancel[t]
      <4>1. /\ pc' = [pc EXCEPT ![w] = "runs"] /\ at' = at
            /\ place' = [place EXCEPT ![t] = "running"]
        BY <3>2 DEF Begins
      <4> QED
        BY <4>1, <3>2, <2>1, <1>0 DEF TypeOK
    <3> QED
      BY <3>1, <3>2
  <2> HIDE DEF t
  <2>3. \A v \in Workers \ {w} : ~Holds(v, t)
    BY <2>1 DEF IInv, HeldOnce
  <2>4. HeldIsThere'
    <3>1. \A v \in Workers \ {w} : at[v] \in Tasks \/ pc[v] \notin {"took", "runs"}
      BY <1>0 DEF TypeOK
    <3> QED
      BY <2>1, <2>2, <2>3, <3>1 DEF IInv, HeldIsThere, Holds
  <2>5. HeldOnce'
    BY <2>1, <2>2, <2>3 DEF IInv, HeldOnce, Holds
  <2>6. TakenIsHeld'
    <3> SUFFICES ASSUME NEW u \in Tasks, place'[u] \in {"taken", "running"}
                 PROVE  \E v \in Workers : Holds(v, u)'
      BY DEF TakenIsHeld
    <3>1. CASE u = t
      BY <2>2, <3>1 DEF Holds
    <3>2. CASE u # t
      BY <2>1, <2>2, <3>2 DEF IInv, TakenIsHeld, Holds
    <3> QED
      BY <3>1, <3>2
  <2>7. NowhereYet'
    BY <2>1, <2>2 DEF IInv, NowhereYet
  <2>8. CancelledWaits' /\ NobodySleeps'
    BY <2>1, <2>2 DEF IInv, CancelledWaits, NobodySleeps
  <2>9. WorkersGone'
    BY <2>1 DEF IInv, WorkersGone
  <2> QED
    BY <2>4, <2>5, <2>6, <2>7, <2>8, <2>9
<1>7. CASE \E w \in Workers, ok \in BOOLEAN : Ends(w, ok)
  <2> PICK w \in Workers, ok \in BOOLEAN : Ends(w, ok)
    BY <1>7
  <2> DEFINE t == at[w]
  <2>1. /\ UNCHANGED <<call, inTime, stage>> /\ pc[w] = "runs"
        /\ t \in Tasks /\ place[t] = "running" /\ Holds(w, t)
    BY <1>0 DEF Ends, IInv, HeldIsThere, Holds, TypeOK
  <2>2. /\ \A v \in Workers \ {w} : pc'[v] = pc[v] /\ at'[v] = at[v]
        /\ pc'[w] = "top"
        /\ \A u \in Tasks \ {t} : place'[u] = place[u]
        /\ place'[t] \in {"asleep", "over"}
    <3>1. /\ pc' = [pc EXCEPT ![w] = "top"] /\ at' = [at EXCEPT ![w] = NoTask]
          /\ place' = [place EXCEPT ![t] = IF ok /\ t \in Periodic THEN "asleep" ELSE "over"]
      BY DEF Ends
    <3> QED
      BY <3>1, <2>1, <1>0 DEF TypeOK
  <2>3. \A u \in Tasks \ {t} : cancel'[u] = cancel[u]
    <3>1. \E c : cancel' = [cancel EXCEPT ![t] = c]
      BY DEF Ends
    <3> QED
      BY <3>1, <1>0 DEF TypeOK
  <2> HIDE DEF t
  <2>4. \A v \in Workers \ {w} : ~Holds(v, t)
    BY <2>1 DEF IInv, HeldOnce
  <2>5. HeldIsThere'
    <3>1. \A v \in Workers \ {w} : at[v] \in Tasks \/ pc[v] \notin {"took", "runs"}
      BY <1>0 DEF TypeOK
    <3> QED
      BY <2>1, <2>2, <2>4, <3>1 DEF IInv, HeldIsThere, Holds
  <2>6. HeldOnce'
    BY <2>1, <2>2 DEF IInv, HeldOnce, Holds
  <2>7. TakenIsHeld'
    BY <2>1, <2>2 DEF IInv, TakenIsHeld, Holds
  <2>8. NowhereYet'
    BY <2>1, <2>2 DEF IInv, NowhereYet
  <2>9. CancelledWaits'
    BY <2>1, <2>2, <2>3 DEF IInv, CancelledWaits
  <2>10. WorkersGone' /\ NobodySleeps'
    BY <2>1 DEF IInv, WorkersGone, NobodySleeps
  <2> QED
    BY <2>5, <2>6, <2>7, <2>8, <2>9, <2>10
<1>8. CASE \E t \in Tasks : Wakes(t) \/ Requeues(t)
  <2> PICK t \in Tasks : Wakes(t) \/ Requeues(t)
    BY <1>8
  <2>1. /\ UNCHANGED <<call, cancel, inTime, stage, pc, at>>
        /\ place[t] \in {"asleep", "waking"}
        /\ place'[t] \in {"waking", "over", "queue"}
        /\ \A u \in Tasks \ {t} : place'[u] = place[u]
    BY <1>0 DEF Wakes, Requeues, TypeOK
  <2>2. HeldIsThere'
    BY <1>0, <2>1 DEF IInv, HeldIsThere, TypeOK
  <2>3. HeldOnce' /\ WorkersGone'
    BY <2>1 DEF IInv, HeldOnce, WorkersGone, Holds
  <2>4. TakenIsHeld'
    BY <2>1 DEF IInv, TakenIsHeld, Holds
  <2>5. NowhereYet'
    BY <2>1 DEF IInv, NowhereYet
  <2>6. CancelledWaits' /\ NobodySleeps'
    BY <2>1 DEF IInv, CancelledWaits, NobodySleeps
  <2> QED
    BY <2>2, <2>3, <2>4, <2>5, <2>6
<1>9. CASE PauseExecution \/ ResumeExecution \/ Shutdown \/ JoinWorkers
  <2>1. /\ UNCHANGED <<call, cancel, inTime, place, pc, at>>
        /\ \/ stage' \in {"up", "stopping"} \/ stage' = stage
           \/ stage' = "joined" /\ \A w \in Workers : pc[w] = "gone"
    BY <1>9 DEF PauseExecution, ResumeExecution, Shutdown, JoinWorkers, ofTasks
  <2>2. WorkersGone'
    BY <2>1 DEF IInv, WorkersGone
  <2>3. NobodySleeps'
    BY <2>1 DEF IInv, NobodySleeps
  <2>4. NowhereYet' /\ CancelledWaits'
    BY <2>1 DEF IInv, NowhereYet, CancelledWaits
  <2> QED
    BY <2>1, <2>2, <2>3, <2>4, PlacesKept
<1>10. CASE JoinSleepers
  <2>1. /\ UNCHANGED <<call, cancel, inTime, pc, at>>
        /\ stage = "joined" /\ stage' = "down"
        /\ \A t \in Tasks : /\ place[t] \notin {"asleep", "waking"}
                           /\ place'[t] = IF place[t] = "queue" THEN "over" ELSE place[t]
    BY <1>10 DEF JoinSleepers, Cleared
  <2>2. \A w \in Workers : pc[w] = "gone"
    BY <2>1 DEF IInv, WorkersGone
  <2>3. HeldIsThere' /\ HeldOnce' /\ WorkersGone'
    BY <2>1, <2>2 DEF HeldIsThere, HeldOnce, WorkersGone, Holds
  <2>4. TakenIsHeld'
    BY <2>1 DEF IInv, TakenIsHeld, Holds
  <2>5. NowhereYet'
    BY <2>1 DEF IInv, NowhereYet
  <2>6. CancelledWaits'
    BY <2>1 DEF IInv, CancelledWaits
  <2>7. NobodySleeps'
    BY <2>1 DEF NobodySleeps
  <2> QED
    BY <2>3, <2>4, <2>5, <2>6, <2>7
<1>11. CASE UNCHANGED vars
  <2>1. NowhereYet' /\ CancelledWaits'
    BY <1>11 DEF vars, ofTasks, IInv, NowhereYet, CancelledWaits
  <2>2. UNCHANGED <<pc, at, place, stage>>
    BY <1>11 DEF vars, ofTasks
  <2> QED
    BY <2>1, <2>2, PlacesKept, StageKept
<1> QED
  BY <1>1, <1>2, <1>3, <1>4, <1>5, <1>6, <1>7, <1>8, <1>9, <1>10, <1>11 DEF Next, Step

LEMMA Invariance == Spec => []IInv
<1>1. Init => IInv
  BY InvInit
<1>2. IInv /\ [Next]_vars => IInv'
  BY InvStep
<1> QED
  BY <1>1, <1>2, PTL DEF Spec

-----------------------------------------------------------------------------
(***************************************************************************)
(* Every reachable state is one the members of BackgroundManager and       *)
(* background_tasks_ can describe, and a worker holds a task exactly       *)
(* between taking it and returning to the top of its loop.                 *)
(***************************************************************************)
THEOREM TypeCorrect == Spec => []TypeOK
  BY Invariance, PTL DEF IInv

(***************************************************************************)
(* Whatever the tasks and however many the workers: when Shutdown returns, *)
(* no worker and no sleeping thread is left (Shutdown,                     *)
(* SchedulePeriodicTaskInternal).                                          *)
(***************************************************************************)
THEOREM DownIsQuiet == Spec => []QuietWhenDown
<1>1. IInv => QuietWhenDown
  BY DEF IInv, QuietWhenDown, WorkersGone, NobodySleeps, TakenIsHeld, Holds
<1> QED
  BY <1>1, Invariance, PTL

(***************************************************************************)
(* A task cancelled before a worker looked at its flag is not run          *)
(* (CancelTask, CancelAllTasks, WorkerThreadFunction).                     *)
(***************************************************************************)
THEOREM CancelledTasksRest == Spec => []CancelledIsNotRun
<1>1. IInv => CancelledIsNotRun
  BY DEF IInv, CancelledIsNotRun, CancelledWaits
<1> QED
  BY <1>1, Invariance, PTL
=============================================================================
