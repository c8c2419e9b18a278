---------------------------- MODULE WorkflowRunProofs ----------------------------
(***************************************************************************)
(* What holds of a run of any graph of any number of steps, with any       *)
(* number of retries, proved of WorkflowRun!Spec.                          *)
(*                                                                         *)
(* The argument.  A subtask of a cycle is never visited, because one of    *)
(* its dependencies would have been visited before it: so a graph that is  *)
(* executed has no cycle.  Place and status of a step go together, and no  *)
(* step that could begin is left waiting.  Then, if no task were in        *)
(* flight, every step that is not completed would wait for another one     *)
(* that is not completed: a cycle.                                         *)
(***************************************************************************)
EXTENDS WorkflowRun, TLAPS

\* The loop of detectCycle has not entered a cycle, and has ended when it has.
CheckInv ==
    /\ \A C \in SUBSET Subtask :
           (\A n \in C : Known(n) \cap C # {}) => C \cap visited = {}
    /\ phase = "rejected" => QueueIsEmpty /\ visited # Subtask
    /\ phase \in {"executing", "resolved"} => visited = Subtask
    /\ phase \in {"checking", "rejected"} =>
           /\ ~aborted
           /\ ~paused
           /\ \A n \in Subtask : status[n] = "pending"

\* How the place of a step and its status go together.
Agrees(n) ==
    /\ step[n] = "idle" <=> status[n] = "pending"
    /\ step[n] \in {"first", "again"} => status[n] = "running"
    /\ step[n] = "review" => status[n] \in {"completed", "paused"}
    /\ step[n] = "done" /\ status[n] = "running" => aborted
    /\ step[n] = "again" => attempt[n] <= MaxRetries
    /\ step[n] \in {"idle", "first"} => attempt[n] = 0
    /\ status[n] = "paused" => paused

PlaceInv == \A n \in Subtask : Agrees(n)

\* The scheduler leaves no step waiting that could begin.
NoneLeftWaiting ==
    phase = "executing" /\ ~aborted /\ ~paused =>
        Ready(status) = {} /\ ~AllDone(status)

IInv ==
    /\ RunTypeOK
    /\ CheckInv
    /\ PlaceInv
    /\ NoneLeftWaiting
    /\ ResolvedRunHasRunAll

-----------------------------------------------------------------------------
(* The steps of a run, as what they do to each of its steps. *)

\* An original runSubtask that ends: n takes its outcome and its new place, the
\* steps it starts were pending and run, and all others are as they were.
LEMMA OriginalEffect ==
    ASSUME RunTypeOK, NEW n \in Subtask, NEW outcome \in {"completed", "paused"},
           NEW pl \in {"review", "done"}, OriginalEnds(n, outcome, pl)
    PROVE  /\ n \notin StartedBy(n, outcome)
           /\ status'[n] = outcome /\ step'[n] = pl
           /\ \A m \in StartedBy(n, outcome) :
                  /\ m \in Subtask
                  /\ status[m] = "pending" /\ status'[m] = "running"
                  /\ step'[m] = "first" /\ inputs'[m] = stored
           /\ \A m \in Subtask \ (StartedBy(n, outcome) \cup {n}) :
                  status'[m] = status[m] /\ step'[m] = step[m]
           /\ \A m \in Subtask \ StartedBy(n, outcome) : inputs'[m] = inputs[m]
           /\ \A m \in Subtask \ {n} : attempt'[m] = attempt[m]
           /\ attempt'[n] = IF pl = "review" THEN attempt[n] + 1 ELSE attempt[n]
<1>. DEFINE S == StartedBy(n, outcome)
<1>1. After(n, outcome) \in [Subtask -> Status]
  BY DEF After, RunTypeOK, Status
<1>2. /\ After(n, outcome)[n] = outcome
      /\ \A m \in Subtask \ {n} : After(n, outcome)[m] = status[m]
  BY DEF After, RunTypeOK
<1>3. S \subseteq Subtask /\ \A m \in S : After(n, outcome)[m] = "pending"
  BY DEF StartedBy, Ready
<1>4. n \notin S
  BY <1>2, <1>3
<1>5. status' = Started(After(n, outcome), S)
  BY DEF OriginalEnds, TaskEnds
<1>6. step' = Begun(S, [step EXCEPT ![n] = pl]) /\ inputs' = Substituted(S, inputs)
  BY DEF OriginalEnds
<1>7. attempt' = [attempt EXCEPT ![n] = IF pl = "review" THEN @ + 1 ELSE @]
  BY DEF OriginalEnds
<1>8. step \in [Subtask -> Place] /\ attempt \in [Subtask -> 0 .. MaxRetries + 1]
  BY DEF RunTypeOK
<1>. HIDE DEF S
<1>9. status'[n] = outcome /\ step'[n] = pl
  BY <1>2, <1>4, <1>5, <1>6, <1>8 DEF Started, Begun
<1>10. \A m \in S : /\ m \in Subtask
                     /\ status[m] = "pending" /\ status'[m] = "running"
                     /\ step'[m] = "first" /\ inputs'[m] = stored
  BY <1>2, <1>3, <1>4, <1>5, <1>6 DEF Started, Begun, Substituted
<1>11. \A m \in Subtask \ (S \cup {n}) : status'[m] = status[m] /\ step'[m] = step[m]
  BY <1>2, <1>5, <1>6, <1>8 DEF Started, Begun
<1>12. \A m \in Subtask \ S : inputs'[m] = inputs[m]
  BY <1>6 DEF Substituted
<1>13. /\ \A m \in Subtask \ {n} : attempt'[m] = attempt[m]
       /\ attempt'[n] = IF pl = "review" THEN attempt[n] + 1 ELSE attempt[n]
  BY <1>7, <1>8
<1>. QED  BY <1>4, <1>9, <1>10, <1>11, <1>12, <1>13 DEF S

\* A task that ends is the end of an original runSubtask of a running step.
LEMMA TaskIsOriginal ==
    ASSUME IInv, NEW n \in Subtask, TaskOf(n)
    PROVE  \E outcome \in {"completed", "paused"}, pl \in {"review", "done"} :
               /\ OriginalEnds(n, outcome, pl)
               /\ step[n] \in {"first", "again"}
               /\ pl = "review" => ~aborted /\ attempt[n] <= MaxRetries
               /\ step[n] = "first" /\ pl = "review" => outcome = "completed"
<1>1. PICK outcome \in {"completed", "paused"} :
           FirstTaskEnds(n, outcome) \/ RepeatedTaskEnds(n, outcome)
  BY DEF TaskOf
<1>2. CASE FirstTaskEnds(n, outcome)
  <2>. DEFINE pl == IF n \in inspect /\ outcome = "completed" /\ ~aborted
                    THEN "review" ELSE "done"
  <2>1. OriginalEnds(n, outcome, pl) /\ step[n] = "first"
    BY <1>2 DEF FirstTaskEnds
  <2>2. attempt[n] <= MaxRetries
    BY <2>1, RetriesAssumption DEF IInv, PlaceInv, Agrees
  <2>3. /\ pl \in {"review", "done"}
        /\ pl = "review" => ~aborted /\ outcome = "completed"
    OBVIOUS
  <2>. HIDE DEF pl
  <2>. QED  BY <2>1, <2>2, <2>3
<1>3. CASE RepeatedTaskEnds(n, outcome)
  <2>. DEFINE pl == IF aborted THEN "done" ELSE "review"
  <2>1. OriginalEnds(n, outcome, pl) /\ step[n] = "again"
    BY <1>3 DEF RepeatedTaskEnds
  <2>2. attempt[n] <= MaxRetries
    BY <2>1 DEF IInv, PlaceInv, Agrees
  <2>3. pl \in {"review", "done"} /\ (pl = "review" => ~aborted)
    OBVIOUS
  <2>. HIDE DEF pl
  <2>. QED  BY <2>1, <2>2, <2>3
<1>. QED  BY <1>1, <1>2, <1>3

-----------------------------------------------------------------------------
(* The parts of the invariant, one by one. *)

LEMMA InitEstablishes == Init => IInv
<1>. SUFFICES ASSUME Init PROVE IInv
  OBVIOUS
<1>1. RunTypeOK
  <2>1. 0 \in 0 .. MaxRetries + 1
    BY RetriesAssumption
  <2>2. /\ status \in [Subtask -> Status]
        /\ step \in [Subtask -> Place]
        /\ attempt \in [Subtask -> 0 .. MaxRetries + 1]
        /\ inputs \in [Subtask -> SUBSET Subtask]
    BY <2>1 DEF Init, SchedulerInit, Status, Place
  <2>. QED  BY <2>2 DEF Init, SchedulerInit, RunTypeOK
<1>2. CheckInv
  BY DEF Init, SchedulerInit, CheckInv
<1>3. PlaceInv
  BY DEF Init, SchedulerInit, PlaceInv, Agrees
<1>4. NoneLeftWaiting /\ ResolvedRunHasRunAll
  BY DEF Init, SchedulerInit, NoneLeftWaiting, ResolvedRunHasRunAll
<1>. QED  BY <1>1, <1>2, <1>3, <1>4 DEF IInv

LEMMA TypesKept == IInv /\ Next => RunTypeOK'
<1>. SUFFICES ASSUME IInv, Next PROVE RunTypeOK'
  OBVIOUS
<1>. USE DEF IInv
<1>0. MaxRetries \in Nat
  BY RetriesAssumption
<1>1. ASSUME NEW n \in Subtask, CheckStep(n) PROVE RunTypeOK'
  BY <1>1 DEF CheckStep, Visit, runVars, RunTypeOK
<1>2. CASE Refuse
  BY <1>2 DEF Refuse, Reject, RunTypeOK
<1>3. CASE Launch
  BY <1>3 DEF Launch, Execute, Started, Begun, Substituted, RunTypeOK, Status, Place
<1>4. ASSUME NEW n \in Subtask, TaskOf(n) PROVE RunTypeOK'
  <2>1. PICK outcome \in {"completed", "paused"}, pl \in {"review", "done"} :
             /\ OriginalEnds(n, outcome, pl)
             /\ pl = "review" => attempt[n] <= MaxRetries
    BY <1>4, TaskIsOriginal
  <2>2. status' \in [Subtask -> Status] /\ paused' \in BOOLEAN
        /\ phase' \in {"checking", "rejected", "executing", "resolved"}
    BY <2>1 DEF OriginalEnds, TaskEnds, Started, After, PausedAfter, RunTypeOK, Status
  <2>3. /\ step' \in [Subtask -> Place]
        /\ inputs' \in [Subtask -> SUBSET Subtask]
        /\ stored' \subseteq Subtask
    BY <2>1 DEF OriginalEnds, Begun, Substituted, RunTypeOK, Place
  <2>4. record' \in {"running", "completed", "failed"}
    BY <2>1 DEF OriginalEnds, RecordAfter, RunTypeOK
  <2>5. attempt' \in [Subtask -> 0 .. MaxRetries + 1]
    <3>1. /\ attempt' = [attempt EXCEPT ![n] = IF pl = "review" THEN @ + 1 ELSE @]
          /\ attempt \in [Subtask -> 0 .. MaxRetries + 1]
      BY <2>1 DEF OriginalEnds, RunTypeOK
    <3>. QED  BY <1>0, <2>1, <3>1
  <2>6. UNCHANGED <<dependsOn, visited, aborted, inspect, up>>
    BY <2>1 DEF OriginalEnds, TaskEnds
  <2>. QED  BY <2>2, <2>3, <2>4, <2>5, <2>6 DEF RunTypeOK
<1>5. ASSUME NEW n \in Subtask, ReviewOf(n) PROVE RunTypeOK'
  <2>1. CASE ReviewPasses(n)
    BY <2>1 DEF ReviewPasses, RunTypeOK, Status, Place
  <2>2. CASE ReviewFails(n)
    BY <2>2 DEF ReviewFails, RunTypeOK, Status, Place
  <2>3. CASE ReviewDies(n)
    BY <2>3 DEF ReviewDies, schedulerVars, RunTypeOK
  <2>. QED  BY <1>5, <2>1, <2>2, <2>3 DEF ReviewOf
<1>6. CASE AbortRun
  BY <1>6 DEF AbortRun, Abort, runVars, RunTypeOK
<1>. QED  BY <1>1, <1>2, <1>3, <1>4, <1>5, <1>6 DEF Next

\* The loop of detectCycle visits no subtask of a cycle, and nothing runs
\* before it is over.
LEMMA CheckKept == IInv /\ Next => CheckInv'
<1>. SUFFICES ASSUME IInv, Next PROVE CheckInv'
  OBVIOUS
<1>. USE DEF IInv
<1>1. ASSUME NEW n \in Subtask, CheckStep(n) PROVE CheckInv'
  <2>1. /\ phase = "checking" /\ Known(n) \subseteq visited
        /\ visited' = visited \cup {n}
        /\ UNCHANGED <<dependsOn, phase, status, paused, aborted>>
    BY <1>1 DEF CheckStep, Visit
  <2>2. ASSUME NEW C \in SUBSET Subtask, \A m \in C : Known(m)' \cap C # {}
        PROVE  C \cap visited' = {}
    <3>1. \A m \in C : Known(m) \cap C # {}
      BY <2>1, <2>2 DEF Known
    <3>2. C \cap visited = {}
      BY <3>1 DEF CheckInv
    <3>3. n \notin C
      BY <2>1, <3>1, <3>2
    <3>. QED  BY <2>1, <3>2, <3>3
  <2>. QED  BY <2>1, <2>2 DEF CheckInv
<1>2. CASE Refuse
  BY <1>2 DEF Refuse, Reject, CheckInv, QueueIsEmpty, Known
<1>3. CASE Launch
  BY <1>3 DEF Launch, Execute, CheckInv, Known
<1>4. ASSUME NEW n \in Subtask, TaskOf(n) PROVE CheckInv'
  <2>1. PICK outcome \in {"completed", "paused"}, pl \in {"review", "done"} :
             OriginalEnds(n, outcome, pl) /\ step[n] \in {"first", "again"}
    BY <1>4, TaskIsOriginal
  <2>2. phase \in {"executing", "resolved"}
    BY <2>1 DEF PlaceInv, Agrees, CheckInv, RunTypeOK
  <2>3. /\ phase' \in {phase, "resolved"}
        /\ UNCHANGED <<dependsOn, visited>>
    BY <2>1 DEF OriginalEnds, TaskEnds
  <2>. QED  BY <2>2, <2>3 DEF CheckInv, Known
<1>5. ASSUME NEW n \in Subtask, ReviewOf(n) PROVE CheckInv'
  <2>1. step[n] = "review" /\ UNCHANGED <<dependsOn, visited, phase>>
    BY <1>5 DEF ReviewOf, ReviewPasses, ReviewFails, ReviewDies, schedulerVars
  <2>2. phase \in {"executing", "resolved"}
    BY <2>1 DEF PlaceInv, Agrees, CheckInv, RunTypeOK
  <2>. QED  BY <2>1, <2>2 DEF CheckInv, Known
<1>6. CASE AbortRun
  BY <1>6 DEF AbortRun, Abort, CheckInv, Known
<1>. QED  BY <1>1, <1>2, <1>3, <1>4, <1>5, <1>6 DEF Next

\* The place of a step and its status go together.
LEMMA PlaceKept == IInv /\ Next => PlaceInv'
<1>. SUFFICES ASSUME IInv, Next PROVE PlaceInv'
  OBVIOUS
<1>. USE DEF IInv
<1>1. ASSUME NEW n \in Subtask, CheckStep(n) PROVE PlaceInv'
  BY <1>1 DEF CheckStep, Visit, runVars, PlaceInv, Agrees
<1>2. CASE Refuse
  BY <1>2 DEF Refuse, Reject, PlaceInv, Agrees
<1>3. CASE Launch
  BY <1>3 DEF Launch, Execute, Started, Begun, Ready, PlaceInv, Agrees, RunTypeOK
<1>4. ASSUME NEW n \in Subtask, TaskOf(n) PROVE PlaceInv'
  <2>1. PICK outcome \in {"completed", "paused"}, pl \in {"review", "done"} :
             /\ OriginalEnds(n, outcome, pl)
             /\ step[n] \in {"first", "again"}
             /\ pl = "review" => ~aborted /\ attempt[n] <= MaxRetries
    BY <1>4, TaskIsOriginal
  <2>2. UNCHANGED aborted /\ (paused' <=> paused \/ outcome = "paused")
    BY <2>1 DEF OriginalEnds, TaskEnds, PausedAfter, RunTypeOK
  <2>. DEFINE S == StartedBy(n, outcome)
  <2>3. /\ n \notin S
        /\ status'[n] = outcome /\ step'[n] = pl
        /\ \A m \in S : /\ status[m] = "pending" /\ status'[m] = "running"
                        /\ step'[m] = "first" /\ attempt'[m] = attempt[m]
        /\ \A m \in Subtask \ (S \cup {n}) :
               /\ status'[m] = status[m] /\ step'[m] = step[m]
               /\ attempt'[m] = attempt[m]
    <3>. HIDE DEF IInv
    <3>. QED  BY <2>1, OriginalEffect DEF IInv
  <2>. HIDE DEF S
  <2>4. ASSUME NEW m \in Subtask PROVE Agrees(m)'
    <3>1. CASE m = n
      BY <2>2, <2>3, <3>1 DEF PlaceInv, Agrees
    <3>2. CASE m \in S
      BY <2>2, <2>3, <3>2 DEF PlaceInv, Agrees
    <3>3. CASE m \notin S \cup {n}
      BY <2>2, <2>3, <3>3 DEF PlaceInv, Agrees
    <3>. QED  BY <3>1, <3>2, <3>3
  <2>. QED  BY <2>4 DEF PlaceInv
<1>5. ASSUME NEW n \in Subtask, ReviewOf(n) PROVE PlaceInv'
  <2>1. CASE ReviewPasses(n)
    BY <2>1 DEF ReviewPasses, PlaceInv, Agrees, RunTypeOK
  <2>2. CASE ReviewFails(n)
    BY <2>2 DEF ReviewFails, PlaceInv, Agrees, RunTypeOK
  <2>3. CASE ReviewDies(n)
    BY <2>3 DEF ReviewDies, schedulerVars, PlaceInv, Agrees
  <2>. QED  BY <1>5, <2>1, <2>2, <2>3 DEF ReviewOf
<1>6. CASE AbortRun
  BY <1>6 DEF AbortRun, Abort, runVars, PlaceInv, Agrees
<1>. QED  BY <1>1, <1>2, <1>3, <1>4, <1>5, <1>6 DEF Next

\* onSubtaskComplete starts whatever has become ready, or resolves the run.
LEMMA WaitingKept == IInv /\ Next => NoneLeftWaiting'
<1>. SUFFICES ASSUME IInv, Next, phase' = "executing", ~aborted', ~paused'
              PROVE  Ready(status)' = {} /\ ~AllDone(status)'
  BY DEF NoneLeftWaiting
<1>. USE DEF IInv
<1>1. ASSUME NEW n \in Subtask, CheckStep(n) PROVE FALSE
  BY <1>1 DEF CheckStep, Visit
<1>2. ~Refuse
  BY DEF Refuse, Reject
<1>3. CASE Launch
  <2>1. /\ visited = Subtask /\ status' = Started(status, Ready(status))
        /\ UNCHANGED dependsOn
        /\ \A n \in Subtask : status[n] = "pending"
    BY <1>3 DEF Launch, Execute, CheckInv
  <2>2. \A n \in Subtask : status'[n] \in {"pending", "running"}
    BY <2>1 DEF Started
  <2>3. Ready(status)' = {}
    BY <2>1, <2>2 DEF Ready, Started, Known
  <2>4. ~AllDone(status)'
    BY <2>2, SchedulerAssumption DEF AllDone
  <2>. QED  BY <2>3, <2>4
<1>4. ASSUME NEW n \in Subtask, TaskOf(n)
      PROVE  Ready(status)' = {} /\ ~AllDone(status)'
  <2>1. PICK outcome \in {"completed", "paused"}, pl \in {"review", "done"} :
             OriginalEnds(n, outcome, pl)
    BY <1>4, TaskIsOriginal
  <2>. DEFINE st == After(n, outcome)
  <2>2. /\ status' = Started(st, StartedBy(n, outcome))
        /\ ~PausedAfter(outcome) /\ ~aborted
        /\ ~Resolves(n, outcome)
        /\ UNCHANGED dependsOn
    BY <2>1 DEF OriginalEnds, TaskEnds
  <2>3. ~AllDone(st) /\ StartedBy(n, outcome) = Ready(st)
    BY <2>2 DEF Resolves, StartedBy
  <2>4. status' = Started(st, Ready(st))
    BY <2>2, <2>3
  <2>. HIDE DEF st
  <2>5. Ready(status)' = {}
    BY <2>2, <2>4 DEF Ready, Started, Known
  <2>6. ~AllDone(status)'
    <3>1. PICK m \in Subtask : st[m] \notin {"completed", "failed"}
      BY <2>3 DEF AllDone
    <3>2. status'[m] \notin {"completed", "failed"}
      BY <2>4, <3>1 DEF Started
    <3>. QED  BY <3>2 DEF AllDone
  <2>. QED  BY <2>5, <2>6
<1>5. ASSUME NEW n \in Subtask, ReviewOf(n)
      PROVE  Ready(status)' = {} /\ ~AllDone(status)'
  <2>1. /\ step[n] = "review"
        /\ \/ status' = [status EXCEPT ![n] = "completed"]
           \/ status' = [status EXCEPT ![n] = "failed"]
           \/ status' = [status EXCEPT ![n] = "running"]
           \/ status' = status
        /\ UNCHANGED <<dependsOn, phase, aborted, paused>>
    BY <1>5 DEF ReviewOf, ReviewPasses, ReviewFails, ReviewDies, schedulerVars
  <2>2. Ready(status) = {} /\ ~AllDone(status)
    BY <2>1 DEF NoneLeftWaiting
  <2>3. status[n] = "completed" /\ status \in [Subtask -> Status]
    BY <2>1 DEF PlaceInv, Agrees, RunTypeOK
  <2>4. /\ status'[n] \in {"completed", "failed", "running"}
        /\ \A m \in Subtask \ {n} : status'[m] = status[m]
    BY <2>1, <2>3
  <2>5. Ready(status)' = {}
    BY <2>1, <2>2, <2>3, <2>4 DEF Ready, Known
  <2>6. ~AllDone(status)'
    BY <2>2, <2>3, <2>4 DEF AllDone
  <2>. QED  BY <2>5, <2>6
<1>6. ~AbortRun
  BY DEF AbortRun, Abort
<1>. QED  BY <1>1, <1>2, <1>3, <1>4, <1>5, <1>6 DEF Next

\* The run resolves in the step that ends its last first task.
LEMMA ResolvedKept == IInv /\ Next => ResolvedRunHasRunAll'
<1>. SUFFICES ASSUME IInv, Next, phase' = "resolved", NEW m \in Subtask
              PROVE  step'[m] \notin {"idle", "first"}
  BY DEF ResolvedRunHasRunAll
<1>. USE DEF IInv
<1>1. ASSUME NEW n \in Subtask, CheckStep(n) PROVE FALSE
  BY <1>1 DEF CheckStep, Visit
<1>2. ~Refuse /\ ~Launch
  BY DEF Refuse, Reject, Launch, Execute
<1>3. ASSUME NEW n \in Subtask, TaskOf(n)
      PROVE  step'[m] \notin {"idle", "first"}
  <2>1. PICK outcome \in {"completed", "paused"}, pl \in {"review", "done"} :
             OriginalEnds(n, outcome, pl)
    BY <1>3, TaskIsOriginal
  <2>2. \/ phase = "resolved"
        \/ AllDone(After(n, outcome))
    BY <2>1 DEF OriginalEnds, TaskEnds, Resolves
  <2>3. \A k \in Subtask \ {n} : After(n, outcome)[k] = status[k]
    BY DEF After, RunTypeOK
  <2>4. m # n => step[m] \notin {"idle", "first"} /\ status[m] # "pending"
    BY <2>2, <2>3 DEF AllDone, ResolvedRunHasRunAll, PlaceInv, Agrees
  <2>5. /\ step'[n] = pl
        /\ \A k \in StartedBy(n, outcome) : status[k] = "pending"
        /\ n \notin StartedBy(n, outcome)
        /\ \A k \in Subtask \ (StartedBy(n, outcome) \cup {n}) : step'[k] = step[k]
    <3>. HIDE DEF IInv
    <3>. QED  BY <2>1, OriginalEffect DEF IInv
  <2>. QED  BY <2>4, <2>5
<1>4. ASSUME NEW n \in Subtask, ReviewOf(n)
      PROVE  step'[m] \notin {"idle", "first"}
  BY <1>4 DEF ReviewOf, ReviewPasses, ReviewFails, ReviewDies, schedulerVars,
              ResolvedRunHasRunAll, RunTypeOK
<1>5. CASE AbortRun
  BY <1>5 DEF AbortRun, Abort, runVars, ResolvedRunHasRunAll
<1>. QED  BY <1>1, <1>2, <1>3, <1>4, <1>5 DEF Next

LEMMA Inductive == Spec => []IInv
<1>1. IInv /\ [Next]_vars => IInv'
  <2>. SUFFICES ASSUME IInv, [Next]_vars PROVE IInv'
    OBVIOUS
  <2>1. CASE Next
    BY <2>1, TypesKept, CheckKept, PlaceKept, WaitingKept, ResolvedKept DEF IInv
  <2>2. CASE UNCHANGED vars
    BY <2>2 DEF vars, schedulerVars, runVars, IInv, RunTypeOK, CheckInv, QueueIsEmpty, Known,
                PlaceInv, Agrees, NoneLeftWaiting, Ready, AllDone, ResolvedRunHasRunAll
  <2>. QED  BY <2>1, <2>2
<1>. QED  BY InitEstablishes, <1>1, PTL DEF Spec

-----------------------------------------------------------------------------
(* The theorems. *)

\* Type correctness, and with it the bound on the reviews of a step
\* (workflow-executor.js, the loop over attempts).
THEOREM RunTypesCorrect == Spec => []RunTypeOK
<1>1. IInv => RunTypeOK
  BY DEF IInv
<1>. QED  BY Inductive, <1>1, PTL

\* Kahn's loop (dag-scheduler.js, detectCycle) refuses a graph of any size
\* exactly when it has a cycle.
THEOREM CyclesRefused == Spec => []CycleIsRefused
<1>1. IInv => CycleIsRefused
  <2>. SUFFICES ASSUME IInv PROVE CycleIsRefused
    OBVIOUS
  <2>1. ASSUME phase = "rejected" PROVE Cyclic
    <3>. DEFINE C == Subtask \ visited
    <3>1. C # {} /\ C \in SUBSET Subtask
      BY <2>1 DEF IInv, CheckInv, RunTypeOK
    <3>2. \A n \in C : Known(n) \cap C # {}
      BY <2>1 DEF IInv, CheckInv, QueueIsEmpty, Known
    <3>. QED  BY <3>1, <3>2 DEF Cyclic
  <2>2. ASSUME phase \in {"executing", "resolved"} PROVE ~Cyclic
    BY <2>2 DEF IInv, CheckInv, Cyclic
  <2>. QED  BY <2>1, <2>2 DEF CycleIsRefused
<1>. QED  BY Inductive, <1>1, PTL

\* As long as no task has failed, no step has failed its last review and nobody
\* has aborted the run, onSubtaskComplete keeps a task in flight until the end.
THEOREM Continues == Spec => []WorkContinues
<1>1. IInv => WorkContinues
  <2>. SUFFICES ASSUME IInv, phase = "executing", ~aborted, ~paused,
                       \A n \in Subtask : status[n] # "failed"
                PROVE  \E n \in Subtask : step[n] \in {"first", "again"}
    BY DEF WorkContinues
  <2>. DEFINE C == {n \in Subtask : status[n] # "completed"}
  <2>1. C # {}
    BY DEF IInv, NoneLeftWaiting, AllDone
  <2>2. PICK n \in C : Known(n) \cap C = {}
    <3>1. C \cap visited = C
      BY DEF IInv, CheckInv
    <3>. QED  BY <2>1, <3>1 DEF IInv, CheckInv
  <2>3. \A d \in Known(n) : status[d] = "completed"
    BY <2>2 DEF Known
  <2>4. n \in Subtask /\ status[n] \notin {"pending", "completed", "failed"}
    BY <2>2, <2>3 DEF IInv, NoneLeftWaiting, Ready
  <2>5. status[n] = "running"
    BY <2>4 DEF IInv, RunTypeOK, Status, PlaceInv, Agrees
  <2>6. step[n] \in {"first", "again"}
    BY <2>4, <2>5 DEF IInv, RunTypeOK, Place, PlaceInv, Agrees
  <2>. QED  BY <2>4, <2>6
<1>. QED  BY Inductive, <1>1, PTL

\* A run is resolved only when each of its steps has had its first task.
THEOREM RunsAll == Spec => []ResolvedRunHasRunAll
<1>1. IInv => ResolvedRunHasRunAll
  BY DEF IInv
<1>. QED  BY Inductive, <1>1, PTL

\* A pause holds back the steps that have not begun, and an abort every task.
THEOREM HeldBack == Spec => HoldsBack
<1>1. ASSUME IInv, Next PROVE Holds
  <2>. USE DEF IInv
  <2>1. ASSUME NEW n \in Subtask, CheckStep(n) PROVE Holds
    BY <2>1 DEF CheckStep, runVars, Holds
  <2>2. CASE Refuse
    BY <2>2 DEF Refuse, Holds
  <2>3. CASE Launch
    BY <1>1, <2>3 DEF Launch, Execute, CheckInv, Holds
  <2>4. ASSUME NEW n \in Subtask, TaskOf(n) PROVE Holds
    <3>1. PICK outcome \in {"completed", "paused"}, pl \in {"review", "done"} :
               /\ OriginalEnds(n, outcome, pl)
               /\ step[n] \in {"first", "again"}
               /\ pl = "review" => ~aborted
      BY <1>1, <2>4, TaskIsOriginal
    <3>2. aborted \/ paused => StartedBy(n, outcome) = {}
      BY DEF StartedBy, PausedAfter
    <3>3. step' = Begun(StartedBy(n, outcome), [step EXCEPT ![n] = pl])
      BY <3>1 DEF OriginalEnds
    <3>. QED  BY <1>1, <3>1, <3>2, <3>3 DEF Begun, Holds, RunTypeOK
  <2>5. ASSUME NEW n \in Subtask, ReviewOf(n) PROVE Holds
    BY <1>1, <2>5 DEF ReviewOf, ReviewPasses, ReviewFails, ReviewDies, Holds, RunTypeOK
  <2>6. CASE AbortRun
    BY <2>6 DEF AbortRun, runVars, Holds
  <2>. QED  BY <1>1, <2>1, <2>2, <2>3, <2>4, <2>5, <2>6 DEF Next
<1>2. ASSUME IInv, [Next]_vars PROVE [Holds]_vars
  BY <1>1, <1>2
<1>. QED  BY Inductive, <1>2, PTL DEF Spec, HoldsBack

-----------------------------------------------------------------------------
(* What a step begins with.  The promise that a step finds the outputs of    *)
(* all that it depends on (InputsAreThere) fails; this is by how much.       *)

\* Every step that waits for others begins without the output of the one that it
\* waited for last, whose original runSubtask starts it, and without those that
\* are being reviewed; and it has all others.
StepMissesLast ==
    \A m \in Subtask :
        step[m] = "idle" /\ step'[m] = "first" /\ Known(m) # {} =>
            \E d \in Known(m) :
                /\ step[d] \in {"first", "again"} /\ step'[d] \in {"review", "done"}
                /\ d \notin inputs'[m]
                /\ \A e \in Known(m) \ {d} : e \in inputs'[m] <=> step[e] # "review"

MissesLast == [][StepMissesLast]_vars

\* The variables hold the outputs of the steps whose override has returned.
StoredWhenDone == stored = {n \in Subtask : step[n] = "done"}

LEMMA StoringKept == IInv /\ StoredWhenDone /\ [Next]_vars => StoredWhenDone'
<1>. SUFFICES ASSUME IInv, StoredWhenDone, [Next]_vars PROVE StoredWhenDone'
  OBVIOUS
<1>0. step \in [Subtask -> Place]
  BY DEF IInv, RunTypeOK
<1>1. ASSUME NEW n \in Subtask, CheckStep(n) PROVE StoredWhenDone'
  BY <1>1 DEF CheckStep, runVars, StoredWhenDone
<1>2. CASE Refuse
  BY <1>2 DEF Refuse, StoredWhenDone
<1>3. CASE Launch
  <2>1. step' = Begun(Ready(status), step) /\ UNCHANGED stored
    BY <1>3 DEF Launch
  <2>2. \A n \in Ready(status) : step[n] = "idle"
    BY DEF IInv, PlaceInv, Agrees, Ready
  <2>. QED  BY <1>0, <2>1, <2>2 DEF Begun, StoredWhenDone
<1>4. ASSUME NEW n \in Subtask, TaskOf(n) PROVE StoredWhenDone'
  <2>1. PICK outcome \in {"completed", "paused"}, pl \in {"review", "done"} :
             /\ OriginalEnds(n, outcome, pl)
             /\ step[n] \in {"first", "again"}
    BY <1>4, TaskIsOriginal
  <2>2. stored' = IF pl = "done" THEN stored \cup {n} ELSE stored
    BY <2>1 DEF OriginalEnds
  <2>. DEFINE S == StartedBy(n, outcome)
  <2>3. /\ step'[n] = pl
        /\ \A m \in S : step[m] = "idle" /\ step'[m] = "first"
        /\ \A m \in Subtask \ (S \cup {n}) : step'[m] = step[m]
    <3>1. /\ step'[n] = pl
          /\ \A m \in S : m \in Subtask /\ status[m] = "pending" /\ step'[m] = "first"
          /\ \A m \in Subtask \ (S \cup {n}) : step'[m] = step[m]
      BY <2>1, OriginalEffect DEF IInv
    <3>. QED  BY <3>1 DEF IInv, PlaceInv, Agrees
  <2>. HIDE DEF S
  <2>. QED  BY <2>1, <2>2, <2>3 DEF StoredWhenDone
<1>5. ASSUME NEW n \in Subtask, ReviewOf(n) PROVE StoredWhenDone'
  BY <1>0, <1>5 DEF ReviewOf, ReviewPasses, ReviewFails, ReviewDies, StoredWhenDone
<1>6. CASE AbortRun
  BY <1>6 DEF AbortRun, runVars, StoredWhenDone
<1>7. CASE UNCHANGED vars
  BY <1>7 DEF vars, runVars, StoredWhenDone
<1>. QED  BY <1>1, <1>2, <1>3, <1>4, <1>5, <1>6, <1>7 DEF Next

\* A step is started by the end of the last one it waited for.
LEMMA StartMisses ==
    ASSUME IInv, StoredWhenDone, NEW n \in Subtask, TaskOf(n),
           NEW m \in Subtask, step[m] = "idle", step'[m] = "first"
    PROVE  /\ n \in Known(m) /\ n \notin inputs'[m]
           /\ step[n] \in {"first", "again"} /\ step'[n] \in {"review", "done"}
           /\ \A e \in Known(m) \ {n} : e \in inputs'[m] <=> step[e] # "review"
<1>1. PICK outcome \in {"completed", "paused"}, pl \in {"review", "done"} :
           OriginalEnds(n, outcome, pl) /\ step[n] \in {"first", "again"}
  BY TaskIsOriginal
<1>2. /\ m \in StartedBy(n, outcome)
      /\ status[m] = "pending" /\ inputs'[m] = stored
      /\ step'[n] = pl
  <2>1. n # m
    BY <1>1
  <2>. QED  BY <1>1, <2>1, OriginalEffect DEF IInv
<1>3. ~aborted /\ ~PausedAfter(outcome) /\ m \in Ready(After(n, outcome))
  BY <1>2 DEF StartedBy
<1>4. \A e \in Known(m) \ {n} : status[e] = "completed"
  BY <1>3 DEF Ready, After, IInv, RunTypeOK, Known
<1>5. n \in Known(m)
  <2>. SUFFICES ASSUME n \notin Known(m) PROVE FALSE
    OBVIOUS
  <2>1. m \in Ready(status)
    BY <1>2, <1>4 DEF Ready
  <2>2. phase = "executing"
    <3>1. phase # "resolved"
      BY DEF IInv, ResolvedRunHasRunAll
    <3>2. status[n] # "pending"
      BY <1>1 DEF IInv, PlaceInv, Agrees
    <3>. QED  BY <3>1, <3>2 DEF IInv, CheckInv, RunTypeOK
  <2>. QED  BY <1>3, <2>1, <2>2 DEF IInv, NoneLeftWaiting, PausedAfter
<1>6. n \notin stored
  BY <1>1 DEF StoredWhenDone
<1>7. \A e \in Known(m) \ {n} : e \in stored <=> step[e] # "review"
  <2>1. \A e \in Known(m) : e \in Subtask
    BY DEF Known
  <2>2. \A e \in Known(m) \ {n} : step[e] \in {"review", "done"}
    BY <1>4, <2>1 DEF IInv, RunTypeOK, Place, PlaceInv, Agrees
  <2>. QED  BY <2>1, <2>2 DEF StoredWhenDone
<1>. QED  BY <1>1, <1>2, <1>5, <1>6, <1>7

LEMMA StepMisses == IInv /\ StoredWhenDone /\ [Next]_vars => [StepMissesLast]_vars
<1>. SUFFICES ASSUME IInv, StoredWhenDone, Next, NEW m \in Subtask,
                     step[m] = "idle", step'[m] = "first", Known(m) # {}
              PROVE  \E d \in Known(m) :
                /\ step[d] \in {"first", "again"} /\ step'[d] \in {"review", "done"}
                /\ d \notin inputs'[m]
                /\ \A e \in Known(m) \ {d} : e \in inputs'[m] <=> step[e] # "review"
  BY DEF StepMissesLast
<1>1. ASSUME NEW n \in Subtask, CheckStep(n) PROVE FALSE
  BY <1>1 DEF CheckStep, runVars
<1>2. ~Refuse /\ ~AbortRun
  BY DEF Refuse, AbortRun, runVars
<1>3. ~Launch
  <2>. SUFFICES ASSUME Launch PROVE FALSE
    OBVIOUS
  <2>1. \A n \in Subtask : status[n] = "pending"
    BY DEF Launch, Execute, IInv, CheckInv
  <2>2. m \in Ready(status)
    BY DEF Launch, Begun, IInv, RunTypeOK
  <2>. QED  BY <2>1, <2>2 DEF Ready, Known
<1>4. ASSUME NEW n \in Subtask, ReviewOf(n) PROVE FALSE
  BY <1>4 DEF ReviewOf, ReviewPasses, ReviewFails, ReviewDies, IInv, RunTypeOK
<1>. QED  BY <1>1, <1>2, <1>3, <1>4, StartMisses DEF Next

\* No step that depends on others begins with the outputs of all of them: the last
\* one is always missing (workflow-executor.js, the override of runSubtask).
THEOREM TheLastIsMissed == Spec => MissesLast
<1>1. Init => StoredWhenDone
  BY DEF Init, StoredWhenDone
<1>. QED  BY Inductive, <1>1, StoringKept, StepMisses, PTL DEF Spec, MissesLast

-----------------------------------------------------------------------------
(* The safe half of RunSettles: a run can only take so many steps, and when  *)
(* it can take none it is settled, or one of the things named by Disturbed   *)
(* has happened.  That it takes the steps it can is its fairness.            *)

\* How much may still happen to step n: beginning, its first task, and for each
\* review left the review and another task.
Ahead(n) ==
    CASE step[n] = "idle" -> 2 * MaxRetries + 5
      [] step[n] = "first" -> 2 * MaxRetries + 4
      [] step[n] = "review" -> 2 * (MaxRetries + 2 - attempt[n]) + 1
      [] step[n] = "again" -> 2 * (MaxRetries + 2 - attempt[n])
      [] step[n] = "done" -> 0

\* What cannot be taken back.
NeverBack ==
    /\ \A n \in Subtask : Ahead(n)' <= Ahead(n)
    /\ visited \subseteq visited'
    /\ phase' = "checking" => phase = "checking"
    /\ aborted => aborted'
    /\ up' => up

\* Whatever the run does, less is ahead of it: of one of its steps, of detectCycle,
\* or of the things that happen once.
RunAdvances ==
    /\ NeverBack
    /\ \/ \E n \in Subtask : Ahead(n)' < Ahead(n)
       \/ visited' # visited
       \/ phase' # phase /\ phase = "checking"
       \/ aborted' # aborted
       \/ up' # up

NothingInFlight == \A n \in Subtask : step[n] \in {"idle", "done"}

\* A run in which nothing is in flight has told its end, or was disturbed.
QuietIsSettled ==
    phase # "checking" /\ NothingInFlight => record # "running" \/ Disturbed

LEMMA AheadIsNatural ==
    ASSUME RunTypeOK, NEW n \in Subtask
    PROVE  /\ Ahead(n) \in Nat
           /\ step[n] \in {"first", "review", "again"} => Ahead(n) > 0
<1>1. step[n] \in Place /\ attempt[n] \in 0 .. MaxRetries + 1 /\ MaxRetries \in Nat
  BY RetriesAssumption DEF RunTypeOK
<1>. QED  BY <1>1 DEF Ahead, Place

LEMMA SameAhead ==
    ASSUME NEW n \in Subtask, step'[n] = step[n], attempt'[n] = attempt[n]
    PROVE  Ahead(n)' = Ahead(n)
BY DEF Ahead

\* A task that ends, or is begun, brings its step forward.
LEMMA TaskAdvances ==
    ASSUME IInv, NEW n \in Subtask, TaskOf(n)
    PROVE  /\ \A m \in Subtask : Ahead(m)' <= Ahead(m)
           /\ Ahead(n)' < Ahead(n)
<1>0. MaxRetries \in Nat
  BY RetriesAssumption
<1>1. PICK outcome \in {"completed", "paused"}, pl \in {"review", "done"} :
           /\ OriginalEnds(n, outcome, pl)
           /\ step[n] \in {"first", "again"}
  BY TaskIsOriginal
<1>. DEFINE S == StartedBy(n, outcome)
<1>2. /\ n \notin S /\ step'[n] = pl
      /\ \A m \in S : m \in Subtask /\ status[m] = "pending" /\ step'[m] = "first"
      /\ \A m \in Subtask \ (S \cup {n}) : step'[m] = step[m]
      /\ \A m \in Subtask \ {n} : attempt'[m] = attempt[m]
      /\ attempt'[n] = IF pl = "review" THEN attempt[n] + 1 ELSE attempt[n]
  BY <1>1, OriginalEffect DEF IInv
<1>. HIDE DEF S
<1>3. /\ attempt[n] \in 0 .. MaxRetries + 1
      /\ step[n] = "first" => attempt[n] = 0
      /\ step[n] = "again" => attempt[n] <= MaxRetries
  BY DEF IInv, RunTypeOK, PlaceInv, Agrees
<1>4. Ahead(n)' < Ahead(n)
  BY <1>0, <1>1, <1>2, <1>3 DEF Ahead
<1>5. ASSUME NEW m \in Subtask PROVE Ahead(m)' <= Ahead(m)
  <2>1. CASE m = n
    BY <1>0, <1>1, <1>2, <1>3, <2>1 DEF Ahead
  <2>2. CASE m \in S
    <3>1. step[m] = "idle" /\ step'[m] = "first"
      BY <1>2, <2>2 DEF IInv, PlaceInv, Agrees
    <3>. QED  BY <1>0, <3>1 DEF Ahead
  <2>3. CASE m \notin S \cup {n}
    <3>1. Ahead(m)' = Ahead(m)
      BY <1>2, <2>3, SameAhead
    <3>. QED  BY <3>1, AheadIsNatural DEF IInv
  <2>. QED  BY <2>1, <2>2, <2>3
<1>. QED  BY <1>4, <1>5

LEMMA ReviewAdvances ==
    ASSUME IInv, NEW n \in Subtask, ReviewOf(n)
    PROVE  /\ \A m \in Subtask : Ahead(m)' <= Ahead(m)
           /\ Ahead(n)' < Ahead(n) \/ up' # up
<1>0. MaxRetries \in Nat
  BY RetriesAssumption
<1>1. step[n] = "review" /\ UNCHANGED attempt
  BY DEF ReviewOf, ReviewPasses, ReviewFails, ReviewDies
<1>2. /\ step'[n] \in {"done", "again"} \/ (step'[n] = step[n] /\ up' # up)
      /\ \A m \in Subtask \ {n} : step'[m] = step[m]
  BY DEF ReviewOf, ReviewPasses, ReviewFails, ReviewDies, IInv, RunTypeOK
<1>3. attempt[n] \in 0 .. MaxRetries + 1
  BY DEF IInv, RunTypeOK
<1>4. /\ step'[n] = step[n] => Ahead(n)' = Ahead(n)
      /\ step'[n] \in {"done", "again"} => Ahead(n)' < Ahead(n)
  BY <1>0, <1>1, <1>3 DEF Ahead
<1>5. Ahead(n)' <= Ahead(n)
  BY <1>0, <1>1, <1>2, <1>3 DEF Ahead
<1>6. ASSUME NEW m \in Subtask \ {n} PROVE Ahead(m)' <= Ahead(m)
  <2>1. Ahead(m)' = Ahead(m)
    BY <1>1, <1>2, SameAhead
  <2>. QED  BY <2>1, AheadIsNatural DEF IInv
<1>. QED  BY <1>2, <1>4, <1>5, <1>6

LEMMA StepAdvances == IInv /\ [Next]_vars => [RunAdvances]_vars
<1>. SUFFICES ASSUME IInv, Next PROVE RunAdvances
  OBVIOUS
<1>1. ASSUME UNCHANGED <<step, attempt>>
      PROVE  \A m \in Subtask : Ahead(m)' <= Ahead(m)
  <2>1. \A m \in Subtask : Ahead(m)' = Ahead(m)
    BY <1>1, SameAhead
  <2>. QED  BY <2>1, AheadIsNatural DEF IInv
<1>2. ASSUME NEW n \in Subtask, CheckStep(n) PROVE RunAdvances
  BY <1>1, <1>2 DEF CheckStep, Visit, runVars, RunAdvances, NeverBack
<1>3. CASE Refuse
  BY <1>1, <1>3 DEF Refuse, Reject, RunAdvances, NeverBack
<1>4. CASE Launch
  <2>1. /\ step' = Begun(Ready(status), step) /\ UNCHANGED <<attempt, visited, aborted, up>>
        /\ phase = "checking" /\ phase' = "executing"
    BY <1>4 DEF Launch, Execute
  <2>2. \A m \in Ready(status) : m \in Subtask /\ step[m] = "idle" /\ step'[m] = "first"
    BY <2>1 DEF Begun, Ready, IInv, PlaceInv, Agrees
  <2>3. ASSUME NEW m \in Subtask PROVE Ahead(m)' <= Ahead(m)
    <3>1. CASE m \in Ready(status)
      BY <2>2, <3>1, RetriesAssumption DEF Ahead
    <3>2. CASE m \notin Ready(status)
      <4>1. Ahead(m)' = Ahead(m)
        BY <2>1, <3>2, SameAhead DEF Begun
      <4>. QED  BY <4>1, AheadIsNatural DEF IInv
    <3>. QED  BY <3>1, <3>2
  <2>. QED  BY <2>1, <2>3 DEF RunAdvances, NeverBack
<1>5. ASSUME NEW n \in Subtask, TaskOf(n) PROVE RunAdvances
  <2>1. PICK outcome \in {"completed", "paused"}, pl \in {"review", "done"} :
             OriginalEnds(n, outcome, pl) /\ step[n] \in {"first", "again"}
    BY <1>5, TaskIsOriginal
  <2>2. /\ UNCHANGED <<visited, aborted, up>>
        /\ phase' \in {phase, "resolved"}
    BY <2>1 DEF OriginalEnds, TaskEnds
  <2>. QED  BY <1>5, <2>2, TaskAdvances DEF RunAdvances, NeverBack
<1>6. ASSUME NEW n \in Subtask, ReviewOf(n) PROVE RunAdvances
  <2>1. /\ UNCHANGED <<visited, phase, aborted>>
        /\ up' => up
    BY <1>6 DEF ReviewOf, ReviewPasses, ReviewFails, ReviewDies, schedulerVars
  <2>. QED  BY <1>6, <2>1, ReviewAdvances DEF RunAdvances, NeverBack
<1>7. CASE AbortRun
  BY <1>1, <1>7 DEF AbortRun, Abort, runVars, RunAdvances, NeverBack
<1>. QED  BY <1>2, <1>3, <1>4, <1>5, <1>6, <1>7 DEF Next

\* The row tells the end of a run that was rejected or resolved.
RecordTells ==
    /\ phase = "rejected" => record = "failed"
    /\ phase = "resolved" => record # "running"

LEMMA TellingKept == IInv /\ RecordTells /\ [Next]_vars => RecordTells'
<1>. SUFFICES ASSUME IInv, RecordTells, [Next]_vars PROVE RecordTells'
  OBVIOUS
<1>1. ASSUME NEW n \in Subtask, CheckStep(n) PROVE RecordTells'
  BY <1>1 DEF CheckStep, Visit, runVars, RecordTells
<1>2. CASE Refuse \/ Launch \/ AbortRun
  BY <1>2 DEF Refuse, Reject, Launch, Execute, AbortRun, Abort, runVars, RecordTells
<1>3. ASSUME NEW n \in Subtask, TaskOf(n) PROVE RecordTells'
  <2>1. PICK outcome \in {"completed", "paused"}, pl \in {"review", "done"} :
             OriginalEnds(n, outcome, pl) /\ step[n] \in {"first", "again"}
    BY <1>3, TaskIsOriginal
  <2>2. phase \in {"executing", "resolved"}
    BY <2>1 DEF IInv, RunTypeOK, CheckInv, PlaceInv, Agrees
  <2>. QED  BY <2>1, <2>2 DEF OriginalEnds, TaskEnds, RecordAfter, RecordTells
<1>4. ASSUME NEW n \in Subtask, ReviewOf(n) PROVE RecordTells'
  BY <1>4 DEF ReviewOf, ReviewPasses, ReviewFails, ReviewDies, schedulerVars, RecordTells
<1>5. CASE UNCHANGED vars
  BY <1>5 DEF vars, schedulerVars, runVars, RecordTells
<1>. QED  BY <1>1, <1>2, <1>3, <1>4, <1>5 DEF Next

\* Every step of a run is one of boundedly many: each step of the workflow has at most
\* 2 * MaxRetries + 5 ahead of it, and never gains any (workflow-executor.js, the loop
\* over attempts).
THEOREM RunIsBounded == Spec => [][RunAdvances]_vars
BY Inductive, StepAdvances, PTL DEF Spec

\* A run in which no task and no review is in flight has its end on record, unless a task
\* or a last review has failed, the user has aborted it, or the gateway has died.
THEOREM QuietRunsAreSettled == Spec => []QuietIsSettled
<1>1. Init => RecordTells
  BY DEF Init, SchedulerInit, RecordTells
<1>2. IInv /\ RecordTells /\ WorkContinues => QuietIsSettled
  BY DEF IInv, RunTypeOK, RecordTells, WorkContinues, QuietIsSettled, NothingInFlight, Disturbed
<1>. QED  BY Inductive, Continues, <1>1, <1>2, TellingKept, PTL DEF Spec
=============================================================================
