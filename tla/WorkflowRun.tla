------------------------------- MODULE WorkflowRun -------------------------------
(***************************************************************************)
(* One run of a workflow: executeWorkflow of                               *)
(* src/gateway/services/workflow-executor.js over the scheduler of task    *)
(* graphs, from the moment its row is created.                             *)
(*                                                                         *)
(* The run overrides the scheduler's runSubtask.  Around the original one  *)
(* it substitutes variables into the prompt, has the output reviewed by an *)
(* inspector, sends the step back with the inspector's remarks, and at the *)
(* end stores the output under the name the step gives it (here: every     *)
(* step names its output).  The original, however, ends by telling the     *)
(* scheduler that the step is complete: what waits for the step is started *)
(* and the run may be resolved before the rest of the override has run.    *)
(*                                                                         *)
(* An action is one turn of the event loop: a task or a review ends, and   *)
(* every continuation that is then due runs, in the order in which their   *)
(* promises were settled.                                                  *)
(***************************************************************************)
EXTENDS DagScheduler, Naturals

CONSTANT MaxRetries   \* how often a step may be sent back

ASSUME RetriesAssumption == MaxRetries \in Nat \ {0}

VARIABLES
    inspect,  \* the steps whose output is to be reviewed
    record,   \* the status in the row of the run
    step,     \* where the override of runSubtask stands for each step
    attempt,  \* the number of the current review of each step
    stored,   \* the steps whose output is among the variables
    inputs,   \* the outputs that were substituted into the prompt of each step
    up        \* the gateway process runs

runVars == <<inspect, record, step, attempt, stored, inputs, up>>
vars == <<schedulerVars, runVars>>

Place == {"idle", "first", "review", "again", "done"}

-----------------------------------------------------------------------------
Init ==
    /\ SchedulerInit
    /\ inspect \in SUBSET Subtask
    /\ record = "running"
    /\ step = [n \in Subtask |-> "idle"]
    /\ attempt = [n \in Subtask |-> 0]
    /\ stored = {}
    /\ inputs = [n \in Subtask |-> {}]
    /\ up = TRUE

CheckStep(n) == Visit(n) /\ UNCHANGED runVars

Refuse ==
    /\ Reject
    /\ record' = "failed"
    /\ UNCHANGED <<inspect, step, attempt, stored, inputs, up>>

\* The override for the steps in S, up to the end of their first task.
Begun(S, pl) == [n \in Subtask |-> IF n \in S THEN "first" ELSE pl[n]]

\* They see the variables as they are now.
Substituted(S, in) == [n \in Subtask |-> IF n \in S THEN stored ELSE in[n]]

Launch ==
    /\ Execute
    /\ step' = Begun(Ready(status), step)
    /\ inputs' = Substituted(Ready(status), inputs)
    /\ UNCHANGED <<inspect, record, attempt, stored, up>>

\* Only a failure is written to the row.
Variant_RecordAfter(n, outcome) ==
    IF phase = "executing" /\ Resolves(n, outcome)
            /\ \E m \in Subtask : After(n, outcome)[m] = "failed"
    THEN "failed" ELSE record

\* executeWorkflow goes on as soon as the scheduler resolves.
RecordAfter(n, outcome) ==
    IF phase # "executing" \/ ~Resolves(n, outcome) THEN record
    ELSE IF \E m \in Subtask : After(n, outcome)[m] = "failed" THEN "failed"
    ELSE "completed"

\* The original runSubtask of n is over: it has started what waited for n and
\* may have resolved the run; now the override goes on at the place pl.
OriginalEnds(n, outcome, pl) ==
    /\ TaskEnds(n, outcome)
    /\ step' = Begun(StartedBy(n, outcome), [step EXCEPT ![n] = pl])
    /\ inputs' = Substituted(StartedBy(n, outcome), inputs)
    /\ record' = RecordAfter(n, outcome)
    /\ attempt' = [attempt EXCEPT ![n] = IF pl = "review" THEN @ + 1 ELSE @]
    /\ stored' = IF pl = "done" THEN stored \cup {n} ELSE stored
    /\ UNCHANGED <<inspect, up>>

\* A step is reviewed if it asks for it and its task succeeded; the loop of
\* reviews is left at once when the run has been aborted.
FirstTaskEnds(n, outcome) ==
    /\ up
    /\ step[n] = "first"
    /\ OriginalEnds(n, outcome,
           IF n \in inspect /\ outcome = "completed" /\ ~aborted
           THEN "review" ELSE "done")

\* A step that was sent back is reviewed whether its task succeeded or not.
RepeatedTaskEnds(n, outcome) ==
    /\ up
    /\ step[n] = "again"
    /\ OriginalEnds(n, outcome, IF aborted THEN "done" ELSE "review")

ReviewPasses(n) ==
    /\ up
    /\ step[n] = "review"
    /\ status' = [status EXCEPT ![n] = "completed"]
    /\ step' = [step EXCEPT ![n] = "done"]
    /\ stored' = stored \cup {n}
    /\ UNCHANGED <<dependsOn, phase, visited, paused, aborted,
                   inspect, record, attempt, inputs, up>>

\* A step is sent back once too often.
Variant_ReviewFails(n) ==
    /\ up
    /\ step[n] = "review"
    /\ status' = [status EXCEPT ![n] =
           IF attempt[n] > MaxRetries + 1 THEN "failed" ELSE "running"]
    /\ step' = [step EXCEPT ![n] =
           IF attempt[n] > MaxRetries + 1 \/ aborted THEN "done" ELSE "again"]
    /\ stored' = IF step'[n] = "done" THEN stored \cup {n} ELSE stored
    /\ inputs' = [inputs EXCEPT ![n] = IF status'[n] = "running" THEN stored ELSE @]
    /\ UNCHANGED <<dependsOn, phase, visited, paused, aborted,
                   inspect, record, attempt, up>>

\* The step fails for good, or is sent back for another attempt; in a run that
\* has been aborted no task is started for it, and it ends with the status
\* it was given for that attempt.
ReviewFails(n) ==
    /\ up
    /\ step[n] = "review"
    /\ \/ /\ attempt[n] > MaxRetries
          /\ status' = [status EXCEPT ![n] = "failed"]
          /\ step' = [step EXCEPT ![n] = "done"]
          /\ stored' = stored \cup {n}
          /\ UNCHANGED inputs
       \/ /\ attempt[n] <= MaxRetries
          /\ status' = [status EXCEPT ![n] = "running"]
          /\ inputs' = [inputs EXCEPT ![n] = stored]
          /\ IF aborted
             THEN /\ step' = [step EXCEPT ![n] = "done"]
                  /\ stored' = stored \cup {n}
             ELSE /\ step' = [step EXCEPT ![n] = "again"]
                  /\ UNCHANGED stored
    /\ UNCHANGED <<dependsOn, phase, visited, paused, aborted,
                   inspect, record, attempt, up>>

\* The task of the inspector fails.  Nobody handles the rejection of the
\* override, and an unhandled rejection ends the gateway; no row of a run is
\* looked at when it starts again.
ReviewDies(n) ==
    /\ up
    /\ step[n] = "review"
    /\ up' = FALSE
    /\ UNCHANGED <<schedulerVars, inspect, record, step, attempt, stored, inputs>>

\* The route finds the run until executeWorkflow has returned.
AbortRun == up /\ Abort /\ UNCHANGED runVars

TaskOf(n) ==
    \E outcome \in {"completed", "paused"} :
        FirstTaskEnds(n, outcome) \/ RepeatedTaskEnds(n, outcome)

ReviewOf(n) == ReviewPasses(n) \/ ReviewFails(n) \/ ReviewDies(n)

Next ==
    \/ \E n \in Subtask : CheckStep(n)
    \/ Refuse
    \/ Launch
    \/ \E n \in Subtask : TaskOf(n)
    \/ \E n \in Subtask : ReviewOf(n)
    \/ AbortRun

Spec == Init /\ [][Next]_vars

\* The start of a run is one turn of the event loop, and the supervisor of the
\* agents ends a task that makes no progress.
FairSpec ==
    /\ Spec
    /\ \A n \in Subtask :
           WF_vars(CheckStep(n)) /\ WF_vars(TaskOf(n)) /\ WF_vars(ReviewOf(n))
    /\ WF_vars(Refuse)
    /\ WF_vars(Launch)

-----------------------------------------------------------------------------
(* Properties. *)

\* The types of the scheduler and of the run; no step is reviewed more than
\* MaxRetries + 1 times.
RunTypeOK ==
    /\ dependsOn \in Graph
    /\ phase \in {"checking", "rejected", "executing", "resolved"}
    /\ visited \subseteq Subtask
    /\ status \in [Subtask -> Status]
    /\ paused \in BOOLEAN
    /\ aborted \in BOOLEAN
    /\ inspect \subseteq Subtask
    /\ record \in {"running", "completed", "failed"}
    /\ step \in [Subtask -> Place]
    /\ attempt \in [Subtask -> 0 .. MaxRetries + 1]
    /\ stored \subseteq Subtask
    /\ inputs \in [Subtask -> SUBSET Subtask]
    /\ up \in BOOLEAN

\* detectCycle refuses exactly the graphs with a cycle: nothing is executed
\* that could wait for itself, and nothing else is turned down.
CycleIsRefused ==
    /\ phase = "rejected" => Cyclic
    /\ phase \in {"executing", "resolved"} => ~Cyclic

\* While nothing has gone wrong a run that is not over has a task in flight:
\* onSubtaskComplete forgets no step that has become ready.  (A step that
\* fails its last review takes with it whatever waits for it and for another.)
WorkContinues ==
    (/\ phase = "executing"
     /\ ~aborted
     /\ ~paused
     /\ \A n \in Subtask : status[n] # "failed")
        => \E n \in Subtask : step[n] \in {"first", "again"}

\* A run is resolved only when each of its steps has had its first task, however
\* the reviews send steps back meanwhile.
ResolvedRunHasRunAll ==
    phase = "resolved" => \A n \in Subtask : step[n] \notin {"idle", "first"}

\* A pause holds back the steps that have not begun; after an abort no task is
\* started any more, not even a review or a repetition.
Holds ==
    /\ aborted \/ paused =>
           \A n \in Subtask : step[n] = "idle" => step'[n] = "idle"
    /\ aborted =>
           \A n \in Subtask : step'[n] \in {step[n], "done"}

HoldsBack == [][Holds]_vars

\* What can leave the row of a run at "running" for ever.
Disturbed ==
    aborted \/ paused \/ ~up \/ \E n \in Subtask : status[n] = "failed"

\* The row of a run to which nothing happens is completed, or failed at once.
RunSettles == record = "running" ~> record # "running" \/ Disturbed

\* A step begins with the outputs of all that it depends on.
InputsAreThere ==
    \A n \in Subtask : step[n] # "idle" => Known(n) \subseteq inputs[n]
=============================================================================
