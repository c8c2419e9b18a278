------------------------------ MODULE DagScheduler ------------------------------
(***************************************************************************)
(* The scheduler of one graph of subtasks: the class DAGScheduler of       *)
(* src/gateway/services/dag-scheduler.js, without the retry of a subtask   *)
(* by the user, which only the chat offers.                                *)
(*                                                                         *)
(* The scheduler has no thread of its own.  It runs when execute() is      *)
(* called and whenever the task of a subtask ends; each such turn of the   *)
(* event loop is one action, except that the rounds of the loop of         *)
(* detectCycle are actions of their own.  A caller overrides runSubtask,   *)
(* so the actions here are conjuncts of those of the caller's module.      *)
(*                                                                         *)
(* Definitions named Variant_... are not part of the system: each is a     *)
(* faulty form of the definition after it.                                 *)
(***************************************************************************)
CONSTANTS
    Subtask,   \* the ids of the subtasks
    Foreign,   \* ids a subtask may depend on though no subtask has them
    Graph      \* the dependencies a plan may give its subtasks

ASSUME SchedulerAssumption ==
    /\ Subtask # {}
    /\ Graph \subseteq [Subtask -> SUBSET (Subtask \cup Foreign)]

VARIABLES
    dependsOn,  \* what each subtask depends on
    phase,      \* how far execute() has come
    visited,    \* the subtasks detectCycle has taken from its queue
    status,     \* the status of each subtask
    paused,     \* a failure has paused the graph
    aborted     \* the user has aborted the run

schedulerVars == <<dependsOn, phase, visited, status, paused, aborted>>

Status == {"pending", "running", "completed", "failed", "paused"}

-----------------------------------------------------------------------------
SchedulerInit ==
    /\ dependsOn \in Graph
    /\ phase = "checking"
    /\ visited = {}
    /\ status = [n \in Subtask |-> "pending"]
    /\ paused = FALSE
    /\ aborted = FALSE

\* The dependencies of n that are in the graph: the others count as met.
Known(n) == dependsOn[n] \cap Subtask

\* detectCycle takes any subtask from the queue.
Variant_VisitAny(n) ==
    /\ phase = "checking"
    /\ n \notin visited
    /\ visited' = visited \cup {n}
    /\ UNCHANGED <<dependsOn, phase, status, paused, aborted>>

\* One round of detectCycle: n has no dependency left that is not visited (its
\* in-degree has come down to zero).
Visit(n) ==
    /\ phase = "checking"
    /\ n \notin visited
    /\ Known(n) \subseteq visited
    /\ visited' = visited \cup {n}
    /\ UNCHANGED <<dependsOn, phase, status, paused, aborted>>

QueueIsEmpty == \A n \in Subtask \ visited : ~(Known(n) \subseteq visited)

\* execute() rejects: some subtasks were never reached.
Reject ==
    /\ phase = "checking"
    /\ QueueIsEmpty
    /\ visited # Subtask
    /\ phase' = "rejected"
    /\ UNCHANGED <<dependsOn, visited, status, paused, aborted>>

\* A dependency that is not in the graph counts as not met.
Variant_Ready(st) ==
    {n \in Subtask : st[n] = "pending" /\
        \A d \in dependsOn[n] : d \in Subtask /\ st[d] = "completed"}

\* The subtasks startReady would start.
Ready(st) ==
    {n \in Subtask : st[n] = "pending" /\ \A d \in Known(n) : st[d] = "completed"}

\* A subtask that runs counts as done.
Variant_AllDone(st) == \A n \in Subtask : st[n] # "pending"

AllDone(st) == \A n \in Subtask : st[n] \in {"completed", "failed"}

Started(st, S) == [n \in Subtask |-> IF n \in S THEN "running" ELSE st[n]]

\* execute(): the graph is sound, and whatever depends on nothing is started.
Execute ==
    /\ phase = "checking"
    /\ visited = Subtask
    /\ phase' = "executing"
    /\ status' = Started(status, Ready(status))
    /\ UNCHANGED <<dependsOn, visited, paused, aborted>>

-----------------------------------------------------------------------------
(* The end of a task.  outcome is "completed", or "paused" if it failed.   *)

After(n, outcome) == [status EXCEPT ![n] = outcome]

PausedAfter(outcome) == paused \/ outcome = "paused"

\* onSubtaskComplete resolves execute().
Resolves(n, outcome) == ~PausedAfter(outcome) /\ AllDone(After(n, outcome))

\* startReady looks neither at the abort nor at the pause.
Variant_StartedBy(n, outcome) == Ready(After(n, outcome))

\* What onSubtaskComplete starts.
StartedBy(n, outcome) ==
    IF aborted \/ PausedAfter(outcome) \/ Resolves(n, outcome)
    THEN {}
    ELSE Ready(After(n, outcome))

TaskEnds(n, outcome) ==
    /\ status' = Started(After(n, outcome), StartedBy(n, outcome))
    /\ paused' = PausedAfter(outcome)
    /\ phase' = IF Resolves(n, outcome) THEN "resolved" ELSE phase
    /\ UNCHANGED <<dependsOn, visited, aborted>>

Abort ==
    /\ phase = "executing"
    /\ ~aborted
    /\ aborted' = TRUE
    /\ UNCHANGED <<dependsOn, phase, visited, status, paused>>

-----------------------------------------------------------------------------
\* What detectCycle is to find: a set of subtasks each of which waits for
\* another one of the set, or for itself.
Cyclic ==
    \E C \in SUBSET Subtask : C # {} /\ \A n \in C : Known(n) \cap C # {}
=============================================================================
