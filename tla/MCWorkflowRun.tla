------------------------------ MODULE MCWorkflowRun ------------------------------
EXTENDS WorkflowRun

CONSTANTS a, b, c, x

\* Every graph of the steps, cyclic ones included; one of them may also name a
\* step that does not exist.
AnyGraph ==
    {g \in [Subtask -> SUBSET (Subtask \cup Foreign)] :
        \A n \in Subtask \ {a} : g[n] \subseteq Subtask}
=============================================================================
