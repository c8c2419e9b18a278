------------------------------- MODULE MirrorLine -------------------------------
(***************************************************************************)
(* What the mirror of the Git controller promises about one branch: a line *)
(* of accepted commits that only grows, to which an operation adds a       *)
(* commit only if nobody has since it was shown the line, and an answer to *)
(* each operation that says truly whether it did.  MirrorSync implements   *)
(* this.                                                                   *)
(***************************************************************************)
EXTENDS Sequences, Naturals

CONSTANTS
    Op, \* operations
    Sha \* commits

VARIABLES
    line,   \* the accepted commits, each with the operation that brought it
    shown,  \* how long the line was when the operation was shown it, if it was
    answer  \* what is known of each operation: "open", "yes" or "no"

lineVars == <<line, shown, answer>>

InLine(o) == \E n \in DOMAIN line : line[n].op = o

LineInit ==
    /\ line = <<>>
    /\ shown = [o \in Op |-> {}]
    /\ answer = [o \in Op |-> "open"]

Show(o) ==
    /\ shown[o] = {}
    /\ shown' = [shown EXCEPT ![o] = {Len(line)}]
    /\ UNCHANGED <<line, answer>>

Accept(o, sha) ==
    /\ answer[o] = "open"
    /\ shown[o] = {Len(line)}
    /\ line' = Append(line, [sha |-> sha, op |-> o])
    /\ UNCHANGED <<shown, answer>>

Answer(o) ==
    /\ answer[o] = "open"
    /\ answer' = [answer EXCEPT ![o] = IF InLine(o) THEN "yes" ELSE "no"]
    /\ UNCHANGED <<line, shown>>

LineNext == \E o \in Op : Show(o) \/ Answer(o) \/ \E sha \in Sha : Accept(o, sha)

LineSpec == LineInit /\ [][LineNext]_lineVars

\* Each commit was made for the line it stands on, so that no operation has two in
\* the line; and who is told that its commit is there, or that it is not, can rely on it.
LineIsTrue ==
    /\ \A n \in DOMAIN line : shown[line[n].op] = {n - 1}
    /\ \A o \in Op : /\ answer[o] = "yes" => InLine(o)
                     /\ answer[o] = "no" => ~InLine(o)
=============================================================================
