--------------------------------- MODULE GitTurn --------------------------------
(***************************************************************************)
(* What the lease of a repository promises: controllers take turns, and    *)
(* only who has the turn runs Git commands.  The turn of a dead controller *)
(* is cleared by somebody who has judged that it is dead and that no       *)
(* command of it runs.  Judging and clearing are two steps, and one who    *)
(* clears late takes the turn of whoever has it by then; who has been      *)
(* robbed of its turn may do the same, until it notices.  Nothing else     *)
(* takes a turn away.  RepositoryLease implements this with a row, a lock  *)
(* file and a ledger.                                                      *)
(***************************************************************************)
CONSTANT Controller

VARIABLES
    turn,    \* whose turn it is: nobody's, or one controller's
    working, \* who acts as if it had the turn
    running, \* whose Git command runs
    gone,    \* who has died
    judges,  \* who has judged the turn to be over, and is about to clear it
    late,    \* those of them whose judgement was overtaken
    robbed   \* who was robbed of its turn; none of the first three counts it

vars == <<turn, working, running, gone, judges, late, robbed>>

Init ==
    /\ turn = {} /\ working = {} /\ running = {}
    /\ gone = {} /\ judges = {} /\ late = {} /\ robbed = {}

\* Nobody takes the turn while somebody has rightly judged another to be over.
Take(p) ==
    /\ p \notin gone \cup robbed
    /\ turn = {} /\ judges = late
    /\ turn' = {p} /\ working' = {p}
    /\ UNCHANGED <<running, gone, judges, late, robbed>>

Start(p) ==
    /\ working = {p} /\ running = {}
    /\ running' = {p}
    /\ UNCHANGED <<turn, working, gone, judges, late, robbed>>

Exit ==
    /\ running' = {}
    /\ UNCHANGED <<turn, working, gone, judges, late, robbed>>

\* A controller ends its own turn, after its command.
GiveBack(p) ==
    /\ working = {p} /\ running = {}
    /\ turn' = {} /\ working' = {}
    /\ UNCHANGED <<running, gone, judges, late, robbed>>

\* The turn of a dead controller is over when its command is gone.
Judge(p) ==
    /\ p \notin gone
    /\ turn \subseteq gone /\ running = {}
    /\ judges' = judges \cup {p}
    /\ UNCHANGED <<turn, working, running, gone, late, robbed>>

\* It is cleared, and all the other judges are late now.
Clear(p) ==
    /\ p \in judges \ late
    /\ turn \subseteq gone /\ running = {}
    /\ turn' = {}
    /\ judges' = judges \ {p} /\ late' = judges'
    /\ UNCHANGED <<working, running, gone, robbed>>

\* Whoever has the turn loses it.
Robbery ==
    /\ turn' = {} /\ working' = {} /\ running' = {}
    /\ robbed' = robbed \cup turn
    /\ UNCHANGED gone

ClearLate(p) ==
    /\ p \in late
    /\ Robbery
    /\ judges' = judges \ {p} /\ late' = judges'

Meddle(p) ==
    /\ p \in robbed \ gone
    /\ Robbery
    /\ late' = judges /\ UNCHANGED judges

\* A controller that was robbed is done, and may take a turn again.
Notice(p) ==
    /\ p \notin gone
    /\ robbed' = robbed \ {p}
    /\ UNCHANGED <<turn, working, running, gone, judges, late>>

Die(p) ==
    /\ gone' = gone \cup {p}
    /\ working' = working \ {p}
    /\ judges' = judges \ {p} /\ late' = late \ {p}
    /\ UNCHANGED <<turn, running, robbed>>

Next ==
    \/ \E p \in Controller :
          \/ Take(p) \/ Start(p) \/ GiveBack(p)
          \/ Judge(p) \/ Clear(p) \/ ClearLate(p) \/ Meddle(p) \/ Notice(p)
          \/ Die(p)
    \/ Exit

Spec == Init /\ [][Next]_vars

\* A command runs only in the turn of its controller, a live controller that
\* acts as if it had the turn has it, and a judgement that was not overtaken is true.
TurnIsKept ==
    /\ \A p, q \in turn : p = q
    /\ working = turn \ gone
    /\ running \subseteq turn
    /\ judges # late => turn \subseteq gone /\ running = {}
=============================================================================
