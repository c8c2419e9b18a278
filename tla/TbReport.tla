--------------------------------- MODULE TbReport -------------------------------
(***************************************************************************)
(* What the synchronisation with Teambition promises to the people who     *)
(* read the task: one report is worked on at a time, and until it has      *)
(* ended no other begins; its comment and attachment appear once, and only *)
(* while it is worked on; it ends when all of it is there.  The phase of   *)
(* the story may be changed by hand, which ends no report.  TbSync         *)
(* implements this.                                                        *)
(***************************************************************************)
EXTENDS Naturals

CONSTANTS
    Payload,  \* reports and rejections
    Attached, \* those with an attachment
    None      \* no payload

VARIABLES
    posts,   \* how often each comment and attachment is there
    current, \* the payload that is worked on, or None
    settled  \* the payload whose end the story has reached, or None

report == <<posts, current, settled>>

Whole(p) == {"comment"} \cup (IF p \in Attached THEN {"attachment"} ELSE {})

ReportInit ==
    /\ posts = [p \in Payload |-> [s \in {"comment", "attachment"} |-> 0]]
    /\ current = None /\ settled = None

Take(p) ==
    /\ current = None
    /\ current' = p /\ settled' = None
    /\ UNCHANGED posts

Appear(p, s) ==
    /\ current = p /\ posts[p][s] = 0
    /\ posts' = [posts EXCEPT ![p][s] = 1]
    /\ UNCHANGED <<current, settled>>

Reach(p) ==
    /\ current = p /\ \A s \in Whole(p) : posts[p][s] = 1
    /\ current' = None /\ settled' = p
    /\ UNCHANGED posts

ByHand == settled # None /\ settled' = None /\ UNCHANGED <<posts, current>>

ReportNext ==
    \/ \E p \in Payload : Take(p) \/ Reach(p) \/ \E s \in Whole(p) : Appear(p, s)
    \/ ByHand

ReportSpec == ReportInit /\ [][ReportNext]_report
=============================================================================
