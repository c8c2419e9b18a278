------------------------------ MODULE TbSyncStories -----------------------------
(***************************************************************************)
(* TbSync beside the other writers of the stories.  The stories of a user  *)
(* are one row; updateTab of store.js reads the row, changes one story and *)
(* writes the row back, in two transactions: what another gateway changed  *)
(* in between, in any story, is undone.                                    *)
(***************************************************************************)
EXTENDS TbSync

VARIABLE
    copy \* what a gateway has read of the story and not yet written back

allVars == <<vars, copy>>

InitStories == Init /\ copy = <<>>

\* loadTabs, by a gateway that updates another story.
ReadStories ==
    /\ copy = <<>>
    /\ copy' = <<[op |-> op, pending |-> pending, phase |-> phase]>>
    /\ UNCHANGED vars

\* saveTabs, of all that was read.
WriteStories ==
    /\ copy # <<>>
    /\ op' = copy[1].op /\ pending' = copy[1].pending /\ phase' = copy[1].phase
    /\ copy' = <<>>
    /\ UNCHANGED <<run, remote, seen, faults>>

NextStories == (Next /\ UNCHANGED copy) \/ ReadStories \/ WriteStories

StoriesSpec == InitStories /\ [][NextStories]_allVars
=============================================================================
