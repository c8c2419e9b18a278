------------------------------- MODULE MirrorSync -------------------------------
(***************************************************************************)
(* How the Git controller accepts a commit of a remote branch into its     *)
(* mirror: execute, recover, cleanupUnpublishedAcceptedHistory and         *)
(* runAutomaticMaintenance of                                              *)
(* src/gateway/services/devbench/git-controller/mirror-sync.js, the        *)
(* journal of journal.js, and the compare-and-swap of db/sqlite.js.        *)
(*                                                                         *)
(* Four things must change together and none of them can: a ref that keeps *)
(* the commit for its generation, the accepted ref, the row of the mirror  *)
(* state, and the record of the operation.  They change in a fixed order,  *)
(* each after a phase is on record, so that a controller that starts after *)
(* a death can finish or undo what it finds.                               *)
(*                                                                         *)
(* Every transaction and every Git command is one step.  A Git command may *)
(* fail with or without its effect, a transaction without; the controller  *)
(* may die anywhere; its lease may run out while it stalls.  Nobody else   *)
(* gets the lease while the controller lives, nor after its death while a  *)
(* Git command of it runs: that is the subject of RepositoryLease.  One    *)
(* branch; an operation has a preview of its own, as a preview is consumed *)
(* once; a rewritten history is approved.                                  *)
(* Definitions named Variant_... are not part of the system: each is a     *)
(* faulty form of the definition after it.                                 *)
(***************************************************************************)
EXTENDS Integers, Sequences

CONSTANTS
    Op,            \* operations
    Sha,           \* commits
    None,          \* no commit, no operation
    MaxGeneration, \* bound on the generations of the mirror
    MaxFaults,     \* bound on failed commands and transactions and lapsed leases
    MaxCrashes     \* bound on deaths of the controller

Phase == {"NONE", "PREVIEWED", "FETCHING", "PUBLISHING", "RETENTION_VERIFIED",
          "ACCEPTED", "MAINTENANCE", "VERIFIED", "FAILED", "RECOVERY_REQUIRED"}

Record == [status : {"NONE", "ACTIVE", "RUNNING", "SUCCEEDED", "FAILED",
                     "RECOVERY_REQUIRED"},
           phase : Phase, sealed : BOOLEAN,
           expected : Sha \cup {None}, candidate : Sha \cup {None}, gen : Nat]

Place == {"idle", "begun", "held", "fetch", "publish", "retain", "verify", "move",
          "swap", "accepted", "maintain", "closing", "finish", "undo", "assess",
          "fail", "ending", "release"}

ASSUME MirrorAssumption ==
    /\ None \notin Sha \cup Op
    /\ MaxGeneration \in Nat
    /\ MaxFaults \in Nat
    /\ MaxCrashes \in Nat

VARIABLES
    remote,   \* the tip of the branch at the remote
    ref,      \* the accepted ref
    history,  \* the ref that keeps the commit of each generation
    accepted, \* the mirror state, with its former values: the last is the row
    op,       \* the record of each operation, with the preview it is made from
    run,      \* where the handler of each operation is, and whether it failed badly
    lease,    \* the operation that has the repository, and whether the row lapsed
    ctl,      \* the controller: what it does, and what it has yet to recover
    faults, crashes

git == <<ref, history>>
vars == <<remote, ref, history, accepted, op, run, lease, ctl, faults, crashes>>

Generation == Len(accepted)
StateSha == IF accepted = <<>> THEN None ELSE accepted[Generation].sha

\* The ref and the row are what they were when the preview was made.
AtBaseline(o) ==
    /\ ref = op[o].expected
    /\ StateSha = op[o].expected
    /\ Generation = op[o].gen

\* The ref that keeps what o publishes.
Kept(o) == history[op[o].gen + 1]
Keep(o, sha) == history' = [history EXCEPT ![op[o].gen + 1] = sha]

Current(o) == lease.holder = o /\ ~lease.lapsed

\* Dead is who holds the lease and does not run.
Free == lease.holder = None \/ run[lease.holder].at = "idle"

To(o, place) == run' = [run EXCEPT ![o].at = place]
Fail(o, badly) == run' = [run EXCEPT ![o] = [at |-> "fail", bad |-> badly]]
Enter(o, phase) == op' = [op EXCEPT ![o].phase = phase]

NoFault == UNCHANGED faults
Fault == faults < MaxFaults /\ faults' = faults + 1

\* The end of an operation cannot be recorded.  A start then tries to record that
\* it failed badly; a handler tells its caller.
Unrecorded(o) ==
    IF ctl.mode = "starting" /\ ~run[o].bad THEN Fail(o, TRUE)
    ELSE To(o, "release") \/ (run[o].at = "fail" /\ Fail(o, TRUE))

\* Where an error leads.
Variant_OnError(o) ==
    CASE run[o].at \in {"held", "fetch", "publish", "retain", "accepted", "maintain",
                        "closing", "finish"} -> Fail(o, FALSE)
      [] run[o].at \in {"verify", "move", "swap"} -> To(o, "undo")
      [] run[o].at \in {"undo", "assess"} -> Fail(o, TRUE)
      [] run[o].at \in {"fail", "ending"} -> Unrecorded(o)
OnError(o) ==
    CASE run[o].at \in {"held", "fetch", "publish", "retain"} -> Fail(o, FALSE)
      [] run[o].at \in {"verify", "move", "swap"} -> To(o, "undo")
      [] run[o].at \in {"undo", "assess", "accepted", "maintain", "closing", "finish"} ->
            Fail(o, TRUE)
      [] run[o].at \in {"fail", "ending"} -> Unrecorded(o)

-----------------------------------------------------------------------------
(* An operation, from its preview to the publication.                      *)

Preview(o) ==
    /\ ctl.mode = "serving"
    /\ op[o].status = "NONE"
    /\ Generation < MaxGeneration
    /\ ref = StateSha
    /\ op' = [op EXCEPT ![o] = [@ EXCEPT !.status = "ACTIVE", !.expected = ref,
                                         !.candidate = remote, !.gen = Generation]]
    /\ UNCHANGED <<remote, git, accepted, run, lease, ctl, faults, crashes>>

Begin(o) ==
    /\ ctl.mode = "serving"
    /\ op[o].status = "ACTIVE"
    /\ op' = [op EXCEPT ![o].status = "RUNNING", ![o].phase = "PREVIEWED"]
    /\ To(o, "begun")
    /\ UNCHANGED <<remote, git, accepted, lease, ctl, faults, crashes>>

Acquire(o) ==
    /\ run[o].at = "begun"
    /\ IF Free THEN lease' = [holder |-> o, lapsed |-> FALSE] /\ To(o, "held")
       ELSE Fail(o, FALSE) /\ UNCHANGED lease
    /\ UNCHANGED <<remote, git, accepted, op, ctl, faults, crashes>>

\* The preview still holds.
CheckFresh(o) ==
    /\ run[o].at = "held"
    /\ IF Current(o) /\ AtBaseline(o) THEN Enter(o, "FETCHING") /\ To(o, "fetch")
       ELSE Fail(o, FALSE) /\ UNCHANGED op
    /\ UNCHANGED <<remote, git, accepted, lease, ctl, faults, crashes>>

Fetch(o) ==
    /\ run[o].at = "fetch"
    /\ IF Current(o) /\ remote = op[o].candidate THEN To(o, "publish") ELSE Fail(o, FALSE)
    /\ UNCHANGED <<remote, git, accepted, op, lease, ctl, faults, crashes>>

\* Everything is as it was previewed: from here on the journal knows what o is
\* about to do.
Publish(o) ==
    /\ run[o].at = "publish"
    /\ IF Current(o) /\ AtBaseline(o) /\ remote = op[o].candidate
       THEN /\ op' = [op EXCEPT ![o].phase = "PUBLISHING", ![o].sealed = TRUE]
            /\ To(o, "retain")
       ELSE Fail(o, FALSE) /\ UNCHANGED op
    /\ UNCHANGED <<remote, git, accepted, lease, ctl, faults, crashes>>

\* ensureImmutableRetentionRef: a ref that keeps another commit is left alone.
Retain(o) ==
    /\ run[o].at = "retain"
    /\ IF ~Current(o) \/ Kept(o) \notin {None, op[o].candidate}
       THEN Fail(o, FALSE) /\ UNCHANGED <<history, faults>>
       ELSE /\ Keep(o, op[o].candidate)
            /\ \/ To(o, "verify") /\ NoFault
               \/ Kept(o) = None /\ OnError(o) /\ Fault
    /\ UNCHANGED <<remote, ref, accepted, op, lease, ctl, crashes>>

Verify(o) ==
    /\ run[o].at = "verify"
    /\ Enter(o, "RETENTION_VERIFIED")
    /\ To(o, "move")
    /\ UNCHANGED <<remote, git, accepted, lease, ctl, faults, crashes>>

\* update-ref with the old value.
Move(o) ==
    /\ run[o].at = "move"
    /\ IF ~Current(o) \/ ref # op[o].expected
       THEN To(o, "undo") /\ UNCHANGED <<ref, faults>>
       ELSE /\ ref' = op[o].candidate
            /\ \/ To(o, "swap") /\ NoFault
               \/ OnError(o) /\ Fault
    /\ UNCHANGED <<remote, history, accepted, op, lease, ctl, crashes>>

\* compareAndSwapGitControllerMirrorState.
MaySwap(o) ==
    /\ Current(o)
    /\ StateSha = op[o].expected
    /\ Generation = op[o].gen

Accepts(o) == accepted' = Append(accepted, [sha |-> op[o].candidate, op |-> o])

Swap(o) ==
    /\ run[o].at = "swap"
    /\ IF MaySwap(o) THEN Accepts(o) /\ To(o, "accepted") /\ UNCHANGED ref
       ELSE /\ UNCHANGED accepted
            /\ IF Current(o) THEN ref' = op[o].expected /\ To(o, "undo")
               ELSE Fail(o, TRUE) /\ UNCHANGED ref
    /\ UNCHANGED <<remote, history, op, lease, ctl, faults, crashes>>

-----------------------------------------------------------------------------
(* The end of an operation, whether it is executed or recovered.           *)

RecordAccepted(o) ==
    /\ run[o].at = "accepted"
    /\ Enter(o, "ACCEPTED")
    /\ To(o, "maintain")
    /\ UNCHANGED <<remote, git, accepted, lease, ctl, faults, crashes>>

\* The commit is kept for the generation it now has, then Git may collect.
Maintain(o) ==
    LET kept == history[Generation]
    IN  /\ run[o].at = "maintain"
        /\ IF /\ Current(o)
              /\ ref = op[o].candidate /\ StateSha = op[o].candidate
              /\ kept \in {None, op[o].candidate}
           THEN /\ history' = [history EXCEPT ![Generation] = op[o].candidate]
                /\ Enter(o, "MAINTENANCE")
                /\ \/ To(o, "closing") /\ NoFault
                   \/ OnError(o) /\ Fault
           ELSE Fail(o, TRUE) /\ UNCHANGED <<history, op, faults>>
        /\ UNCHANGED <<remote, ref, accepted, lease, ctl, crashes>>

\* journal.succeed and journal.fail are two transactions each.
RecordEnd(o) ==
    /\ \/ run[o].at = "closing" /\ Enter(o, "VERIFIED") /\ To(o, "finish")
       \/ /\ run[o].at = "fail"
          /\ Enter(o, IF run[o].bad THEN "RECOVERY_REQUIRED" ELSE "FAILED")
          /\ To(o, "ending")
    /\ UNCHANGED <<remote, git, accepted, lease, ctl, faults, crashes>>

Variant_End(o) ==
    /\ run[o].at \in {"finish", "ending"}
    /\ op' = [op EXCEPT ![o].status = op[o].phase]
    /\ To(o, "release")
    /\ UNCHANGED <<remote, git, accepted, lease, ctl, faults, crashes>>
End(o) ==
    /\ run[o].at \in {"finish", "ending"}
    /\ op' = [op EXCEPT ![o].status =
                  IF run[o].at = "finish" THEN "SUCCEEDED" ELSE op[o].phase]
    /\ To(o, "release")
    /\ UNCHANGED <<remote, git, accepted, lease, ctl, faults, crashes>>

Release(o) ==
    /\ run[o].at = "release"
    /\ lease' = IF lease.holder = o THEN [holder |-> None, lapsed |-> FALSE] ELSE lease
    /\ run' = [run EXCEPT ![o] = [at |-> "idle", bad |-> FALSE]]
    /\ ctl' = [ctl EXCEPT !.todo = @ \ {o}, !.blocked = @ \/ run[o].bad]
    /\ UNCHANGED <<remote, git, accepted, op, faults, crashes>>

\* cleanupUnpublishedAcceptedHistory: the ref that o made is taken away, if nothing
\* was published.
Variant_MayUndo(o) == Current(o) /\ StateSha = op[o].expected
MayUndo(o) == Current(o) /\ AtBaseline(o)

Undo(o) ==
    /\ run[o].at = "undo"
    /\ IF ~MayUndo(o) \/ Kept(o) \notin {None, op[o].candidate}
       THEN Fail(o, TRUE) /\ UNCHANGED <<history, faults>>
       ELSE /\ Keep(o, None)
            /\ \/ Fail(o, FALSE) /\ NoFault
               \/ Kept(o) # None /\ OnError(o) /\ Fault
    /\ UNCHANGED <<remote, ref, accepted, op, lease, ctl, crashes>>

-----------------------------------------------------------------------------
(* Recovery, when a controller starts.                                     *)

Unended(o) == op[o].status \in {"RUNNING", "RECOVERY_REQUIRED"}

Start ==
    /\ ctl.mode = "down"
    /\ ctl' = [mode |-> "starting", todo |-> {o \in Op : Unended(o)}, blocked |-> FALSE]
    /\ UNCHANGED <<remote, git, accepted, op, run, lease, faults, crashes>>

\* The phase says that something may have been published.
Variant_Publishing(o) ==
    \/ op[o].phase \in {"PUBLISHING", "ACCEPTED", "MAINTENANCE"}
    \/ op[o].phase = "RETENTION_VERIFIED" /\ op[o].sealed
Publishing(o) ==
    \/ op[o].phase \in {"PUBLISHING", "ACCEPTED", "MAINTENANCE", "RECOVERY_REQUIRED"}
    \/ op[o].phase = "RETENTION_VERIFIED" /\ op[o].sealed

Adopt(o) ==
    /\ ctl.mode = "starting"
    /\ o \in ctl.todo
    /\ \A p \in Op : run[p].at = "idle"
    /\ lease' = [holder |-> o, lapsed |-> FALSE]
    /\ To(o, IF Publishing(o) THEN "assess" ELSE "undo")
    /\ UNCHANGED <<remote, git, accepted, op, ctl, faults, crashes>>

\* The row is the one o wrote.
Committed(o) ==
    /\ ref = op[o].candidate
    /\ StateSha = op[o].candidate
    /\ Generation = op[o].gen + 1
    /\ accepted[Generation].op = o

Assess(o) ==
    /\ run[o].at = "assess"
    /\ \/ op[o].sealed /\ Committed(o) /\ To(o, "accepted") /\ UNCHANGED accepted
       \/ op[o].sealed /\ AtBaseline(o) /\ To(o, "undo") /\ UNCHANGED accepted
       \/ /\ op[o].sealed /\ ~AtBaseline(o)
          /\ ref = op[o].candidate /\ MaySwap(o)
          /\ Accepts(o)
          /\ To(o, "accepted")
       \/ /\ ~op[o].sealed \/ ~(Committed(o) \/ AtBaseline(o)
                                  \/ (ref = op[o].candidate /\ MaySwap(o)))
          /\ Fail(o, TRUE) /\ UNCHANGED accepted
    /\ UNCHANGED <<remote, git, op, lease, ctl, faults, crashes>>

\* It serves only when it could settle everything.
Ready ==
    /\ ctl.mode = "starting"
    /\ ctl.todo = {}
    /\ ctl' = [ctl EXCEPT !.mode = IF ctl.blocked THEN "down" ELSE "serving",
                          !.blocked = FALSE]
    /\ UNCHANGED <<remote, git, accepted, op, run, lease, faults, crashes>>

-----------------------------------------------------------------------------
(* What else happens.                                                      *)

Push(sha) ==
    /\ sha # remote
    /\ remote' = sha
    /\ UNCHANGED <<git, accepted, op, run, lease, ctl, faults, crashes>>

\* A command or a transaction fails without its effect.
Trouble(o) ==
    /\ run[o].at \notin {"idle", "begun", "release"}
    /\ Fault
    /\ OnError(o)
    /\ UNCHANGED <<remote, git, accepted, op, lease, ctl, crashes>>

\* The controller stalls for longer than the lifetime of its lease.
Lapse ==
    /\ lease.holder # None
    /\ ~Free /\ ~lease.lapsed
    /\ Fault
    /\ lease' = [lease EXCEPT !.lapsed = TRUE]
    /\ UNCHANGED <<remote, git, accepted, op, run, ctl, crashes>>

Crash ==
    /\ ctl.mode # "down"
    /\ crashes < MaxCrashes
    /\ crashes' = crashes + 1
    /\ run' = [o \in Op |-> [at |-> "idle", bad |-> FALSE]]
    /\ ctl' = [mode |-> "down", todo |-> {}, blocked |-> FALSE]
    /\ UNCHANGED <<remote, git, accepted, op, lease, faults>>

Init ==
    /\ remote \in Sha
    /\ ref = None
    /\ history = [n \in 1 .. MaxGeneration |-> None]
    /\ accepted = <<>>
    /\ op = [o \in Op |-> [status |-> "NONE", phase |-> "NONE", sealed |-> FALSE,
                           expected |-> None, candidate |-> None, gen |-> 0]]
    /\ run = [o \in Op |-> [at |-> "idle", bad |-> FALSE]]
    /\ lease = [holder |-> None, lapsed |-> FALSE]
    /\ ctl = [mode |-> "serving", todo |-> {}, blocked |-> FALSE]
    /\ faults = 0 /\ crashes = 0

Work(o) ==
    \/ Acquire(o) \/ CheckFresh(o) \/ Fetch(o) \/ Publish(o) \/ Retain(o)
    \/ Verify(o) \/ Move(o) \/ Swap(o) \/ RecordAccepted(o) \/ Maintain(o)
    \/ RecordEnd(o) \/ End(o) \/ Release(o) \/ Undo(o) \/ Adopt(o) \/ Assess(o)

Next ==
    \/ \E o \in Op : Preview(o) \/ Begin(o) \/ Work(o) \/ Trouble(o)
    \/ Start \/ Ready
    \/ \E sha \in Sha : Push(sha)
    \/ Lapse \/ Crash

Spec == Init /\ [][Next]_vars

\* The handlers run, and a controller that is down is started again.
FairSpec == Spec /\ WF_vars(Start) /\ WF_vars(Ready) /\ \A o \in Op : WF_vars(Work(o))

-----------------------------------------------------------------------------
\* Types of the variables, which stand for refs of the mirror, for the tables of
\* the controller in SQLite, and for what its handlers of execute and recover hold.
MirrorTypeOK ==
    /\ remote \in Sha
    /\ ref \in Sha \cup {None}
    /\ history \in [1 .. MaxGeneration -> Sha \cup {None}]
    /\ accepted \in Seq([sha : Sha, op : Op])
    /\ op \in [Op -> Record]
    /\ run \in [Op -> [at : Place, bad : BOOLEAN]]
    /\ lease \in [holder : Op \cup {None}, lapsed : BOOLEAN]
    /\ ctl \in [mode : {"serving", "starting", "down"}, todo : SUBSET Op,
                blocked : BOOLEAN]
    /\ faults \in Nat
    /\ crashes \in Nat

\* Every commit that was accepted is kept by the ref of its generation, whatever
\* is undone after it: the stories that are based on it can be restored
\* (ensureImmutableRetentionRef, cleanupUnpublishedAcceptedHistory).
AcceptedIsRetained ==
    \A n \in DOMAIN accepted : history[n] = accepted[n].sha

\* When the accepted ref and the row differ, there is an operation whose record
\* tells the next start how to bring them together (MIRROR_PUBLISHING).
RefAndStateAgree ==
    ref # StateSha =>
        \E o \in Op : /\ Unended(o) /\ op[o].sealed
                      /\ ref = op[o].candidate
                      /\ StateSha = op[o].expected /\ Generation = op[o].gen

\* A start cannot settle the operation: others have published since, it failed
\* to clean up before it published anything, or its place in the history is
\* taken by the remains of another.
Published(o) == \E n \in DOMAIN accepted : accepted[n].op = o

Stuck(o) ==
    /\ Unended(o)
    /\ \/ Generation > (IF Published(o) THEN op[o].gen + 1 ELSE op[o].gen)
       \/ op[o].phase = "RECOVERY_REQUIRED" /\ ~op[o].sealed
       \/ Kept(o) \notin {None, op[o].candidate}

\* A controller that died serves again, wherever it died, after as many starts as
\* it takes, unless an operation is stuck (recover).
BackToService ==
    (ctl.mode # "serving") ~> (ctl.mode = "serving" \/ \E o \in Op : Stuck(o))

\* "Once the accepted ref points to the candidate, the state and the maintenance
\* are completed" (config/README.md): a start recognises what an unended operation
\* has published.
PublishedIsRecognised ==
    \A o \in Op : Unended(o) /\ Published(o) => Committed(o)

\* What the status of an operation says of it.
Outcome ==
    [o \in Op |-> CASE op[o].status = "SUCCEEDED" -> "yes"
                    [] op[o].status = "FAILED" -> "no"
                    [] OTHER -> "open"]

\* The generation that an operation was previewed at.
Shown == [o \in Op |-> IF op[o].status = "NONE" THEN {} ELSE {op[o].gen}]

Line == INSTANCE MirrorLine WITH line <- accepted, shown <- Shown, answer <- Outcome

\* The mirror keeps the promises of MirrorLine: in particular no commit is accepted
\* over one that its operation has not seen, whoever overtook it, and however often
\* its controller died.
ImplementsMirrorLine == Line!LineSpec
=============================================================================
