--------------------------------- MODULE TbSync ---------------------------------
(***************************************************************************)
(* How the report on one story reaches its Teambition task: a comment, an  *)
(* attachment and a change of status, each at most once, although          *)
(* Teambition knows no idempotency key.  runTbSyncSaga of                  *)
(* src/gateway/services/devbench/workflow-v2/tb-sync-saga.js,              *)
(* runDurablePersistedTbSync and createDurableTbApi of tb-workflow.js, and *)
(* the transactions reserve-, begin-, record- and settleTabTbSync... of    *)
(* store.js.                                                               *)
(*                                                                         *)
(* A payload (the frozen texts of one report) becomes an operation with an *)
(* owner, a fencing token and an outbox, the state of each of its steps.   *)
(* A gateway that means to write records that first; what it does not hear *)
(* the end of is only looked up from then on, never written again.  A      *)
(* gateway that finds an operation of another one takes it over if nothing *)
(* was begun, or everything confirmed, or, to look only, if some write is  *)
(* of unknown fate.                                                        *)
(*                                                                         *)
(* Every transaction, every request and every answer is one step; gateways *)
(* share the database and may die anywhere.  Requests take their time, and *)
(* arrive or not whatever became of the sender.  People move the task, and *)
(* change the phase of the story by hand; an attachment may get lost.      *)
(* A gateway that is restarted is another member of Gateway, since its     *)
(* token is drawn anew.  One gateway runs one sync of a story at a time    *)
(* (withTbSyncLock).  Different payloads differ in revision, hence in all  *)
(* their keys; all have the same target status.                            *)
(* Definitions named Variant_... are not part of the system: each is a     *)
(* faulty form of the definition after it.                                 *)
(***************************************************************************)
EXTENDS Integers, FiniteSets

CONSTANTS
    Gateway,    \* gateway processes on one database
    Payload,    \* reports and rejections that may be submitted
    Attached,   \* those with an attachment
    MaxFence,   \* bound on the fencing tokens issued
    MaxFaults,  \* bound on lost requests, failed calls, and what people do
    None        \* no operation, no payload

Step == {"comment", "attachment", "status"}
Posts == {"comment", "attachment"}

BoxState == {"planned", "skipped", "write_started", "write_acknowledged",
             "ambiguous", "completed"}

Operation == [payload : Payload, owner : Gateway, fence : Nat,
              status : {"owned", "ambiguous", "reconciling", "completed"},
              box : [Step -> BoxState]]

Place == {"idle", "reserve", "look", "heard", "begun", "wait", "answered",
          "confirm", "read", "settle", "dead"}

ASSUME TbAssumption ==
    /\ Attached \subseteq Payload
    /\ MaxFence \in Nat
    /\ MaxFaults \in Nat
    /\ None \notin Operation \cup Payload

VARIABLES
    op,      \* workflow.tbSyncOperation of the story
    pending, \* workflow.tbSyncPending, its payload
    phase,   \* workflow.phase: "settled" where a sync has put it, "closed" in the
             \* same phases where a person has, "working" in those before
    run,     \* what each gateway is doing
    transit, \* requests on their way to Teambition
    posts,   \* how often each comment and attachment is there
    task,    \* the status of the task
    drifted, \* payloads whose attachment is no longer the file that was sealed
    seen,    \* payloads of which a run has read the target status
    faults   \* faults so far

story == <<op, pending, phase>>
remote == <<transit, posts, task, drifted>>
vars == <<op, pending, phase, run, transit, posts, task, drifted, seen, faults>>

-----------------------------------------------------------------------------
(* The outbox.                                                             *)

Variant_Settled(o, s) ==
    o.box[s] \in {"completed", "skipped", "write_acknowledged"}
Settled(o, s) == o.box[s] \in {"completed", "skipped"}
Uncertain(o) ==
    {s \in Step : o.box[s] \in {"write_started", "write_acknowledged", "ambiguous"}}
PlannedOnly(o) == \A s \in Step : o.box[s] \in {"planned", "skipped"}
ReadyToSettle(o) == \A s \in Step : Settled(o, s)

Variant_ForeverReading(o) ==
    IF o.status = "reconciling" \/ Uncertain(o) # {} THEN o.status ELSE "owned"
Variant_Uncertain(o) == IF Uncertain(o) = {} THEN "owned" ELSE "uncertain"
ActiveStatus(o) ==
    IF Uncertain(o) = {} THEN "owned"
    ELSE IF o.status = "reconciling" THEN "reconciling" ELSE "ambiguous"

Put(o, s, state) ==
    LET next == [o EXCEPT !.box[s] = state]
    IN  [next EXCEPT !.status = ActiveStatus(next)]

\* What mutateTabTbSyncOperation compares; a finished operation is left alone.
MayMutate(g) ==
    /\ op # None
    /\ op.payload = run[g].want
    /\ op.owner = g
    /\ op.fence = run[g].fence
    /\ op.status # "completed"

-----------------------------------------------------------------------------
(* The run of a gateway through the steps.                                 *)

Idle == [at |-> "idle", want |-> None, fence |-> 0, step |-> "comment",
         res |-> [s \in Step |-> "todo"], refused |-> FALSE, found |-> "no"]

First(S) ==
    IF "comment" \in S THEN "comment"
    ELSE IF "attachment" \in S THEN "attachment" ELSE "status"

\* Go on with the next step that is not done.  The status waits for the posts.
Variant_Continue(r) ==
    LET todo == {s \in Step : r.res[s] = "todo"}
    IN  IF todo = {} THEN [r EXCEPT !.at = "settle"]
        ELSE [r EXCEPT !.at = "look", !.step = First(todo)]
Continue(r) ==
    LET todo == {s \in Step : r.res[s] = "todo"}
    IN  IF todo = {} THEN [r EXCEPT !.at = "settle"]
        ELSE IF todo = {"status"} /\ \E s \in Posts : r.res[s] = "unsettled"
        THEN [r EXCEPT !.at = "settle", !.res["status"] = "unsettled"]
        ELSE [r EXCEPT !.at = "look", !.step = First(todo)]

\* The current step of r ends.
Done(r, result) ==
    Continue([r EXCEPT !.res[r.step] = result, !.refused = FALSE, !.found = "no"])

To(g, place) == run' = [run EXCEPT ![g].at = place]

Fault == faults < MaxFaults /\ faults' = faults + 1
NoFault == UNCHANGED faults

\* A step was settled when the operation was reserved, or there is none.
Start(g, o) ==
    Continue([Idle EXCEPT
        !.want = o.payload, !.fence = o.fence,
        !.res = [s \in Step |-> IF Settled(o, s) THEN "ok" ELSE "todo"]])

-----------------------------------------------------------------------------
(* Reservation: who may work on which payload.                             *)

\* A report is submitted, or the stored one is tried again, if its attachment is
\* as it was; one that has ended is answered from the record.
Want(g, p) ==
    /\ run[g].at = "idle"
    /\ p \notin drifted
    /\ IF pending = None
       THEN ~(phase = "settled" /\ op # None /\ op.payload = p)
       ELSE p = pending
    /\ run' = [run EXCEPT ![g].at = "reserve", ![g].want = p]
    /\ UNCHANGED <<story, remote, seen, faults>>

\* The operation of another owner that this one may take over.
MayTakeOver(o) == PlannedOnly(o) \/ ReadyToSettle(o) \/ Uncertain(o) # {}

Own(g, o) ==
    /\ op' = o
    /\ phase' = "sync_pending"
    /\ run' = [run EXCEPT ![g] = Start(g, o)]

Resume(g, p) ==
    /\ op # None /\ op.payload = p /\ op.status # "completed" /\ op.owner = g
    /\ run' = [run EXCEPT ![g] = Start(g, op)]
    /\ UNCHANGED story

Variant_TakeOver(g, p) ==
    /\ op # None /\ op.payload = p /\ op.status # "completed" /\ op.owner # g
    /\ MayTakeOver(op)
    /\ op.fence < MaxFence
    /\ Own(g, [op EXCEPT !.owner = g, !.fence = @ + 1, !.status = "owned"])
    /\ UNCHANGED pending
TakeOver(g, p) ==
    /\ op # None /\ op.payload = p /\ op.status # "completed" /\ op.owner # g
    /\ MayTakeOver(op)
    /\ op.fence < MaxFence
    /\ Own(g, [op EXCEPT !.owner = g, !.fence = @ + 1,
                         !.status = IF Uncertain(op) = {} THEN "owned" ELSE "reconciling"])
    /\ UNCHANGED pending

Fresh(g, p) ==
    LET fence == IF op = None THEN 1 ELSE op.fence + 1
    IN  /\ op # None => op.payload # p
        /\ fence <= MaxFence
        /\ Own(g, [payload |-> p, owner |-> g, fence |-> fence, status |-> "owned",
                   box |-> [s \in Step |-> IF s = "attachment" /\ p \notin Attached
                                          THEN "skipped" ELSE "planned"]])
        /\ pending' = p

\* Another payload is turned away by the pending one only, not by the operation.
Variant_TurnedAway(g, p) ==
    /\ op # None
    /\ op.payload = p
    /\ op.status = "completed" \/ (op.owner # g /\ ~MayTakeOver(op))
\* The payload is done, or another one is under way, or its owner cannot be
\* replaced.
TurnedAway(g, p) ==
    /\ op # None
    /\ IF op.payload = p
       THEN op.status = "completed" \/ (op.owner # g /\ ~MayTakeOver(op))
       ELSE op.status # "completed"

Reserve(g) ==
    LET p == run[g].want
    IN  /\ run[g].at = "reserve"
        /\ IF pending \in {None, p} /\ ~TurnedAway(g, p)
           THEN Resume(g, p) \/ TakeOver(g, p) \/ Fresh(g, p)
           ELSE run' = [run EXCEPT ![g] = Idle] /\ UNCHANGED story
        /\ UNCHANGED <<remote, seen, faults>>

-----------------------------------------------------------------------------
(* One step of the saga: look, write once, look again.                     *)

\* Whether the step is done, may be done ("no"), or must not ("bad").
Reading(p, s) ==
    IF s = "status"
    THEN CASE task = "target" -> "yes" [] task = "open" -> "no" [] OTHER -> "bad"
    ELSE IF posts[p][s] > 0 THEN "yes" ELSE "no"

Look(g) ==
    LET r == run[g]
        reading == Reading(r.want, r.step)
    IN  /\ r.at \in {"look", "confirm"}
        /\ run' = [run EXCEPT ![g].at = IF r.at = "look" THEN "heard" ELSE "read",
                              ![g].found = reading]
        /\ seen' = IF r.step = "status" /\ reading = "yes" THEN seen \cup {r.want} ELSE seen
        /\ UNCHANGED <<story, remote, faults>>

LookFails(g) ==
    /\ run[g].at \in {"look", "confirm"}
    /\ Fault
    /\ run' = [run EXCEPT ![g] = Done(run[g], "unsettled")]
    /\ UNCHANGED <<story, remote, seen>>

\* completeFromRemoteRead.  A comment that is there counts, whatever was
\* answered to its posting; the other two also want an answer that is no refusal.
Confirm(g) ==
    LET r == run[g]
        result == IF MayMutate(g) /\ (r.refused => r.step = "comment")
                  THEN "ok" ELSE "unsettled"
    IN  /\ r.at \in {"heard", "read"}
        /\ r.found = "yes"
        /\ op' = IF MayMutate(g) THEN Put(op, r.step, "completed") ELSE op
        /\ run' = [run EXCEPT ![g] = Done(r, result)]
        /\ UNCHANGED <<pending, phase, remote, seen, faults>>

\* beginTabTbSyncStepWrite: recorded before the request is made.
Variant_MayBegin(g) ==
    MayMutate(g) /\ op.box[run[g].step] \in {"planned", "ambiguous"}
MayBegin(g) ==
    /\ MayMutate(g)
    /\ op.status # "reconciling"
    /\ op.box[run[g].step] = "planned"

Begin(g) ==
    LET r == run[g]
    IN  /\ r.at = "heard"
        /\ r.found = "no"
        /\ IF MayBegin(g)
           THEN /\ op' = [op EXCEPT !.box[r.step] = "write_started"]
                /\ To(g, "begun")
           ELSE op' = op /\ run' = [run EXCEPT ![g] = Done(r, "unsettled")]
        /\ UNCHANGED <<pending, phase, remote, seen, faults>>

\* Not there after the write, or in a state it must not be taken from.
Unconfirmed(g) ==
    /\ \/ run[g].at = "read" /\ run[g].found # "yes"
       \/ run[g].at = "heard" /\ run[g].found = "bad"
    /\ run' = [run EXCEPT ![g] = Done(run[g], "unsettled")]
    /\ UNCHANGED <<story, remote, seen, faults>>

Request(g) == [payload |-> run[g].want, step |-> run[g].step, by |-> g]

Send(g) ==
    /\ run[g].at = "begun"
    /\ transit' = transit \cup {Request(g)}
    /\ To(g, "wait")
    /\ UNCHANGED <<story, posts, task, drifted, seen, faults>>

\* An answer that the write succeeded.
Acknowledge(g) ==
    LET r == run[g]
        started == MayMutate(g) /\ op.box[r.step] = "write_started"
    IN  /\ r.at = "answered"
        /\ op' = IF started THEN Put(op, r.step, "write_acknowledged")
                 ELSE IF MayMutate(g) THEN Put(op, r.step, "ambiguous") ELSE op
        /\ run' = [run EXCEPT ![g] = IF started THEN [r EXCEPT !.at = "confirm"]
                                     ELSE Done(r, "unsettled")]
        /\ UNCHANGED <<pending, phase, remote, seen, faults>>

\* A refusal or an exception, which says nothing of what became of the request.
\* After a refusal the saga looks again, after an exception it does not.
Fail(g) ==
    LET r == run[g]
    IN  /\ r.at \in {"wait", "answered"}
        /\ IF r.at = "wait" /\ Request(g) \notin transit THEN NoFault ELSE Fault
        /\ op' = IF MayMutate(g) THEN Put(op, r.step, "ambiguous") ELSE op
        /\ \/ run' = [run EXCEPT ![g].at = "confirm", ![g].refused = TRUE]
           \/ run' = [run EXCEPT ![g] = Done(r, "unsettled")]
        /\ UNCHANGED <<pending, phase, remote, seen>>

\* settleTabTbSyncOperation.
Settle(g) ==
    LET complete == \A s \in Step : run[g].res[s] = "ok"
    IN  /\ run[g].at = "settle"
        /\ IF ~MayMutate(g) \/ (complete /\ ~ReadyToSettle(op)) THEN UNCHANGED story
           ELSE IF complete
           THEN /\ op' = [op EXCEPT !.status = "completed"]
                /\ phase' = "settled"
                /\ pending' = None
           ELSE /\ op' = [op EXCEPT !.status = ActiveStatus(op)]
                /\ phase' = "sync_pending"
                /\ pending' = run[g].want
        /\ run' = [run EXCEPT ![g] = Idle]
        /\ UNCHANGED <<remote, seen, faults>>

-----------------------------------------------------------------------------
(* Everything else that happens.                                           *)

Waits(r) == /\ run[r.by].at = "wait"
            /\ Request(r.by) = r

Land(r) ==
    /\ r \in transit
    /\ transit' = transit \ {r}
    /\ IF r.step = "status"
       THEN task' = "target" /\ UNCHANGED posts
       ELSE posts' = [posts EXCEPT ![r.payload][r.step] = @ + 1] /\ UNCHANGED task
    /\ run' = IF Waits(r) THEN [run EXCEPT ![r.by].at = "answered"] ELSE run
    /\ UNCHANGED <<story, drifted, seen, faults>>

Drop(r) ==
    /\ r \in transit
    /\ Fault
    /\ transit' = transit \ {r}
    /\ UNCHANGED <<story, run, posts, task, drifted, seen>>

People(status) ==
    /\ status # task
    /\ Fault
    /\ task' = status
    /\ UNCHANGED <<story, run, transit, posts, drifted, seen>>

\* setManualWorkflowPhase: any phase, also one in which a sync ends, or waits.  The
\* pending payload goes unless the sync is to wait; the operation stays.
ManualPhase(to) ==
    /\ to # phase
    /\ Fault
    /\ phase' = to
    /\ pending' = IF to = "sync_pending" THEN pending ELSE None
    /\ UNCHANGED <<op, run, remote, seen>>

\* The file of an attachment is changed or lost.
Drift(p) ==
    /\ p \in Attached \ drifted
    /\ Fault
    /\ drifted' = drifted \cup {p}
    /\ UNCHANGED <<story, run, transit, posts, task, seen>>

Crash(g) ==
    /\ run[g].at # "dead"
    /\ run' = [run EXCEPT ![g] = [Idle EXCEPT !.at = "dead"]]
    /\ UNCHANGED <<story, remote, seen, faults>>

Init ==
    /\ op = None /\ pending = None /\ phase = "working"
    /\ run = [g \in Gateway |-> Idle]
    /\ transit = {}
    /\ posts = [p \in Payload |-> [s \in Posts |-> 0]]
    /\ task = "open"
    /\ drifted = {}
    /\ seen = {}
    /\ faults = 0

Work(g) == Reserve(g) \/ Look(g) \/ Confirm(g) \/ Begin(g) \/ Unconfirmed(g)
           \/ Send(g) \/ Acknowledge(g) \/ Fail(g) \/ Settle(g)

Next ==
    \/ \E g \in Gateway : \/ Work(g) \/ LookFails(g) \/ Crash(g)
                           \/ \E p \in Payload : Want(g, p)
    \/ \E r \in transit : Land(r) \/ Drop(r)
    \/ \E status \in {"open", "target", "other"} : People(status)
    \/ \E to \in {"working", "closed", "sync_pending"} : ManualPhase(to)
    \/ \E p \in Attached : Drift(p)

Spec == Init /\ [][Next]_vars

\* The gateways work, Teambition answers, and whoever is told that a sync is
\* pending tries it again.
FairSpec ==
    /\ Spec
    /\ \A g \in Gateway :
          /\ WF_vars(Work(g))
          /\ WF_vars(\E p \in Payload : p = pending /\ Want(g, p))
    /\ WF_vars(\E r \in transit : Land(r))

-----------------------------------------------------------------------------
RunType == [at : Place, want : Payload \cup {None}, fence : Nat, step : Step,
            res : [Step -> {"todo", "ok", "unsettled"}], refused : BOOLEAN,
            found : {"yes", "no", "bad"}]

\* Types of the variables, which stand for the workflow record of a story and
\* for what the gateways of runDurablePersistedTbSync hold in memory.
TbTypeOK ==
    /\ op \in Operation \cup {None}
    /\ pending \in Payload \cup {None}
    /\ phase \in {"working", "sync_pending", "settled", "closed"}
    /\ run \in [Gateway -> RunType]
    /\ transit \subseteq [payload : Payload, step : Step, by : Gateway]
    /\ posts \in [Payload -> [Posts -> Nat]]
    /\ task \in {"open", "target", "other"}
    /\ drifted \subseteq Attached
    /\ seen \subseteq Payload
    /\ faults \in Nat

\* The comment and the attachment of a payload reach Teambition at most once,
\* whatever is lost, fails, dies or is taken over: a write is begun once, and
\* never by somebody who does not know what became of it
\* (beginTabTbSyncStepWrite, reserveTabTbSyncOperation).
NothingPostedTwice == \A p \in Payload : \A s \in Posts : posts[p][s] <= 1

\* The status is moved only when the comment, and the attachment if there is one,
\* are on the task: no tester is told of a report that is not there
\* (unsettledPrerequisites in runTbSyncSaga).
StatusFollowsPosts ==
    \A r \in transit : r.step = "status" =>
        /\ posts[r.payload]["comment"] > 0
        /\ r.payload \in Attached => posts[r.payload]["attachment"] > 0

\* A story is in the phase its payload ends in only if a person has put it there by
\* hand ("closed"), or the posts are there and the status was read as reached, by
\* whichever gateways got that far and whatever people made of the phase meanwhile
\* (settleTabTbSyncOperation).
TerminalIsConfirmed ==
    phase = "settled" =>
        /\ op.payload \in seen
        /\ posts[op.payload]["comment"] > 0
        /\ op.payload \in Attached => posts[op.payload]["attachment"] > 0

\* No two gateways have posts of one payload on their way: the one that takes
\* over only looks until it knows what became of the writes of the other
\* (the status "reconciling" of store.js).
PostsOfOneOwner ==
    \A r1, r2 \in transit :
        (r1.payload = r2.payload /\ {r1.step, r2.step} \subseteq Posts) => r1.by = r2.by

\* What only a person can repair: everybody is dead; there is no payload, because the
\* phase was changed by hand; its attachment is not the one that was sealed; the owner
\* died between two steps; a write is on record that nobody makes any more; or the
\* task must not be moved.
OnItsWay(s) ==
    \/ \E r \in transit : r.payload = op.payload /\ r.step = s
    \/ \E g \in Gateway : /\ run[g].at = "begun"
                          /\ run[g].want = op.payload /\ run[g].step = s

DeadEnd ==
    LET ownerDied == run[op.owner].at = "dead"
    IN  \/ \A g \in Gateway : run[g].at = "dead"
        \/ pending \in drifted \cup {None}
        \/ ownerDied /\ (op.fence = MaxFence \/ ~MayTakeOver(op))
        \/ \E s \in Uncertain(op) : ~OnItsWay(s) /\ Reading(op.payload, s) # "yes"
        \/ op.box["status"] = "planned" /\ task = "other"

\* A sync that is pending ends, or gets where only a person helps, provided that
\* it is tried again: nothing is stuck because of a lost answer, a failed reading
\* or a takeover as such (runDurablePersistedTbSync).
RetriesSettle == (phase = "sync_pending") ~> (phase # "sync_pending" \/ DeadEnd)

\* The payload under way, and the one whose end the story has reached by a sync.
UnderWay == IF op # None /\ op.status # "completed" THEN op.payload ELSE None
Ended == IF phase = "settled" THEN op.payload ELSE None

Report == INSTANCE TbReport WITH current <- UnderWay, settled <- Ended

\* However many gateways work on it and whatever people do to the phase, reports are
\* taken one after the other, and what appears on the task belongs to the one under
\* way: no late request adds to an older report, and none is given up half-done.
ImplementsReport == Report!ReportSpec
=============================================================================
