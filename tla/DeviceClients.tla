------------------------------ MODULE DeviceClients -----------------------------
(***************************************************************************)
(* The callers of the device coordinator, each with the steps it really    *)
(* takes between its calls:                                                *)
(*                                                                         *)
(*   - an immediate operation, an HTTP command run under                   *)
(*     runImmediateDeviceOperation (device-operation-guard.js): it asks    *)
(*     once, and either runs under a heartbeat timer or withdraws and      *)
(*     answers 409;                                                        *)
(*   - a turn, an AI task of a story (sendTurnWithDeviceRuntime and        *)
(*     drainQueue of services/devbench/index.js): when the device is busy  *)
(*     its message is stored in the story's queue, and a later drain of    *)
(*     that story asks again with the same request id.                     *)
(*                                                                         *)
(* A drain happens only if somebody scheduled it: whoever sees the device  *)
(* pass to a story is to wake it.  Scheduled drains live in the memory of  *)
(* a gateway.  Several gateways may share the database, so calls of        *)
(* different clients interleave freely and any group of clients may die    *)
(* together.                                                               *)
(*                                                                         *)
(* Every step that touches the coordinator is one action of DeviceRuntime. *)
(***************************************************************************)
EXTENDS DeviceRuntime

CONSTANTS
    Immediate,   \* the requests that are immediate operations; the others are turns
    StoryOf,     \* the story each request is made for
    LeaseTtl,    \* the lease lifetime the clients ask for, in ticks
    Prompt,      \* whether timers fire, and their calls commit, within MaxLag
    MaxCrashes   \* bound on the times a gateway dies

Turns == Request \ Immediate

ASSUME DeviceClientsAssumption ==
    /\ Immediate \subseteq Request
    /\ StoryOf \in [Request -> Story]
    /\ \A c, d \in Turns : StoryOf[c] = StoryOf[d] => c = d
    /\ LeaseTtl \in Ttl
    /\ Prompt \in BOOLEAN
    /\ MaxCrashes \in Nat

VARIABLES
    pc,     \* where each client is
    tok,    \* the lease each client was granted, 0 for none
    due,    \* ticks until the heartbeat timer of an operating client fires
    wake,   \* stories with a scheduled drain
    crashes \* how many times a gateway has died

clientVars == <<dev, pc, tok, due, wake, crashes>>

\* The timer is as long as the lease.
Variant_HeartbeatAtExpiry == LeaseTtl

\* A third of the lifetime, and not below the shortest interval (one tick).
HeartbeatEvery == IF LeaseTtl \div 3 > 1 THEN LeaseTtl \div 3 ELSE 1

\* "busy"     told to wait, and about to withdraw or to store its message
\* "waiting"  a turn whose message is stored
\* "running"  operating the device
\* "stale"    operating on, with the failure of its heartbeat latched
\* "closing"  finished or stopped, the lease not yet given back
\* "blocked"  a turn whose message was marked as failed, for the user to retry
\* "refused"  withdrawn
\* "gone"     its process died
ClientState == {"idle", "busy", "waiting", "running", "stale", "closing",
                "done", "blocked", "refused", "gone"}

Operating(c) == pc[c] \in {"running", "stale"}

\* The transaction passed the device on, to the lease it left.
Granted == dev'.fencingCounter > dev.fencingCounter

WakeGranted == IF Granted THEN {dev'.lease.story} ELSE {}

Goto(c, place) == pc' = [pc EXCEPT ![c] = place]

-----------------------------------------------------------------------------
ClientsInit ==
    /\ Init
    /\ pc = [c \in Request |-> "idle"]
    /\ tok = [c \in Request |-> 0]
    /\ due = [c \in Request |-> 0]
    /\ wake = {}
    /\ crashes = 0

\* The operation starts under the lease the reply carries.
StartUnderLease(c) ==
    /\ Goto(c, "running")
    /\ tok' = [tok EXCEPT ![c] = dev'.lease.fencing]
    /\ due' = [due EXCEPT ![c] = HeartbeatEvery]

\* A turn that is told to wait wakes the story that has the device.
WakeHolder(c) ==
    IF c \in Turns THEN {dev'.lease.story} \ {StoryOf[c]} ELSE {}

Ask(c, lag) ==
    /\ pc[c] = "idle"
    /\ Acquire(c, StoryOf[c], LeaseTtl, lag)
    /\ \/ /\ AcquireStatus(dev', c, StoryOf[c]) = "acquired"
          /\ StartUnderLease(c)
          /\ UNCHANGED wake
       \/ /\ AcquireStatus(dev', c, StoryOf[c]) = "queued"
          /\ Goto(c, "busy")
          /\ wake' = wake \cup WakeHolder(c)
          /\ UNCHANGED <<tok, due>>

\* The request is withdrawn without a lease, and whatever the reply, the client
\* is done with it: an immediate operation that found the device busy, a turn
\* (asking the first time, or again) whose repository turned out invalid while
\* it was told to wait.
Withdraw(c, lag) ==
    /\ pc[c] = "busy" \/ pc[c] = "waiting"
    /\ Cancel(c, 0, lag)
    /\ Goto(c, "refused")
    /\ UNCHANGED <<tok, due, wake>>

Persist(c) ==
    /\ c \in Turns
    /\ pc[c] = "busy"
    /\ Goto(c, "waiting")
    /\ UNCHANGED <<dev, tok, due, wake>>

\* A message whose request has ended is left as it is.
Variant_RedeliverKeepsEnded(c, lag) ==
    /\ pc[c] = "waiting"
    /\ StoryOf[c] \in wake
    /\ Acquire(c, StoryOf[c], LeaseTtl, lag)
    /\ \/ /\ AcquireStatus(dev', c, StoryOf[c]) = "acquired"
          /\ StartUnderLease(c)
          /\ wake' = wake \ {StoryOf[c]}
       \/ /\ AcquireStatus(dev', c, StoryOf[c]) # "acquired"
          /\ wake' = wake \ {StoryOf[c]}
          /\ UNCHANGED <<pc, tok, due>>

\* A scheduled drain of a story whose message waits asks again.
Redeliver(c, lag) ==
    /\ pc[c] = "waiting"
    /\ StoryOf[c] \in wake
    /\ Acquire(c, StoryOf[c], LeaseTtl, lag)
    /\ \/ /\ AcquireStatus(dev', c, StoryOf[c]) = "acquired"
          /\ StartUnderLease(c)
          /\ wake' = wake \ {StoryOf[c]}
       \/ /\ AcquireStatus(dev', c, StoryOf[c]) = "queued"
          /\ wake' = (wake \ {StoryOf[c]}) \cup WakeHolder(c)
          /\ UNCHANGED <<pc, tok, due>>
       \/ /\ AcquireStatus(dev', c, StoryOf[c]) = "ended"
          /\ Goto(c, "blocked")
          /\ wake' = wake \ {StoryOf[c]}
          /\ UNCHANGED <<tok, due>>

\* The drain finds the story's repository invalid before it asks: the message
\* is marked as failed, and its request stays with the coordinator.
BlockUnasked(c) ==
    /\ pc[c] = "waiting"
    /\ StoryOf[c] \in wake
    /\ Goto(c, "blocked")
    /\ wake' = wake \ {StoryOf[c]}
    /\ UNCHANGED <<dev, tok, due>>

\* A scheduled drain that finds no message to deliver.
DrainNothing(s) ==
    /\ s \in wake
    /\ ~ \E c \in Turns : StoryOf[c] = s /\ pc[c] = "waiting"
    /\ wake' = wake \ {s}
    /\ UNCHANGED <<dev, pc, tok, due>>

\* The next beat is counted from a clock reading that lies ahead.
Variant_BeatCountsLate(c, lag) ==
    /\ pc[c] = "running"
    /\ due[c] <= 0
    /\ lag <= -due[c]
    /\ Heartbeat(tok[c], LeaseTtl, lag)
    /\ due' = [due EXCEPT ![c] = HeartbeatEvery + lag]
    /\ UNCHANGED <<pc, tok, wake>>

\* The failure of a heartbeat is swallowed.
Variant_BeatIgnoresLoss(c, lag) ==
    /\ pc[c] = "running"
    /\ due[c] <= 0
    /\ lag <= -due[c]
    /\ Heartbeat(tok[c], LeaseTtl, lag)
    /\ due' = [due EXCEPT ![c] = HeartbeatEvery - lag]
    /\ UNCHANGED <<pc, tok, wake>>

\* The heartbeat timer fired "lag" ago, and its call commits.  A turn that
\* learns that its lease is gone is stopped; an immediate operation goes on.
Beat(c, lag) ==
    /\ pc[c] = "running"
    /\ due[c] <= 0
    /\ lag <= -due[c]
    /\ Heartbeat(tok[c], LeaseTtl, lag)
    /\ IF HoldsToken(dev', tok[c])
       THEN /\ due' = [due EXCEPT ![c] = HeartbeatEvery - lag]
            /\ UNCHANGED pc
       ELSE /\ due' = [due EXCEPT ![c] = 0]
            /\ Goto(c, IF c \in Immediate THEN "stale" ELSE "closing")
    /\ UNCHANGED <<tok, wake>>

\* The operation ends, well or badly, and its timer is cleared.
Finish(c) ==
    /\ Operating(c)
    /\ Goto(c, "closing")
    /\ due' = [due EXCEPT ![c] = 0]
    /\ UNCHANGED <<dev, tok, wake>>

\* The lease is given back; a successful reply names who has the device next.
GiveBack(c, lag) ==
    /\ pc[c] = "closing"
    /\ Release(tok[c], lag)
    /\ Goto(c, "done")
    /\ wake' = IF \E h \in dev'.history :
                     h.fencing = tok[c] /\ h.status = "released"
               THEN wake \cup WakeGranted
               ELSE wake
    /\ UNCHANGED <<tok, due>>

\* The user closes a story whose turn has not started.  The close acts on a
\* snapshot: it cancels with the lease it saw, or with none; when it fails the
\* story stays open.
CloseStory(c, lag) ==
    /\ pc[c] = "waiting"
    /\ \E t \in {0} \cup (IF HoldsRequest(dev, c) THEN {dev.lease.fencing} ELSE {}) :
          Cancel(c, t, lag)
    /\ IF HoldsRequest(dev', c)
       THEN UNCHANGED <<pc, wake>>
       ELSE Goto(c, "refused") /\ wake' = wake \cup WakeGranted
    /\ UNCHANGED <<tok, due>>

\* The dashboard lists the devices: an expired lease is recovered, and the
\* story that gets the device is woken.  The snapshot that the close of a story
\* takes first recovers it too, and wakes nobody.
Poll(lag) ==
    /\ Expired(dev, lag) \/ (~Leased(dev) /\ dev.queue # {})
    /\ RecoverExpired(lag)
    /\ wake' \in {wake, wake \cup WakeGranted}
    /\ UNCHANGED <<pc, tok, due>>

\* A gateway dies with the calls in C and the drains in W it had scheduled.
Crash(C, W) ==
    /\ \A c \in C : pc[c] \in {"busy", "running", "stale", "closing"}
    /\ C # {} \/ W # {}
    /\ pc' = [c \in Request |-> IF c \in C THEN "gone" ELSE pc[c]]
    /\ due' = [c \in Request |-> IF c \in C THEN 0 ELSE due[c]]
    /\ wake' = wake \ W
    /\ crashes' = crashes + 1
    /\ crashes' <= MaxCrashes
    /\ UNCHANGED <<dev, tok>>

\* Soon after a gateway starts, and every minute from then on, it schedules a
\* drain of every stored message.
Sweep ==
    /\ wake' = wake \cup {StoryOf[c] : c \in {d \in Turns : pc[d] = "waiting"}}
    /\ UNCHANGED <<dev, pc, tok, due>>

\* Time passes.
ClockTick ==
    /\ Prompt => \A c \in Request : pc[c] = "running" => due[c] > -MaxLag
    /\ IF Leased(dev) /\ dev.lease.left > -MaxLag THEN Tick ELSE UNCHANGED dev
    /\ due' = [c \in Request |->
                  IF pc[c] = "running" /\ due[c] > -MaxLag THEN due[c] - 1 ELSE due[c]]
    /\ UNCHANGED <<pc, tok, wake>>

ClientStep(c, lag) ==
    \/ Ask(c, lag)
    \/ c \in Turns /\ (Redeliver(c, lag) \/ BlockUnasked(c) \/ CloseStory(c, lag))
    \/ Withdraw(c, lag)
    \/ Persist(c)
    \/ Beat(c, lag)
    \/ Finish(c)
    \/ GiveBack(c, lag)

ClientsNext ==
    \/ \E c \in Request, lag \in Lag : ClientStep(c, lag) /\ UNCHANGED crashes
    \/ \E s \in Story : DrainNothing(s) /\ UNCHANGED crashes
    \/ \E lag \in Lag : Poll(lag) /\ UNCHANGED crashes
    \/ \E C \in SUBSET Request, W \in SUBSET wake : Crash(C, W)
    \/ Sweep /\ UNCHANGED crashes
    \/ ClockTick /\ UNCHANGED crashes

ClientsSpec == ClientsInit /\ [][ClientsNext]_clientVars

\* What a client does on its own: it answers, a scheduled drain of its story is
\* run, its operation ends and its lease is given back.
Progress(c, lag) ==
    /\ \/ pc[c] = "busy" /\ (Withdraw(c, lag) \/ Persist(c))
       \/ c \in Turns /\ Redeliver(c, lag)
       \/ Finish(c)
       \/ GiveBack(c, lag)
    /\ UNCHANGED crashes

\* Only the timers are fair: an operation may last for ever.
TimersSpec ==
    /\ ClientsSpec
    /\ \A c \in Request : WF_clientVars(\E lag \in Lag : Beat(c, lag) /\ UNCHANGED crashes)
    /\ WF_clientVars(ClockTick /\ UNCHANGED crashes)

\* Operations end and gateways sweep.  A poll of the dashboard, a crash, a new
\* request and the closing of a story may never come.
OperationsEnd ==
    /\ \A c \in Request : WF_clientVars(\E lag \in Lag : Progress(c, lag))
    /\ WF_clientVars(Sweep /\ UNCHANGED crashes)

-----------------------------------------------------------------------------
(* Properties. *)

ClientsTypeOK ==
    /\ TypeOK
    /\ pc \in [Request -> ClientState]
    /\ tok \in [Request -> 0 .. dev.fencingCounter]
    /\ due \in [Request -> -MaxLag .. HeartbeatEvery]
    /\ wake \subseteq Story
    /\ crashes \in 0 .. MaxCrashes

\* Heartbeats a third of the lifetime apart are enough for an immediate
\* operation: whatever the clock readings of the others, and when no two clients
\* share a story, it holds the lease at every moment from its first command to its
\* last, so that nobody else is granted the device, unless its own timer is late
\* or has told it so.
OperationHoldsLease ==
    \A c \in Immediate :
        pc[c] = "running" /\ ~HoldsToken(dev, tok[c]) => due[c] = -MaxLag

\* At most one client operates the device at a time: AI turns, scripts, installs
\* and manual operations are serialised by the lease.
OneOperation ==
    \A c, d \in Request : Operating(c) /\ Operating(d) => c = d

\* Nobody takes the lease of a client that is operating: it goes by running out
\* of time, and by nothing another client does with an older token, with no
\* token, or after a restart.
LostOnlyByExpiry ==
    [][\A c \in Request :
          Operating(c) /\ HoldsToken(dev, tok[c]) /\ ~HoldsToken(dev', tok[c])
             => dev.lease.left <= 0]_clientVars

\* A lease is prolonged only by the client that operates under it.  One that fell to
\* a client that no longer wants it, that was refused between the reply and its
\* withdrawal, blocked, or whose process died, runs out, and the next in line gets
\* the device: no timer left over from an earlier lease keeps it alive.
RenewedByItsOperator ==
    [][LET l == dev.lease
       IN  /\ Leased(dev) /\ HoldsToken(dev', l.fencing)
           /\ dev'.lease.left > l.left
           => pc[l.req] = "running" /\ tok[l.req] = l.fencing]_clientVars

\* The coordinator knows the request of every stored message, so that asking
\* again continues that request and never makes a new one at the end of the line.
StoredMessageIsKnown ==
    \A c \in Turns : pc[c] = "waiting" => Known(dev, c)

\* A stored message does not wait for ever, whoever crashed, withdrew or was
\* not woken, provided that operations end: it is delivered, or marked as failed
\* for the user to see.
StoredMessageSettles ==
    OperationsEnd => \A c \in Turns : pc[c] = "waiting" ~> pc[c] # "waiting"

\* A turn that no longer holds the lease stops operating the device.
LoserStops ==
    \A c \in Turns :
        pc[c] = "running" /\ ~HoldsToken(dev, tok[c]) ~> pc[c] # "running"

=============================================================================
