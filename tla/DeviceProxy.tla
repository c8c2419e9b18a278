------------------------------ MODULE DeviceProxy ------------------------------
(***************************************************************************)
(* The device proxy of workflow v2: createStoryLeaseDeviceProxy of         *)
(* src/gateway/services/devbench/device-operation-guard-service.js, around *)
(* the coordinator of DeviceRuntime.                                       *)
(*                                                                         *)
(* A stage of a workflow may act on the device of its story under the      *)
(* lease that the dispatch of the stage has frozen.  The proxy takes no    *)
(* lease.  Before the action and again after it, it reads the binding of   *)
(* the story, reads the lease, renews it and reads the binding once more;  *)
(* if all that is in order it signs a receipt, and otherwise it reports    *)
(* that the action is blocked.  Between any two of these reads everybody   *)
(* else goes on: the turn of the story, other stories, gateways that       *)
(* recover an expired lease, and the user, who may give the story another  *)
(* device.                                                                 *)
(*                                                                         *)
(* One proxy of the story Owner and one device are modelled.               *)
(***************************************************************************)
EXTENDS DeviceRuntime

CONSTANT Owner   \* the story the proxy acts for

ASSUME DeviceProxyAssumption ==
    /\ Owner \in Story
    /\ Request \cap {"none", "writing"} = {}

VARIABLES
    at,      \* what the proxy does next
    after,   \* whether the action has been performed: the second round of checks
    tok,     \* the token of the frozen lease; 0 before any is frozen
    ttl,     \* the lifetime of the lease, as read before its renewal; otherwise 0
    rest,    \* the time left to the renewed lease the proxy was told of
    bound,   \* whether the story is bound to this device
    change,  \* how far a change to another device has come
    lapsed   \* history: the frozen lease was not held at some moment of the action

proxyVars == <<dev, at, after, tok, ttl, rest, bound, change, lapsed>>

Place == {"idle", "frozen", "binding", "lease", "renewal", "rebinding",
          "acting", "passed", "blocked"}

\* execute() is under way.
Executing == at \in {"binding", "lease", "renewal", "rebinding", "acting"}

ProxyInit ==
    /\ Init
    /\ at = "idle" /\ after = FALSE /\ tok = 0 /\ ttl = 0 /\ rest = 0
    /\ bound = TRUE /\ change = "none" /\ lapsed = FALSE

\* The others act; the proxy stays where it is.
Stays == UNCHANGED <<at, after, tok, ttl>>

\* The lease is watched from the beginning of an action to its end.
Watch ==
    lapsed' = \/ at' = "acting" /\ ~HoldsToken(dev', tok')
              \/ lapsed /\ at' # "frozen" /\ ~(at' = "binding" /\ ~after')

-----------------------------------------------------------------------------
(* The proxy. *)

\* The dispatch of a stage freezes the lease of the story.
Freeze ==
    /\ ~Executing
    /\ bound /\ Leased(dev) /\ dev.lease.story = Owner
    /\ at' = "frozen"
    /\ tok' = dev.lease.fencing
    /\ after' = FALSE
    /\ UNCHANGED <<dev, ttl, rest, bound, change>>

\* The stage asks for an action; the adapter proves what it is.
Begin ==
    /\ at \in {"frozen", "passed", "blocked"}
    /\ at' = "binding"
    /\ after' = FALSE
    /\ UNCHANGED <<dev, tok, ttl, rest, bound, change>>

\* Any step may fail: the adapter, the storage, or a check that follows.
Block ==
    /\ Executing
    /\ at' = "blocked" /\ after' = FALSE
    /\ ttl' = 0 /\ rest' = 0
    /\ UNCHANGED <<dev, tok, bound, change>>

\* The story is still bound to the device of the frozen lease.
ReadBinding ==
    /\ at = "binding"
    /\ bound
    /\ at' = "lease"
    /\ UNCHANGED <<dev, after, tok, ttl, rest, bound, change>>

\* assertDeviceLeaseBinding: the lease is the frozen one.
LeaseIsFrozenOne(s) == HoldsToken(s, tok) /\ s.lease.story = Owner

\* The snapshot does not recover an expired lease; it is refused.
ReadLease ==
    /\ at = "lease"
    /\ LeaseIsFrozenOne(dev) /\ dev.lease.left > 0
    /\ at' = "renewal"
    /\ ttl' = dev.lease.ttl
    /\ UNCHANGED <<dev, after, tok, rest, bound, change>>

\* Renews the lease for the lifetime read before; a heartbeat that is refused
\* may have recovered an expired lease all the same.
Renew(lag) ==
    /\ at = "renewal"
    /\ Heartbeat(tok, ttl, lag)
    /\ IF LeaseIsFrozenOne(dev')
       THEN at' = "rebinding" /\ rest' = ttl - lag /\ UNCHANGED after
       ELSE at' = "blocked" /\ rest' = 0 /\ after' = FALSE
    /\ ttl' = 0
    /\ UNCHANGED <<tok, bound, change>>

\* The story is still bound, and the renewed lease has not run out meanwhile:
\* the action begins, or its receipt is signed.
ReadBindingAgain ==
    /\ at = "rebinding"
    /\ bound /\ rest > 0
    /\ at' = IF after THEN "passed" ELSE "acting"
    /\ rest' = 0
    /\ UNCHANGED <<dev, after, tok, ttl, bound, change>>

\* The receipt is signed as soon as the action has succeeded.
Variant_EndAction ==
    /\ at = "acting"
    /\ at' = "passed"
    /\ after' = TRUE
    /\ UNCHANGED <<dev, tok, ttl, rest, bound, change>>

\* The adapter reports success.
EndAction ==
    /\ at = "acting"
    /\ at' = "binding"
    /\ after' = TRUE
    /\ UNCHANGED <<dev, tok, ttl, rest, bound, change>>

ProxyStep ==
    \/ Freeze \/ Begin \/ Block
    \/ ReadBinding \/ ReadLease \/ ReadBindingAgain \/ EndAction
    \/ \E lag \in Lag : Renew(lag)

-----------------------------------------------------------------------------
(* The others. *)

\* Somebody calls the coordinator.
Call ==
    /\ \/ \E r \in Request, story \in Story, t \in Ttl, lag \in Lag :
             Acquire(r, story, t, lag)
       \/ \E t \in IssuedToken, l \in Ttl, lag \in Lag : Heartbeat(t, l, lag)
       \/ \E t \in IssuedToken, lag \in Lag : Release(t, lag)
       \/ \E r \in Request, t \in {0} \cup IssuedToken, lag \in Lag : Cancel(r, t, lag)
       \/ \E lag \in Lag : RecoverExpired(lag)
    /\ Stays
    /\ UNCHANGED <<rest, bound, change>>

\* The user gives the story another device, or none: refused while the story
\* holds the device; its waiting request, if any, is to be cancelled first.
AskForChange ==
    /\ bound /\ change = "none"
    /\ ~(Leased(dev) /\ dev.lease.story = Owner)
    /\ LET waiting == {r \in Request : \E e \in dev.queue : e.req = r /\ e.story = Owner}
       IN  change' \in (IF waiting = {} THEN {"writing"} ELSE waiting)
    /\ Stays
    /\ UNCHANGED <<dev, rest, bound>>

CancelForChange(lag) ==
    /\ change \in Request
    /\ Cancel(change, 0, lag)
    /\ change' = "writing"
    /\ Stays
    /\ UNCHANGED <<rest, bound>>

\* The binding is written without a second look at the lease.
WriteChange ==
    /\ change = "writing"
    /\ bound' = FALSE
    /\ change' = "none"
    /\ Stays
    /\ UNCHANGED <<dev, rest>>

\* The story gets this device back.
Rebind ==
    /\ ~bound
    /\ bound' = TRUE
    /\ Stays
    /\ UNCHANGED <<dev, rest, change>>

\* Time passes for the lease and for what the proxy knows of it.
Wait ==
    /\ IF Leased(dev) /\ dev.lease.left > -MaxLag THEN Tick ELSE UNCHANGED dev
    /\ rest' = IF rest > 0 THEN rest - 1 ELSE 0
    /\ Stays
    /\ UNCHANGED <<bound, change>>

ProxyNext ==
    /\ \/ ProxyStep
       \/ Call
       \/ AskForChange
       \/ \E lag \in Lag : CancelForChange(lag)
       \/ WriteChange
       \/ Rebind
       \/ Wait
    /\ Watch

ProxySpec == ProxyInit /\ [][ProxyNext]_proxyVars

-----------------------------------------------------------------------------
(* Properties. *)

ProxyTypeOK ==
    /\ TypeOK
    /\ at \in Place
    /\ after \in BOOLEAN
    /\ tok \in 0 .. dev.fencingCounter
    /\ ttl \in Ttl \cup {0} /\ (at = "renewal" => ttl \in Ttl)
    /\ rest \in Int
    /\ bound \in BOOLEAN
    /\ change \in {"none", "writing"} \cup Request
    /\ lapsed \in BOOLEAN

\* A receipt of success means that the story held the device, under the frozen
\* lease, at every moment of the action: the checks before and after it suffice,
\* because a lease that was lost in between never comes back under its token,
\* not even for the same story.
ReceiptMeansHeld == at = "passed" => ~lapsed
=============================================================================
