----------------------------- MODULE DeviceRuntime -----------------------------
(***************************************************************************)
(* The coordinator of one physical device: the class                       *)
(* DeviceRuntimeCoordinator of                                             *)
(* src/gateway/services/devbench/device-runtime.js.                        *)
(*                                                                         *)
(* The coordinator keeps one persistent record per device serial: the      *)
(* active lease, the queue of waiting requests, and the requests that have *)
(* ended.  Every operation is one transition of that record inside a       *)
(* SQLite "immediate" transaction (device-runtime-service.js), so every    *)
(* operation is one action.  Serials do not interact: one serial is        *)
(* modelled.                                                               *)
(*                                                                         *)
(* Time.  The code stores expiresAt and compares it with the time the      *)
(* caller read BEFORE its transaction began; with several gateways on one  *)
(* database that reading may be old by the time spent waiting for the      *)
(* write lock.  A lease keeps here "left" = expiresAt - (current time),    *)
(* and an operation carries the "lag" of its clock reading, 0 .. MaxLag:   *)
(* expiresAt <= now is left + lag <= 0.                                    *)
(*                                                                         *)
(* A lease id is a fresh random UUID issued with each fencing token, so    *)
(* the token stands for the pair (leaseId, fencingToken).                  *)
(***************************************************************************)
EXTENDS Integers, FiniteSets

CONSTANTS
    Request,       \* request ids
    Story,         \* story ids: the identity of a request
    Ttl,           \* the lease lifetimes a caller may ask for
    MaxLag,        \* how old the clock reading of an operation may be
    HistoryLimit,  \* how many ended requests the record keeps
    MaxSequence,   \* bound on the queue numbers handed out
    None           \* no lease

QueueEntry == [req : Request, story : Story, seq : Nat, ttl : Ttl]

Lease == [req : Request, story : Story, seq : Nat, ttl : Ttl,
          fencing : Nat, left : Int]

TerminalStatus == {"released", "cancelled", "expired"}

\* "ord" is the place in the newest-first array: a larger ord is nearer the front.
HistoryEntry == [req : Request, story : Story, fencing : Nat,
                 status : TerminalStatus, ord : Nat]

DeviceState == [lease : Lease \cup {None}, queue : SUBSET QueueEntry,
                history : SUBSET HistoryEntry,
                fencingCounter : Nat, nextSequence : Nat, pushed : Nat]

ASSUME DeviceRuntimeAssumption ==
    /\ Ttl \subseteq Nat \ {0}
    /\ MaxLag \in Nat
    /\ HistoryLimit \in Nat \ {0}
    /\ MaxSequence \in Nat
    /\ None \notin Lease

VARIABLE dev   \* the persisted record of the device

(* A definition named Variant_... is a plausible mistake in the one that     *)
(* follows it; the specification does not use it.  Each property is shown to *)
(* fail under one of them.                                                   *)

-----------------------------------------------------------------------------
(* What the record says. *)

Leased(s) == s.lease # None

\* The request waits in the queue.
Queued(s, r) == \E e \in s.queue : e.req = r

Ended(s, r) == \E h \in s.history : h.req = r

HoldsRequest(s, r) == Leased(s) /\ s.lease.req = r

HoldsToken(s, tok) == Leased(s) /\ s.lease.fencing = tok

\* findRequest overlooks the history.
Variant_KnownWhileLive(s, r) == HoldsRequest(s, r) \/ Queued(s, r)

Known(s, r) == HoldsRequest(s, r) \/ Queued(s, r) \/ Ended(s, r)

\* The queue is kept in ascending sequence; its head has the smallest one.
QueueHead(s) == CHOOSE e \in s.queue : \A f \in s.queue : e.seq <= f.seq

Expired(s, lag) == Leased(s) /\ s.lease.left + lag <= 0

-----------------------------------------------------------------------------
(* The steps the operations are composed of. *)

InitialState == [lease |-> None, queue |-> {}, history |-> {},
                 fencingCounter |-> 0, nextSequence |-> 1, pushed |-> 0]

Newest(history) ==
    {h \in history :
        Cardinality({k \in history : k.ord > h.ord}) < HistoryLimit}

\* n, raised to the largest member of S above it.
RaisedTo(n, S) ==
    IF \E m \in S : m > n THEN CHOOSE m \in S : \A k \in S : k <= m ELSE n

\* What a stored record is turned into when it is read back.
NormalizeState(s) ==
    LET tokens == {h.fencing : h \in s.history}
                     \cup (IF Leased(s) THEN {s.lease.fencing} ELSE {})
    IN  [s EXCEPT !.history = Newest(@),
                  !.fencingCounter = RaisedTo(@, tokens),
                  !.nextSequence = RaisedTo(@, {e.seq + 1 : e \in s.queue})]

\* The record of an entry that has ended; the n-th one of a transition.
Terminal(s, e, tok, status, n) ==
    [req |-> e.req, story |-> e.story, fencing |-> tok, status |-> status,
     ord |-> s.pushed + n]

\* Ended entries go to the front of the history, any older entry of the same
\* request is dropped, and what exceeds the limit is forgotten.
PushHistory(s, records) ==
    [s EXCEPT !.history =
                Newest({h \in @ : \A k \in records : h.req # k.req}
                          \cup records),
              !.pushed = @ + Cardinality(records)]

\* The lease is dropped without a record.
Variant_EndLeaseUnrecorded(s, status) == [s EXCEPT !.lease = None]

EndLease(s, status) ==
    [PushHistory(s, {Terminal(s, s.lease, s.lease.fencing, status, 1)})
        EXCEPT !.lease = None]

\* The entries leave the queue without a record.
Variant_CancelQueuedUnrecorded(s, E) == [s EXCEPT !.queue = @ \ E]

\* The records keep the status the entries had.
Variant_CancelQueuedStatus(s, E) ==
    [PushHistory(s, {Terminal(s, e, 0, "queued", 1) : e \in E})
        EXCEPT !.queue = @ \ E]

\* The entries in E leave the queue, in queue order.
CancelQueued(s, E) ==
    LET rank(e) == Cardinality({f \in E : f.seq <= e.seq})
    IN  [PushHistory(s, {Terminal(s, e, 0, "cancelled", rank(e)) : e \in E})
            EXCEPT !.queue = @ \ E]

\* The lease is reaped a tick early.
Variant_ReapEarly(s, lag) ==
    IF Leased(s) /\ s.lease.left + lag <= 1 THEN EndLease(s, "expired") ELSE s

ReapExpired(s, lag) == IF Expired(s, lag) THEN EndLease(s, "expired") ELSE s

\* The lease takes the counter's value before it is raised.
Variant_GrantReusesToken(s, lag) ==
    IF Leased(s) \/ s.queue = {}
    THEN s
    ELSE LET e == QueueHead(s)
         IN  [s EXCEPT
                !.lease = [req |-> e.req, story |-> e.story, seq |-> e.seq,
                           ttl |-> e.ttl, fencing |-> s.fencingCounter,
                           left |-> e.ttl - lag],
                !.queue = @ \ {e},
                !.fencingCounter = @ + 1]

\* A free device goes to the head of the queue under a new fencing token.
GrantNext(s, lag) ==
    IF Leased(s) \/ s.queue = {}
    THEN s
    ELSE LET e == QueueHead(s)
         IN  [s EXCEPT
                !.lease = [req |-> e.req, story |-> e.story, seq |-> e.seq,
                           ttl |-> e.ttl, fencing |-> s.fencingCounter + 1,
                           left |-> e.ttl - lag],
                !.queue = @ \ {e},
                !.fencingCounter = @ + 1]

\* A new request of a story replaces what that story holds or waits for.
EvictLease(s, story, r) ==
    IF Leased(s) /\ s.lease.story = story /\ s.lease.req # r
    THEN EndLease(s, "released")
    ELSE s

\* Only the lease of the story is replaced.
Variant_EvictLeaseOnly(s, story, r) == EvictLease(s, story, r)

EvictByStoryId(s, story, r) ==
    LET t == EvictLease(s, story, r)
    IN  CancelQueued(t, {e \in t.queue : e.story = story /\ e.req # r})

Enqueue(s, r, story, ttl) ==
    [s EXCEPT !.queue = @ \cup {[req |-> r, story |-> story,
                                 seq |-> s.nextSequence, ttl |-> ttl]},
              !.nextSequence = @ + 1]

-----------------------------------------------------------------------------
(* The record after each operation. *)

AfterAcquire(s, r, story, ttl, lag) ==
    LET t == GrantNext(ReapExpired(s, lag), lag)
    IN  IF Known(t, r)
        THEN t
        ELSE GrantNext(Enqueue(EvictByStoryId(t, story, r), r, story, ttl), lag)

\* What the caller of acquire is told, read off the resulting record.
AcquireStatus(s, r, story) ==
    LET found == IF Leased(s) /\ s.lease.req = r THEN {s.lease}
                 ELSE {e \in s.queue : e.req = r} \cup {h \in s.history : h.req = r}
    IN  IF \E e \in found : e.story # story THEN "conflict"
        ELSE IF HoldsRequest(s, r) THEN "acquired"
        ELSE IF Queued(s, r) THEN "queued"
        ELSE "ended"

\* Whoever beats, the lease is prolonged.
Variant_HeartbeatUnchecked(s, tok, ttl, lag) ==
    LET t == GrantNext(ReapExpired(s, lag), lag)
    IN  IF Leased(t)
        THEN [t EXCEPT !.lease = [@ EXCEPT !.left = ttl - lag, !.ttl = ttl]]
        ELSE t

AfterHeartbeat(s, tok, ttl, lag) ==
    LET t == GrantNext(ReapExpired(s, lag), lag)
    IN  IF HoldsToken(t, tok)
        THEN [t EXCEPT !.lease = [@ EXCEPT !.left = ttl - lag, !.ttl = ttl]]
        ELSE t

\* The device is handed on only when the release was in order.
Variant_ReleaseWithoutGrant(s, tok, lag) ==
    LET t == ReapExpired(s, lag)
    IN  IF HoldsToken(t, tok) THEN GrantNext(EndLease(t, "released"), lag) ELSE t

\* Whoever releases, the lease ends.
Variant_ReleaseUnchecked(s, tok, lag) ==
    LET t == ReapExpired(s, lag)
    IN  GrantNext(IF Leased(t) THEN EndLease(t, "released") ELSE t, lag)

AfterRelease(s, tok, lag) ==
    LET t == ReapExpired(s, lag)
    IN  GrantNext(IF HoldsToken(t, tok) THEN EndLease(t, "released") ELSE t, lag)

\* tok is 0 when the caller presents no lease.
AfterCancel(s, r, tok, lag) ==
    LET t == ReapExpired(s, lag)
    IN  IF Queued(t, r)
        THEN GrantNext(CancelQueued(t, {e \in t.queue : e.req = r}), lag)
        ELSE IF HoldsRequest(t, r)
        THEN IF HoldsToken(t, tok)
             THEN GrantNext(EndLease(t, "cancelled"), lag)
             ELSE t
        ELSE GrantNext(t, lag)

AfterRecover(s, lag) == GrantNext(ReapExpired(s, lag), lag)

-----------------------------------------------------------------------------
(* The operations. *)

Lag == 0 .. MaxLag

\* The tokens a caller can hold: those that were issued.
IssuedToken == 1 .. dev.fencingCounter

Init == dev = InitialState

Acquire(r, story, ttl, lag) ==
    /\ dev' = AfterAcquire(NormalizeState(dev), r, story, ttl, lag)
    /\ dev'.nextSequence <= MaxSequence + 1

Heartbeat(tok, ttl, lag) ==
    dev' = AfterHeartbeat(NormalizeState(dev), tok, ttl, lag)

Release(tok, lag) == dev' = AfterRelease(NormalizeState(dev), tok, lag)

Cancel(r, tok, lag) == dev' = AfterCancel(NormalizeState(dev), r, tok, lag)

\* Also what a snapshot does when it finds an expired lease, or a free device
\* with a queue.
RecoverExpired(lag) == dev' = AfterRecover(NormalizeState(dev), lag)

\* Time passes; below -MaxLag every clock reading finds the lease expired.
Tick ==
    /\ Leased(dev)
    /\ dev.lease.left > -MaxLag
    /\ dev' = [dev EXCEPT !.lease = [@ EXCEPT !.left = dev.lease.left - 1]]

Next ==
    \/ \E r \in Request, story \in Story, ttl \in Ttl, lag \in Lag :
          Acquire(r, story, ttl, lag)
    \/ \E tok \in IssuedToken, ttl \in Ttl, lag \in Lag : Heartbeat(tok, ttl, lag)
    \/ \E tok \in IssuedToken, lag \in Lag : Release(tok, lag)
    \/ \E r \in Request, tok \in {0} \cup IssuedToken, lag \in Lag :
          Cancel(r, tok, lag)
    \/ \E lag \in Lag : RecoverExpired(lag)
    \/ Tick

Spec == Init /\ [][Next]_dev

-----------------------------------------------------------------------------
(* Properties. *)

TypeOK == dev \in DeviceState

\* The device is never left idle while somebody waits for it, whatever ended
\* the last lease: every path that frees the lease, the error paths included,
\* also hands the device on before it commits.
NoIdleDevice == ~Leased(dev) => dev.queue = {}

\* A request is in one place: it holds the lease, or waits, or has ended, and
\* there is one record of it (findRequest relies on it).
RequestInOnePlace ==
    /\ \A e, f \in dev.queue : e.req = f.req => e = f
    /\ \A h, k \in dev.history : h.req = k.req => h = k
    /\ \A r \in Request : ~(HoldsRequest(dev, r) /\ Queued(dev, r))
    /\ \A r \in Request : Ended(dev, r) => ~HoldsRequest(dev, r) /\ ~Queued(dev, r)

\* A story has at most one claim on the device, holding or waiting.
OneEntryPerStory ==
    /\ \A e, f \in dev.queue : e.story = f.story => e = f
    /\ Leased(dev) => \A e \in dev.queue : e.story # dev.lease.story

\* First come, first served: the holder came before everyone who waits, no
\* two requests share a number, and a number is never handed out again.
ServedInOrder ==
    /\ \A e, f \in dev.queue : e.seq = f.seq => e = f
    /\ \A e \in dev.queue : e.seq < dev.nextSequence
    /\ Leased(dev) => /\ dev.lease.seq < dev.nextSequence
                      /\ \A e \in dev.queue : dev.lease.seq < e.seq

\* The holder has the newest fencing token ever issued, and no token was
\* issued twice: a command that carries an older token can be told apart.
HolderHasNewestToken ==
    /\ Leased(dev) =>
          /\ dev.lease.fencing = dev.fencingCounter
          /\ \A h \in dev.history : h.fencing < dev.lease.fencing
    /\ \A h, k \in dev.history : h.fencing = k.fencing /\ h.fencing > 0 => h = k
    /\ \A h \in dev.history : h.fencing <= dev.fencingCounter

\* Every new lease, on whatever path, carries a token above all earlier ones,
\* and the counter never goes back.
FencingAdvances ==
    [][/\ dev'.fencingCounter >= dev.fencingCounter
       /\ Leased(dev') /\ (Leased(dev) => dev'.lease.fencing # dev.lease.fencing)
             => dev'.lease.fencing > dev.fencingCounter]_dev

\* A lease is taken from its holder before it ran out only by its own release
\* or cancel, or by a newer request of the same story; reaping never does.
\* "Ran out" allows for the oldest clock reading.
TakenOnlyWhenDue ==
    [][\A h \in dev'.history \ dev.history :
          h.status = "expired" => HoldsRequest(dev, h.req) /\ dev.lease.left <= 0]_dev

\* A request that has ended never comes back: acquiring it again reports how
\* it ended.  It holds as long as the history has not forgotten the request.
EndedIsFinal ==
    [][\A h \in dev.history :
          ~HoldsRequest(dev', h.req) /\ ~Queued(dev', h.req)]_dev

=============================================================================
