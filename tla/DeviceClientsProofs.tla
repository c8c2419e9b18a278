-------------------------- MODULE DeviceClientsProofs --------------------------
(***************************************************************************)
(* What the clients of the device coordinator guarantee, for every number  *)
(* of immediate operations and turns, any timing and any number of crashes.*)
(*                                                                         *)
(* First, every step of a client is a legal call of the coordinator, so    *)
(* that what is proved of DeviceRuntime holds of the composed system.      *)
(* Then four things it is for: nobody takes the lease of a client that is  *)
(* operating (a lease is followed through the steps an operation is        *)
(* composed of); a stored message keeps its place in line; the types; and  *)
(* the heartbeats of an immediate operation are enough to hold the device. *)
(***************************************************************************)
EXTENDS DeviceClients, DeviceRuntimeLineProofs

\* The clients hold tokens that were issued.
TokensIssued ==
    /\ tok \in [Request -> Nat]
    /\ \A c \in Request : tok[c] <= dev.fencingCounter

Places ==
    /\ pc \in [Request -> ClientState]
    /\ \A c \in Request : pc[c] \in {"running", "stale", "closing"} => tok[c] # 0

Clients == Committed(dev) /\ TokensIssued /\ Places

-----------------------------------------------------------------------------
(* Every step of a client is a call of the coordinator. *)

\* What a client that is told it has the device reads off the reply.
LEMMA AcquiredReply ==
    ASSUME NEW s, Committed(s), NEW c \in Request, NEW story,
           AcquireStatus(s, c, story) = "acquired"
    PROVE  /\ HoldsRequest(s, c)
           /\ s.lease.fencing = s.fencingCounter
           /\ s.lease.fencing \in Nat \ {0}
<1>1. HoldsRequest(s, c)
  BY DEF AcquireStatus
<1>2. Leased(s)
  BY <1>1 DEF HoldsRequest
<1>3. s.lease.fencing \in Nat
  BY <1>2, CoreTokens DEF Committed
<1>. QED  BY <1>1, <1>2, <1>3 DEF Committed, Core, Tokens

\* The token a client presents is one that was issued.
LEMMA PresentsIssued ==
    ASSUME Clients, NEW c \in Request, pc[c] \in {"running", "stale", "closing"}
    PROVE  tok[c] \in IssuedToken
<1>1. tok[c] \in Nat /\ tok[c] # 0 /\ tok[c] <= dev.fencingCounter
  BY DEF Clients, TokensIssued, Places
<1>2. dev.fencingCounter \in Nat
  BY CoreTokens DEF Clients, Committed
<1>. QED  BY <1>1, <1>2 DEF IssuedToken

\* The story and the lifetime a client asks with are ones the coordinator takes.
LEMMA StoryAndTtl ==
    /\ \A c \in Request : StoryOf[c] \in Story
    /\ LeaseTtl \in Ttl
BY DeviceClientsAssumption

\* A step of the clients is a step of the coordinator, or leaves its record alone.
LEMMA StepIsCall ==
    ASSUME Clients, ClientsNext
    PROVE  Next \/ UNCHANGED dev
<1>1. ASSUME NEW c \in Request, NEW lag \in Lag, ClientStep(c, lag)
      PROVE  Next \/ UNCHANGED dev
  <2>1. CASE Ask(c, lag)
    BY <2>1, StoryAndTtl DEF Ask, Next
  <2>2. CASE Redeliver(c, lag)
    BY <2>2, StoryAndTtl DEF Redeliver, Next
  <2>3. CASE CloseStory(c, lag)
    <3>1. PICK t \in {0} \cup (IF HoldsRequest(dev, c) THEN {dev.lease.fencing} ELSE {}) :
             Cancel(c, t, lag)
      BY <2>3 DEF CloseStory
    <3>2. t \in {0} \cup IssuedToken
      <4>1. CASE HoldsRequest(dev, c)
        <5>1. /\ dev.lease.fencing = dev.fencingCounter
              /\ dev.lease.fencing > 0
              /\ dev.lease.fencing \in Nat
          BY <4>1, CoreTokens DEF Clients, Committed, Core, Tokens, HoldsRequest
        <5>. QED  BY <4>1, <5>1 DEF IssuedToken
      <4>2. CASE ~HoldsRequest(dev, c)
        BY <4>2
      <4>. QED  BY <4>1, <4>2
    <3>. QED  BY <3>1, <3>2 DEF Next
  <2>4. CASE Withdraw(c, lag)
    BY <2>4 DEF Withdraw, Next
  <2>5. CASE Persist(c) \/ Finish(c) \/ BlockUnasked(c)
    BY <2>5 DEF Persist, Finish, BlockUnasked
  <2>6. CASE Beat(c, lag)
    <3>1. tok[c] \in IssuedToken
      BY <2>6, PresentsIssued DEF Beat
    <3>. QED  BY <2>6, <3>1, StoryAndTtl DEF Beat, Next
  <2>7. CASE GiveBack(c, lag)
    <3>1. tok[c] \in IssuedToken
      BY <2>7, PresentsIssued DEF GiveBack
    <3>. QED  BY <2>7, <3>1 DEF GiveBack, Next
  <2>. QED
    BY <1>1, <2>1, <2>2, <2>3, <2>4, <2>5, <2>6, <2>7 DEF ClientStep
<1>2. ASSUME NEW s \in Story, DrainNothing(s)
      PROVE  UNCHANGED dev
  BY <1>2 DEF DrainNothing
<1>3. ASSUME NEW lag \in Lag, Poll(lag)
      PROVE  Next
  BY <1>3 DEF Poll, Next
<1>4. ASSUME NEW C, NEW W, Crash(C, W)
      PROVE  UNCHANGED dev
  BY <1>4 DEF Crash
<1>5. CASE Sweep
  BY <1>5 DEF Sweep
<1>6. CASE ClockTick
  BY <1>6 DEF ClockTick, Next
<1>. QED  BY <1>1, <1>2, <1>3, <1>4, <1>5, <1>6 DEF ClientsNext

\* The step commits a record, and the counter does not fall.
LEMMA StepCommits ==
    ASSUME Clients, ClientsNext
    PROVE  /\ Committed(dev')
           /\ Advances(dev, dev')
           /\ dev.fencingCounter \in Nat /\ dev'.fencingCounter \in Nat
           /\ dev'.fencingCounter >= dev.fencingCounter
<1>1. CASE Next
  <2>1. Committed(dev') /\ Advances(dev, dev')
    BY <1>1, NextCommits DEF Clients
  <2>. QED  BY <2>1, CoreTokens DEF Clients, Committed, Advances
<1>2. CASE UNCHANGED dev
  <2>1. Committed(dev')
    BY <1>2 DEF Clients
  <2>. QED  BY <1>2, <2>1, CoreTokens, SameClaimsAdvance DEF Clients, Committed
<1>. QED  BY <1>1, <1>2, StepIsCall

\* How a step moves one client: it stays, or leaves, or keeps its token on the
\* way from operating to closing, or starts under the lease just read.
Moves(c) ==
    \/ pc'[c] = pc[c] /\ tok'[c] = tok[c]
    \/ pc'[c] \in ClientState \ {"running", "stale", "closing"} /\ tok'[c] = tok[c]
    \/ /\ pc[c] \in {"running", "stale", "closing"}
       /\ pc'[c] \in ClientState
       /\ tok'[c] = tok[c]
    \/ /\ pc'[c] = "running"
       /\ HoldsRequest(dev', c)
       /\ tok'[c] = dev'.lease.fencing
       /\ dev'.lease.fencing = dev'.fencingCounter
       /\ dev'.lease.fencing \in Nat \ {0}

\* Every step moves every client in one of these ways.
LEMMA StepMoves ==
    ASSUME Clients, ClientsNext
    PROVE  /\ \E P, T : pc' = [d \in Request |-> P[d]] /\ tok' = [d \in Request |-> T[d]]
           /\ \A d \in Request : Moves(d)
<1> DEFINE Shape == \E P, T : pc' = [d \in Request |-> P[d]] /\ tok' = [d \in Request |-> T[d]]
<1>0. pc \in [Request -> ClientState] /\ tok \in [Request -> Nat] /\ Committed(dev')
  BY StepCommits DEF Clients, Places, TokensIssued
<1>1. ASSUME UNCHANGED <<pc, tok>>
      PROVE  Shape /\ \A d \in Request : Moves(d)
  BY <1>0, <1>1 DEF Moves
<1>2. ASSUME NEW c \in Request, NEW p \in ClientState, Goto(c, p), UNCHANGED tok,
             \/ p \notin {"running", "stale", "closing"}
             \/ pc[c] \in {"running", "stale", "closing"}
      PROVE  Shape /\ \A d \in Request : Moves(d)
  <2>1. \A d \in Request : Moves(d)
    BY <1>0, <1>2 DEF Moves, Goto
  <2>2. pc' = [d \in Request |-> pc'[d]] /\ tok' = [d \in Request |-> tok'[d]]
    BY <1>0, <1>2 DEF Goto
  <2>. QED  BY <2>1, <2>2
<1>3. ASSUME NEW c \in Request, StartUnderLease(c),
             AcquireStatus(dev', c, StoryOf[c]) = "acquired"
      PROVE  Shape /\ \A d \in Request : Moves(d)
  <2>1. /\ HoldsRequest(dev', c)
        /\ dev'.lease.fencing = dev'.fencingCounter
        /\ dev'.lease.fencing \in Nat \ {0}
    BY <1>0, <1>3, AcquiredReply
  <2>2. \A d \in Request : Moves(d)
    BY <1>0, <1>3, <2>1 DEF Moves, StartUnderLease, Goto
  <2>3. pc' = [d \in Request |-> pc'[d]] /\ tok' = [d \in Request |-> tok'[d]]
    BY <1>0, <1>3 DEF StartUnderLease, Goto
  <2>. QED  BY <2>2, <2>3
<1>4. ASSUME NEW C, NEW W, Crash(C, W)
      PROVE  Shape /\ \A d \in Request : Moves(d)
  <2>1. \A d \in Request : Moves(d)
    BY <1>0, <1>4 DEF Crash, Moves, ClientState
  <2>2. pc' = [d \in Request |-> pc'[d]] /\ tok' = [d \in Request |-> tok'[d]]
    BY <1>0, <1>4 DEF Crash
  <2>. QED  BY <2>1, <2>2
<1>5. ASSUME NEW c \in Request, NEW lag \in Lag, ClientStep(c, lag)
      PROVE  Shape /\ \A d \in Request : Moves(d)
  <2> HIDE DEF Shape
  <2>1. CASE Ask(c, lag)
    BY <2>1, <1>2, <1>3 DEF Ask, ClientState
  <2>2. CASE Redeliver(c, lag)
    BY <2>2, <1>1, <1>2, <1>3 DEF Redeliver, ClientState
  <2>3. CASE CloseStory(c, lag)
    BY <2>3, <1>1, <1>2 DEF CloseStory, ClientState
  <2>4. CASE Withdraw(c, lag)
    BY <2>4, <1>2 DEF Withdraw, ClientState
  <2>5. CASE Persist(c) \/ BlockUnasked(c)
    BY <2>5, <1>2 DEF Persist, BlockUnasked, ClientState
  <2>6. CASE Finish(c)
    BY <2>6, <1>2 DEF Finish, Operating, ClientState
  <2>7. CASE Beat(c, lag)
    BY <2>7, <1>1, <1>2 DEF Beat, ClientState
  <2>8. CASE GiveBack(c, lag)
    BY <2>8, <1>2 DEF GiveBack, ClientState
  <2>. QED
    BY <1>5, <2>1, <2>2, <2>3, <2>4, <2>5, <2>6, <2>7, <2>8 DEF ClientStep
<1> HIDE DEF Shape
<1>6. ASSUME NEW s \in Story, DrainNothing(s)
      PROVE  UNCHANGED <<pc, tok>>
  BY <1>6 DEF DrainNothing
<1>7. ASSUME NEW lag \in Lag, Poll(lag)
      PROVE  UNCHANGED <<pc, tok>>
  BY <1>7 DEF Poll
<1>8. Sweep \/ ClockTick => UNCHANGED <<pc, tok>>
  BY DEF Sweep, ClockTick
<1>9. Shape /\ \A d \in Request : Moves(d)
  BY <1>1, <1>4, <1>5, <1>6, <1>7, <1>8 DEF ClientsNext
<1>. QED  BY <1>9 DEF Shape

\* The invariant of the clients is inductive.
LEMMA StepKeepsClients ==
    ASSUME Clients, ClientsNext
    PROVE  Clients'
<1>1. /\ Committed(dev')
      /\ dev.fencingCounter \in Nat /\ dev'.fencingCounter \in Nat
      /\ dev'.fencingCounter >= dev.fencingCounter
  BY StepCommits
<1>2. \A d \in Request : Moves(d)
  BY StepMoves
<1>3. PICK P, T : pc' = [d \in Request |-> P[d]] /\ tok' = [d \in Request |-> T[d]]
  BY StepMoves
<1>4. ASSUME NEW d \in Request
      PROVE  /\ pc'[d] \in ClientState
             /\ tok'[d] \in Nat
             /\ tok'[d] <= dev'.fencingCounter
             /\ pc'[d] \in {"running", "stale", "closing"} => tok'[d] # 0
  <2>1. pc[d] \in ClientState /\ tok[d] \in Nat /\ tok[d] <= dev.fencingCounter
    BY DEF Clients, Places, TokensIssued
  <2>2. pc[d] \in {"running", "stale", "closing"} => tok[d] # 0
    BY DEF Clients, Places
  <2>3. Moves(d)
    BY <1>2
  <2>. QED  BY <1>1, <2>1, <2>2, <2>3 DEF Moves, ClientState
<1>5. TokensIssued' /\ Places'
  BY <1>3, <1>4 DEF TokensIssued, Places
<1>. QED  BY <1>1, <1>5 DEF Clients

\* It holds before anybody has asked.
LEMMA ClientsStart == ClientsInit => Clients
<1> SUFFICES ASSUME ClientsInit PROVE Clients
  OBVIOUS
<1>1. Committed(dev) /\ dev.fencingCounter = 0
  BY InitCommits DEF ClientsInit, Init, InitialState
<1>. QED
  BY <1>1 DEF ClientsInit, Clients, TokensIssued, Places, ClientState

\* The invariant of the composed system.
THEOREM ClientsInvariance == ClientsSpec => []Clients
<1>1. Clients /\ [ClientsNext]_clientVars => Clients'
  <2> SUFFICES ASSUME Clients, [ClientsNext]_clientVars PROVE Clients'
    OBVIOUS
  <2>1. CASE UNCHANGED clientVars
    BY <2>1 DEF clientVars, Clients, TokensIssued, Places
  <2>. QED  BY <2>1, StepKeepsClients
<1>. QED  BY <1>1, ClientsStart, PTL DEF ClientsSpec

\* The clients use the coordinator as its specification allows: whatever is
\* proved of the coordinator alone holds when operations, turns, timers,
\* crashes and drains drive it.
THEOREM ClientsAreCallers == ClientsSpec => Spec
<1>1. ClientsInit => Init
  BY DEF ClientsInit
<1>2. Clients /\ [ClientsNext]_clientVars => [Next]_dev
  BY StepIsCall DEF clientVars
<1>. QED  BY <1>1, <1>2, ClientsInvariance, PTL DEF ClientsSpec, Spec

-----------------------------------------------------------------------------
(* Following a lease through an operation. *)

\* Every claim is made for the story of its request.
Owned(s) ==
    /\ Leased(s) => s.lease.story = StoryOf[s.lease.req]
    /\ \A e \in s.queue : e.story = StoryOf[e.req]

\* From s to t, a token already issued stays with the request that held it.
Hands(s, t) ==
    /\ t.fencingCounter >= s.fencingCounter
    /\ Owned(s) => Owned(t)
    /\ \A k \in 1 .. s.fencingCounter :
          HoldsToken(t, k) => HoldsToken(s, k) /\ t.lease.req = s.lease.req

\* The lease runs, by the clock reading of the operation.
Runs(s, lag) == Leased(s) /\ ~Expired(s, lag)

\* Handing on composes: the steps of an operation do, so the operation does.
LEMMA HandsTransitive ==
    ASSUME NEW s, NEW t, NEW u, Core(s), Core(t), Core(u), Hands(s, t), Hands(t, u)
    PROVE  Hands(s, u)
<1>1. s.fencingCounter \in Nat /\ t.fencingCounter \in Nat /\ u.fencingCounter \in Nat
  BY CoreTokens
<1>2. \A k \in 1 .. s.fencingCounter : k \in 1 .. t.fencingCounter
  BY <1>1 DEF Hands
<1>. QED  BY <1>1, <1>2 DEF Hands

\* Claims are lost, or the deadline moves; nobody is granted anything.
LEMMA ThinnedHands ==
    ASSUME NEW s, NEW t, Core(s), Core(t), t.queue \subseteq s.queue,
           t.fencingCounter = s.fencingCounter,
           Leased(t) => /\ Leased(s)
                        /\ t.lease.req = s.lease.req
                        /\ t.lease.story = s.lease.story
                        /\ t.lease.fencing = s.lease.fencing
    PROVE  Hands(s, t)
<1>1. s.fencingCounter \in Nat
  BY CoreTokens
<1>. QED  BY <1>1 DEF Hands, Owned, HoldsToken

\* A grant gives the head of the queue a token nobody has seen.
LEMMA GrantHands ==
    ASSUME NEW s, Core(s), NEW lag \in Lag
    PROVE  /\ Committed(GrantNext(s, lag))
           /\ Hands(s, GrantNext(s, lag))
           /\ Leased(s) => GrantNext(s, lag) = s
<1> DEFINE t == GrantNext(s, lag)
<1>1. Committed(t)
  BY GrantKeepsCore DEF Committed
<1>2. s \in DeviceState /\ s.fencingCounter \in Nat
  BY CoreTokens DEF Core
<1>3. CASE Leased(s) \/ s.queue = {}
  <2>1. t = s
    BY <1>3 DEF GrantNext
  <2>. QED  BY <1>1, <2>1, ThinnedHands
<1>4. CASE ~Leased(s) /\ s.queue # {}
  <2> DEFINE e == QueueHead(s)
  <2>1. e \in s.queue
    BY <1>2, <1>4, QueueHeadFirst DEF DeviceState
  <2>2. /\ t.lease.req = e.req
        /\ t.lease.story = e.story
        /\ t.lease.fencing = s.fencingCounter + 1
        /\ t.queue \subseteq s.queue
        /\ t.fencingCounter = s.fencingCounter + 1
    <3> HIDE DEF e
    <3>. QED  BY <1>2, <1>4 DEF GrantNext, DeviceState, e
  <2> HIDE DEF e, t
  <2>3. Owned(s) => Owned(t)
    BY <2>1, <2>2 DEF Owned
  <2>4. \A k \in 1 .. s.fencingCounter : ~HoldsToken(t, k)
    BY <1>2, <2>2 DEF HoldsToken
  <2>5. Hands(s, t)
    BY <1>2, <2>2, <2>3, <2>4 DEF Hands
  <2>. QED  BY <1>1, <1>4, <2>5 DEF t
<1>. QED  BY <1>3, <1>4

\* Ending the lease gives nobody anything.
LEMMA EndLeaseHands ==
    ASSUME NEW s, Core(s), Leased(s), NEW status \in TerminalStatus
    PROVE  Core(EndLease(s, status)) /\ Hands(s, EndLease(s, status))
BY EndLeaseKeepsCore, ThinnedHands

\* A lease that still runs is not reaped.
LEMMA ReapHands ==
    ASSUME NEW s, Core(s), NEW lag \in Lag
    PROVE  /\ Core(ReapExpired(s, lag))
           /\ Hands(s, ReapExpired(s, lag))
           /\ Runs(s, lag) => ReapExpired(s, lag) = s
<1>1. "expired" \in TerminalStatus
  BY DEF TerminalStatus
<1>2. CASE Expired(s, lag)
  <2>1. ReapExpired(s, lag) = EndLease(s, "expired") /\ Leased(s)
    BY <1>2 DEF ReapExpired, Expired
  <2>. QED  BY <1>1, <1>2, <2>1, EndLeaseHands DEF Runs
<1>3. CASE ~Expired(s, lag)
  <2>1. ReapExpired(s, lag) = s
    BY <1>3 DEF ReapExpired
  <2>. QED  BY <2>1, ThinnedHands
<1>. QED  BY <1>2, <1>3

\* Reading the record back hands nothing on.
LEMMA NormalizedHands ==
    ASSUME NEW s, Committed(s)
    PROVE  /\ Committed(NormalizeState(s))
           /\ Hands(s, NormalizeState(s))
           /\ NormalizeState(s).lease = s.lease
BY Normalized, NormalizedConserves, ThinnedHands DEF Committed, SameClaims, Leased

\* A recovery leaves a lease that still runs alone.
LEMMA RecoverHands ==
    ASSUME NEW s, Core(s), NEW lag \in Lag
    PROVE  /\ Committed(GrantNext(ReapExpired(s, lag), lag))
           /\ Hands(s, GrantNext(ReapExpired(s, lag), lag))
           /\ Runs(s, lag) => GrantNext(ReapExpired(s, lag), lag) = s
<1> DEFINE t == ReapExpired(s, lag)
           u == GrantNext(t, lag)
<1>1. Core(t) /\ Hands(s, t) /\ (Runs(s, lag) => t = s)
  BY ReapHands
<1> HIDE DEF t
<1>2. Committed(u) /\ Hands(t, u) /\ (Leased(t) => u = t)
  BY <1>1, GrantHands
<1> HIDE DEF u
<1>3. Hands(s, u)
  BY <1>1, <1>2, HandsTransitive DEF Committed
<1>4. Runs(s, lag) => u = s
  BY <1>1, <1>2 DEF Runs
<1>. QED  BY <1>2, <1>3, <1>4 DEF t, u

\* Only a claim of the same story is evicted.
LEMMA EvictHands ==
    ASSUME NEW s, Core(s), NEW r \in Request, NEW story \in Story, ~Known(s, r)
    PROVE  LET t == EvictByStoryId(s, story, r)
           IN  /\ Hands(s, t)
               /\ Leased(s) /\ s.lease.story # story => t.lease = s.lease
<1> DEFINE u == EvictLease(s, story, r)
           E == {e \in u.queue : e.story = story /\ e.req # r}
           t == CancelQueued(u, E)
<1>1. t = EvictByStoryId(s, story, r)
  BY DEF EvictByStoryId
<1>2. /\ Core(u)
      /\ u.queue = s.queue
      /\ u.fencingCounter = s.fencingCounter
      /\ Leased(u) => u.lease = s.lease
      /\ Leased(s) /\ s.lease.story # story => u.lease = s.lease
  <2>1. "released" \in TerminalStatus
    BY DEF TerminalStatus
  <2>. QED  BY <2>1, EndLeaseKeepsCore DEF EvictLease
<1> HIDE DEF u
<1>3. E \in SUBSET u.queue
  OBVIOUS
<1>4. E = {} \/ \E e \in E : E = {e}
  BY <1>2 DEF Core, OneClaim
<1> HIDE DEF E
<1>5. /\ Core(t)
      /\ t.queue \subseteq s.queue
      /\ t.lease = u.lease
      /\ t.fencingCounter = s.fencingCounter
  BY <1>2, <1>3, <1>4, CancelQueuedKeepsCore
<1> HIDE DEF t
<1>6. Hands(s, t)
  BY <1>2, <1>5, ThinnedHands DEF Leased
<1>. QED  BY <1>1, <1>2, <1>5, <1>6

\* A new entry is of the story its request is made for.
LEMMA EnqueueHands ==
    ASSUME NEW s, Core(s), NEW r \in Request, NEW ttl \in Ttl
    PROVE  Hands(s, Enqueue(s, r, StoryOf[r], ttl))
<1> DEFINE t == Enqueue(s, r, StoryOf[r], ttl)
<1>1. s \in DeviceState /\ s.fencingCounter \in Nat
  BY CoreTokens DEF Core
<1>2. /\ t.lease = s.lease
      /\ t.fencingCounter = s.fencingCounter
      /\ \A e \in t.queue : e \in s.queue \/ (e.req = r /\ e.story = StoryOf[r])
  BY <1>1 DEF Enqueue, DeviceState
<1> HIDE DEF t
<1>3. Owned(s) => Owned(t)
  BY <1>2 DEF Owned, Leased
<1>4. Hands(s, t)
  BY <1>1, <1>2, <1>3 DEF Hands, HoldsToken, Leased
<1>. QED  BY <1>4 DEF t

\* An acquire takes a running lease only from its own story.
LEMMA AcquireHands ==
    ASSUME NEW s, Core(s), NEW r \in Request, NEW ttl \in Ttl, NEW lag \in Lag
    PROVE  LET t == AfterAcquire(s, r, StoryOf[r], ttl, lag)
           IN  /\ Hands(s, t)
               /\ Runs(s, lag) /\ s.lease.story # StoryOf[r] => t.lease = s.lease
<1> DEFINE t == GrantNext(ReapExpired(s, lag), lag)
           u == EvictByStoryId(t, StoryOf[r], r)
           v == Enqueue(u, r, StoryOf[r], ttl)
           w == GrantNext(v, lag)
<1>0. StoryOf[r] \in Story
  BY StoryAndTtl
<1>1. Committed(t) /\ Hands(s, t) /\ (Runs(s, lag) => t = s)
  BY RecoverHands
<1>2. AfterAcquire(s, r, StoryOf[r], ttl, lag) = IF Known(t, r) THEN t ELSE w
  BY DEF AfterAcquire
<1> HIDE DEF t
<1>3. CASE Known(t, r)
  BY <1>1, <1>2, <1>3
<1>4. CASE ~Known(t, r)
  <2>1. /\ Hands(t, u)
        /\ Leased(t) /\ t.lease.story # StoryOf[r] => u.lease = t.lease
    BY <1>0, <1>1, <1>4, EvictHands DEF Committed
  <2>2. /\ Core(u)
        /\ ~Known(u, r)
        /\ \A e \in u.queue : e.story # StoryOf[r]
        /\ Leased(u) => u.lease.story # StoryOf[r]
    BY <1>0, <1>1, <1>4, EvictKeepsCore DEF Committed
  <2> HIDE DEF u
  <2>3. Core(v) /\ v.lease = u.lease
    BY <1>0, <2>2, EnqueueKeepsCore
  <2>4. Hands(u, v)
    BY <2>2, EnqueueHands
  <2> HIDE DEF v
  <2>5. Committed(w) /\ Hands(v, w) /\ (Leased(v) => w = v)
    BY <2>3, GrantHands
  <2> HIDE DEF w
  <2>6. Hands(s, u)
    BY <1>1, <2>1, <2>2, HandsTransitive DEF Committed
  <2>7. Hands(s, v)
    BY <2>2, <2>3, <2>4, <2>6, HandsTransitive
  <2>8. Hands(s, w)
    BY <2>3, <2>5, <2>7, HandsTransitive DEF Committed
  <2>9. Runs(s, lag) /\ s.lease.story # StoryOf[r] => w.lease = s.lease
    BY <1>1, <2>1, <2>3, <2>5 DEF Runs, Leased
  <2>. QED  BY <1>2, <1>4, <2>8, <2>9
<1>. QED  BY <1>3, <1>4

\* A heartbeat, right or wrong, takes a running lease from nobody.
LEMMA HeartbeatHands ==
    ASSUME NEW s, Core(s), NEW k, NEW ttl \in Ttl, NEW lag \in Lag
    PROVE  LET t == AfterHeartbeat(s, k, ttl, lag)
           IN  /\ Hands(s, t)
               /\ Runs(s, lag) => Leased(t) /\ t.lease.fencing = s.lease.fencing
<1> DEFINE t == GrantNext(ReapExpired(s, lag), lag)
           l == [t.lease EXCEPT !.left = ttl - lag, !.ttl = ttl]
           u == [t EXCEPT !.lease = l]
<1>1. Committed(t) /\ Hands(s, t) /\ (Runs(s, lag) => t = s)
  BY RecoverHands
<1>2. AfterHeartbeat(s, k, ttl, lag) = IF HoldsToken(t, k) THEN u ELSE t
  BY DEF AfterHeartbeat
<1> HIDE DEF t
<1>3. CASE HoldsToken(t, k)
  <2>1. Leased(t) /\ t.lease \in Lease
    BY <1>1, <1>3, CoreTokens DEF Committed, HoldsToken
  <2>2. ttl - lag \in Int
    <3>1. ttl \in Nat /\ lag \in Nat
      BY DeviceRuntimeAssumption DEF Lag
    <3>. QED  BY <3>1
  <2>3. /\ l \in Lease
        /\ l.req = t.lease.req /\ l.story = t.lease.story
        /\ l.seq = t.lease.seq /\ l.fencing = t.lease.fencing
    BY <2>1, <2>2 DEF Lease
  <2> HIDE DEF l
  <2>4. /\ Core(u)
        /\ u.lease = l
        /\ u.queue = t.queue
        /\ u.fencingCounter = t.fencingCounter
    BY <1>1, <2>1, <2>3, DeadlineKeepsCore DEF Committed
  <2> HIDE DEF u
  <2>5. Leased(u)
    BY <2>3, <2>4, DeviceRuntimeAssumption DEF Leased
  <2>6. Hands(t, u)
    BY <1>1, <2>1, <2>3, <2>4, ThinnedHands DEF Committed
  <2>7. Hands(s, u)
    BY <1>1, <2>4, <2>6, HandsTransitive DEF Committed
  <2>. QED  BY <1>1, <1>2, <1>3, <2>3, <2>4, <2>5, <2>7
<1>4. CASE ~HoldsToken(t, k)
  BY <1>1, <1>2, <1>4 DEF Runs
<1>. QED  BY <1>3, <1>4

\* A release takes a running lease only with its token.
LEMMA ReleaseHands ==
    ASSUME NEW s, Core(s), NEW k, NEW lag \in Lag
    PROVE  LET t == AfterRelease(s, k, lag)
           IN  /\ Hands(s, t)
               /\ Runs(s, lag) /\ s.lease.fencing # k => t = s
<1> DEFINE t == ReapExpired(s, lag)
           u == IF HoldsToken(t, k) THEN EndLease(t, "released") ELSE t
           w == GrantNext(u, lag)
<1>1. Core(t) /\ Hands(s, t) /\ (Runs(s, lag) => t = s)
  BY ReapHands
<1>2. AfterRelease(s, k, lag) = w
  BY DEF AfterRelease
<1> HIDE DEF t
<1>3. Core(u) /\ Hands(t, u) /\ (~HoldsToken(t, k) => u = t)
  <2>1. "released" \in TerminalStatus
    BY DEF TerminalStatus
  <2>2. CASE HoldsToken(t, k)
    BY <1>1, <2>1, <2>2, EndLeaseHands DEF HoldsToken
  <2>3. CASE ~HoldsToken(t, k)
    BY <1>1, <2>3, ThinnedHands
  <2>. QED  BY <2>2, <2>3
<1> HIDE DEF u
<1>4. Committed(w) /\ Hands(u, w) /\ (Leased(u) => w = u)
  BY <1>3, GrantHands
<1> HIDE DEF w
<1>5. Hands(s, u)
  BY <1>1, <1>3, HandsTransitive
<1>6. Hands(s, w)
  BY <1>3, <1>4, <1>5, HandsTransitive DEF Committed
<1>7. Runs(s, lag) /\ s.lease.fencing # k => w = s
  BY <1>1, <1>3, <1>4 DEF Runs, HoldsToken
<1>. QED  BY <1>2, <1>6, <1>7

\* A cancellation takes a running lease only with its token.
LEMMA CancelHands ==
    ASSUME NEW s, Core(s), NEW r \in Request, NEW k, NEW lag \in Lag
    PROVE  LET t == AfterCancel(s, r, k, lag)
           IN  /\ Hands(s, t)
               /\ Runs(s, lag) /\ (s.lease.req # r \/ s.lease.fencing # k)
                     => t.lease = s.lease
<1> DEFINE t == ReapExpired(s, lag)
           E == {e \in t.queue : e.req = r}
           u == CancelQueued(t, E)
           w == AfterCancel(s, r, k, lag)
<1>1. Core(t) /\ Hands(s, t) /\ (Runs(s, lag) => t = s)
  BY ReapHands
<1>2. w = IF Queued(t, r) THEN GrantNext(u, lag)
          ELSE IF HoldsRequest(t, r)
          THEN IF HoldsToken(t, k) THEN GrantNext(EndLease(t, "cancelled"), lag) ELSE t
          ELSE GrantNext(t, lag)
  BY DEF AfterCancel
<1> HIDE DEF t, w
<1>3. CASE Queued(t, r)
  <2>1. E \in SUBSET t.queue
    OBVIOUS
  <2>2. E = {} \/ \E e \in E : E = {e}
    BY <1>1 DEF Core, OnePlace
  <2> HIDE DEF E
  <2>3. /\ Core(u) /\ u.lease = t.lease
        /\ u.fencingCounter = t.fencingCounter
        /\ u.queue \subseteq t.queue
    BY <1>1, <2>1, <2>2, CancelQueuedKeepsCore
  <2> HIDE DEF u
  <2>4. Hands(t, u)
    BY <1>1, <2>3, ThinnedHands DEF Leased
  <2>5. Committed(w) /\ Hands(u, w) /\ (Leased(u) => w = u)
    BY <1>2, <1>3, <2>3, GrantHands
  <2>6. Hands(s, u)
    BY <1>1, <2>3, <2>4, HandsTransitive
  <2>7. Hands(s, w)
    BY <2>3, <2>5, <2>6, HandsTransitive DEF Committed
  <2>8. Runs(s, lag) => w.lease = s.lease
    BY <1>1, <2>3, <2>5 DEF Runs, Leased
  <2>. QED  BY <2>7, <2>8 DEF w
<1>4. CASE ~Queued(t, r) /\ HoldsRequest(t, r) /\ HoldsToken(t, k)
  <2> DEFINE x == EndLease(t, "cancelled")
  <2>1. "cancelled" \in TerminalStatus /\ Leased(t)
    BY <1>4 DEF TerminalStatus, HoldsToken
  <2>2. Core(x) /\ Hands(t, x)
    BY <1>1, <2>1, EndLeaseHands
  <2>3. w = GrantNext(x, lag)
    BY <1>2, <1>4
  <2> HIDE DEF x
  <2>4. Committed(w) /\ Hands(x, w)
    BY <2>2, <2>3, GrantHands
  <2>5. Hands(s, x)
    BY <1>1, <2>2, HandsTransitive
  <2>6. Hands(s, w)
    BY <2>2, <2>4, <2>5, HandsTransitive DEF Committed
  <2>7. ~(Runs(s, lag) /\ (s.lease.req # r \/ s.lease.fencing # k))
    BY <1>1, <1>4 DEF HoldsRequest, HoldsToken
  <2>. QED  BY <2>6, <2>7 DEF w
<1>5. CASE ~Queued(t, r) /\ HoldsRequest(t, r) /\ ~HoldsToken(t, k)
  <2>1. w = t
    BY <1>2, <1>5
  <2>. QED  BY <1>1, <2>1 DEF w
<1>6. CASE ~Queued(t, r) /\ ~HoldsRequest(t, r)
  <2>1. Committed(w) /\ Hands(t, w) /\ (Leased(t) => w = t)
    BY <1>1, <1>2, <1>6, GrantHands
  <2>2. Hands(s, w)
    BY <1>1, <2>1, HandsTransitive DEF Committed
  <2>. QED  BY <1>1, <2>1, <2>2 DEF w, Runs
<1>. QED  BY <1>3, <1>4, <1>5, <1>6

-----------------------------------------------------------------------------
(* The same, for the calls the clients make. *)

\* What an operation does to the normalised record it does to the stored one.
LEMMA CommittedCore ==
    ASSUME NEW s, NEW t, NEW u, Committed(s), Committed(t), Committed(u),
           Hands(s, t), Hands(t, u)
    PROVE  Hands(s, u)
BY HandsTransitive DEF Committed

\* Acquire, as a client calls it.
LEMMA AcquireCall ==
    ASSUME Committed(dev), NEW r \in Request, NEW lag \in Lag,
           Acquire(r, StoryOf[r], LeaseTtl, lag)
    PROVE  /\ Hands(dev, dev')
           /\ Runs(dev, lag) /\ dev.lease.story # StoryOf[r] => dev'.lease = dev.lease
<1> DEFINE n == NormalizeState(dev)
<1>1. Committed(n) /\ Hands(dev, n) /\ n.lease = dev.lease
  BY NormalizedHands
<1>2. dev' = AfterAcquire(n, r, StoryOf[r], LeaseTtl, lag)
  BY DEF Acquire
<1> HIDE DEF n
<1>3. Committed(dev')
  BY <1>1, <1>2, StoryAndTtl, AcquireCommits DEF Committed
<1>4. /\ Hands(n, dev')
      /\ Runs(n, lag) /\ n.lease.story # StoryOf[r] => dev'.lease = n.lease
  BY <1>1, <1>2, StoryAndTtl, AcquireHands DEF Committed
<1>5. Hands(dev, dev')
  BY <1>1, <1>3, <1>4, CommittedCore
<1>. QED  BY <1>1, <1>4, <1>5 DEF Runs, Expired, Leased

\* Heartbeat, as a client calls it.
LEMMA HeartbeatCall ==
    ASSUME Committed(dev), NEW k, NEW lag \in Lag, Heartbeat(k, LeaseTtl, lag)
    PROVE  /\ Hands(dev, dev')
           /\ Runs(dev, lag) => Leased(dev') /\ dev'.lease.fencing = dev.lease.fencing
<1> DEFINE n == NormalizeState(dev)
<1>1. Committed(n) /\ Hands(dev, n) /\ n.lease = dev.lease
  BY NormalizedHands
<1>2. dev' = AfterHeartbeat(n, k, LeaseTtl, lag)
  BY DEF Heartbeat
<1> HIDE DEF n
<1>3. Committed(dev')
  BY <1>1, <1>2, StoryAndTtl, HeartbeatCommits DEF Committed
<1>4. /\ Hands(n, dev')
      /\ Runs(n, lag) => Leased(dev') /\ dev'.lease.fencing = n.lease.fencing
  BY <1>1, <1>2, StoryAndTtl, HeartbeatHands DEF Committed
<1>5. Hands(dev, dev')
  BY <1>1, <1>3, <1>4, CommittedCore
<1>. QED  BY <1>1, <1>4, <1>5 DEF Runs, Expired, Leased

\* Release, as a client calls it.
LEMMA ReleaseCall ==
    ASSUME Committed(dev), NEW k, NEW lag \in Lag, Release(k, lag)
    PROVE  /\ Hands(dev, dev')
           /\ Runs(dev, lag) /\ dev.lease.fencing # k => dev'.lease = dev.lease
<1> DEFINE n == NormalizeState(dev)
<1>1. Committed(n) /\ Hands(dev, n) /\ n.lease = dev.lease
  BY NormalizedHands
<1>2. dev' = AfterRelease(n, k, lag)
  BY DEF Release
<1> HIDE DEF n
<1>3. Committed(dev')
  BY <1>1, <1>2, ReleaseCommits DEF Committed
<1>4. /\ Hands(n, dev')
      /\ Runs(n, lag) /\ n.lease.fencing # k => dev' = n
  BY <1>1, <1>2, ReleaseHands DEF Committed
<1>5. Hands(dev, dev')
  BY <1>1, <1>3, <1>4, CommittedCore
<1>. QED  BY <1>1, <1>4, <1>5 DEF Runs, Expired, Leased

\* Cancel, as a client calls it.
LEMMA CancelCall ==
    ASSUME Committed(dev), NEW r \in Request, NEW k, NEW lag \in Lag, Cancel(r, k, lag)
    PROVE  /\ Hands(dev, dev')
           /\ Runs(dev, lag) /\ dev.lease.req # r => dev'.lease = dev.lease
<1> DEFINE n == NormalizeState(dev)
<1>1. Committed(n) /\ Hands(dev, n) /\ n.lease = dev.lease
  BY NormalizedHands
<1>2. dev' = AfterCancel(n, r, k, lag)
  BY DEF Cancel
<1> HIDE DEF n
<1>3. Committed(dev')
  BY <1>1, <1>2, CancelCommits DEF Committed
<1>4. /\ Hands(n, dev')
      /\ Runs(n, lag) /\ n.lease.req # r => dev'.lease = n.lease
  BY <1>1, <1>2, CancelHands DEF Committed
<1>5. Hands(dev, dev')
  BY <1>1, <1>3, <1>4, CommittedCore
<1>. QED  BY <1>1, <1>4, <1>5 DEF Runs, Expired, Leased

\* The recovery, as a snapshot calls it.
LEMMA RecoverCall ==
    ASSUME Committed(dev), NEW lag \in Lag, RecoverExpired(lag)
    PROVE  /\ Hands(dev, dev')
           /\ Runs(dev, lag) => dev'.lease = dev.lease
<1> DEFINE n == NormalizeState(dev)
<1>1. Committed(n) /\ Hands(dev, n) /\ n.lease = dev.lease
  BY NormalizedHands
<1>2. dev' = GrantNext(ReapExpired(n, lag), lag)
  BY DEF RecoverExpired, AfterRecover
<1> HIDE DEF n
<1>3. Committed(dev') /\ Hands(n, dev') /\ (Runs(n, lag) => dev' = n)
  BY <1>1, <1>2, RecoverHands DEF Committed
<1>4. Hands(dev, dev')
  BY <1>1, <1>3, CommittedCore
<1>. QED  BY <1>1, <1>3, <1>4 DEF Runs, Expired, Leased

\* The passing of time takes no lease away.
LEMMA TickCall ==
    ASSUME Committed(dev), Tick
    PROVE  /\ Hands(dev, dev')
           /\ Leased(dev')
           /\ dev'.lease.fencing = dev.lease.fencing
<1> DEFINE l == [dev.lease EXCEPT !.left = dev.lease.left - 1]
<1>1. dev' = [dev EXCEPT !.lease = l] /\ Leased(dev)
  BY DEF Tick
<1>2. dev.lease \in Lease
  BY <1>1, CoreTokens DEF Committed
<1>3. /\ l \in Lease
      /\ l.req = dev.lease.req /\ l.story = dev.lease.story
      /\ l.seq = dev.lease.seq /\ l.fencing = dev.lease.fencing
  BY <1>2 DEF Lease
<1> HIDE DEF l
<1>4. /\ Core(dev')
      /\ dev'.lease = l
      /\ dev'.queue = dev.queue
      /\ dev'.fencingCounter = dev.fencingCounter
  BY <1>1, <1>3, DeadlineKeepsCore DEF Committed
<1>5. Leased(dev')
  BY <1>3, <1>4, DeviceRuntimeAssumption DEF Leased
<1>6. Hands(dev, dev')
  BY <1>1, <1>3, <1>4, ThinnedHands DEF Committed
<1>. QED  BY <1>3, <1>4, <1>5, <1>6

\* Nor does a step that leaves the record alone.
LEMMA StillHands == ASSUME Committed(dev), UNCHANGED dev PROVE Hands(dev, dev')
<1>1. dev' = dev
  OBVIOUS
<1>. QED  BY <1>1, ThinnedHands DEF Committed

\* A call of a client hands tokens on as it should.
LEMMA ClientHands ==
    ASSUME Clients, NEW c \in Request, NEW lag \in Lag, ClientStep(c, lag)
    PROVE  Hands(dev, dev')
<1>0. Committed(dev)
  BY DEF Clients
<1>1. CASE Ask(c, lag)
  BY <1>0, <1>1, AcquireCall DEF Ask
<1>2. CASE Redeliver(c, lag)
  BY <1>0, <1>2, AcquireCall DEF Redeliver
<1>3. CASE CloseStory(c, lag)
  BY <1>0, <1>3, CancelCall DEF CloseStory
<1>4. CASE Withdraw(c, lag)
  BY <1>0, <1>4, CancelCall DEF Withdraw
<1>5. CASE Persist(c) \/ Finish(c) \/ BlockUnasked(c)
  BY <1>0, <1>5, StillHands DEF Persist, Finish, BlockUnasked
<1>6. CASE Beat(c, lag)
  BY <1>0, <1>6, HeartbeatCall DEF Beat
<1>7. CASE GiveBack(c, lag)
  BY <1>0, <1>7, ReleaseCall DEF GiveBack
<1>. QED  BY <1>1, <1>2, <1>3, <1>4, <1>5, <1>6, <1>7 DEF ClientStep

\* A step of the clients hands tokens on as it should.
LEMMA StepHands ==
    ASSUME Clients, ClientsNext
    PROVE  Hands(dev, dev')
<1>0. Committed(dev)
  BY DEF Clients
<1>1. ASSUME NEW s \in Story, DrainNothing(s)
      PROVE  Hands(dev, dev')
  BY <1>0, <1>1, StillHands DEF DrainNothing
<1>2. ASSUME NEW lag \in Lag, Poll(lag)
      PROVE  Hands(dev, dev')
  BY <1>0, <1>2, RecoverCall DEF Poll
<1>3. ASSUME NEW C, NEW W, Crash(C, W)
      PROVE  Hands(dev, dev')
  BY <1>0, <1>3, StillHands DEF Crash
<1>4. CASE Sweep
  BY <1>0, <1>4, StillHands DEF Sweep
<1>5. CASE ClockTick
  BY <1>0, <1>5, TickCall, StillHands DEF ClockTick
<1>. QED  BY <1>1, <1>2, <1>3, <1>4, <1>5, ClientHands DEF ClientsNext

-----------------------------------------------------------------------------
(* Nobody takes the lease of a client that is operating. *)

\* The token a client was granted is, while it holds, its own.
TokensOwned ==
    \A c \in Request : tok[c] # 0 /\ HoldsToken(dev, tok[c]) => dev.lease.req = c

OwnedClients == Clients /\ Owned(dev) /\ TokensOwned

\* The ownership of tokens and claims is inductive.
LEMMA StepKeepsOwned ==
    ASSUME OwnedClients, ClientsNext
    PROVE  OwnedClients'
<1>1. Clients /\ Owned(dev) /\ TokensOwned
  BY DEF OwnedClients
<1>2. Clients' /\ Hands(dev, dev')
  BY <1>1, StepKeepsClients, StepHands
<1>3. Owned(dev')
  BY <1>1, <1>2 DEF Hands
<1>4. ASSUME NEW c \in Request, tok'[c] # 0, HoldsToken(dev', tok'[c])
      PROVE  dev'.lease.req = c
  <2>1. Moves(c)
    BY <1>1, StepMoves
  <2>2. CASE tok'[c] = tok[c]
    <3>1. tok[c] \in Nat /\ tok[c] <= dev.fencingCounter /\ dev.fencingCounter \in Nat
      BY <1>1, CoreTokens DEF Clients, TokensIssued, Committed
    <3>2. tok[c] \in 1 .. dev.fencingCounter
      BY <1>4, <2>2, <3>1
    <3>. QED  BY <1>1, <1>2, <1>4, <2>2, <3>2 DEF Hands, TokensOwned
  <2>3. CASE HoldsRequest(dev', c)
    BY <2>3 DEF HoldsRequest
  <2>. QED  BY <2>1, <2>2, <2>3 DEF Moves
<1>5. TokensOwned'
  BY <1>4 DEF TokensOwned
<1>6. Owned(dev)'
  BY <1>3 DEF Owned
<1>. QED  BY <1>2, <1>5, <1>6 DEF OwnedClients

\* Every token a client holds, and every claim on the device, is its own.
THEOREM OwnedInvariance == ClientsSpec => []OwnedClients
<1>1. ClientsInit => OwnedClients
  <2> SUFFICES ASSUME ClientsInit PROVE OwnedClients
    OBVIOUS
  <2>1. dev.lease = None /\ dev.queue = {}
    BY DEF ClientsInit, Init, InitialState
  <2>. QED
    BY <2>1, ClientsStart DEF OwnedClients, Owned, TokensOwned, HoldsToken, Leased
<1>2. OwnedClients /\ [ClientsNext]_clientVars => OwnedClients'
  <2> SUFFICES ASSUME OwnedClients, [ClientsNext]_clientVars PROVE OwnedClients'
    OBVIOUS
  <2>1. CASE UNCHANGED clientVars
    BY <2>1 DEF clientVars, OwnedClients, Clients, TokensIssued, Places, Owned, TokensOwned
  <2>. QED  BY <2>1, StepKeepsOwned
<1>. QED  BY <1>1, <1>2, PTL DEF ClientsSpec

\* No two requests are made for one story.
OwnStories == \A c, d \in Request : StoryOf[c] = StoryOf[d] => c = d

\* A step takes the lease of an operating client only when it has run out.
LEMMA LostWhenDue ==
    ASSUME OwnStories, OwnedClients, ClientsNext, NEW c \in Request,
           Operating(c), HoldsToken(dev, tok[c]), ~HoldsToken(dev', tok[c])
    PROVE  dev.lease.left <= 0
<1>1. /\ Committed(dev) /\ TokensOwned /\ Owned(dev)
      /\ Leased(dev) /\ dev.lease.fencing = tok[c]
      /\ tok[c] # 0
  BY DEF OwnedClients, Clients, HoldsToken, Operating, Places
<1>2. dev.lease.req = c /\ dev.lease.story = StoryOf[c]
  BY <1>1 DEF TokensOwned, Owned
<1>3. dev.lease.left \in Int
  BY <1>1, CoreTokens DEF Committed, Lease
<1> SUFFICES ASSUME ~(dev.lease.left <= 0) PROVE FALSE
  OBVIOUS
<1>4. \A lag \in Lag : Runs(dev, lag)
  <2>1. \A lag \in Lag : lag \in Nat
    BY DeviceRuntimeAssumption DEF Lag
  <2>. QED  BY <1>1, <1>3, <2>1 DEF Runs, Expired
<1>5. ~(dev'.lease = dev.lease) /\ ~(Leased(dev') /\ dev'.lease.fencing = dev.lease.fencing)
  BY <1>1 DEF HoldsToken, Leased
<1>6. dev' # dev
  BY <1>5
<1>7. ASSUME NEW d \in Request, NEW lag \in Lag, ClientStep(d, lag)
      PROVE  FALSE
  <2>1. ASSUME d # c, Acquire(d, StoryOf[d], LeaseTtl, lag)
        PROVE  FALSE
    <3>1. dev.lease.story # StoryOf[d]
      BY <1>2, <2>1 DEF OwnStories
    <3>. QED  BY <1>1, <1>4, <1>5, <2>1, <3>1, AcquireCall
  <2>2. ASSUME d # c, NEW k, Cancel(d, k, lag)
        PROVE  FALSE
    BY <1>1, <1>2, <1>4, <1>5, <2>2, CancelCall
  <2>3. CASE Ask(d, lag)
    BY <2>1, <2>3 DEF Ask, Operating
  <2>4. CASE Redeliver(d, lag)
    BY <2>1, <2>4 DEF Redeliver, Operating
  <2>5. CASE CloseStory(d, lag)
    BY <2>2, <2>5 DEF CloseStory, Operating
  <2>6. CASE Withdraw(d, lag)
    BY <2>2, <2>6 DEF Withdraw, Operating
  <2>7. CASE Persist(d) \/ Finish(d) \/ BlockUnasked(d)
    BY <1>6, <2>7 DEF Persist, Finish, BlockUnasked
  <2>8. CASE Beat(d, lag)
    BY <1>1, <1>4, <1>5, <2>8, HeartbeatCall DEF Beat
  <2>9. CASE GiveBack(d, lag)
    <3>1. d # c
      BY <2>9 DEF GiveBack, Operating
    <3>2. tok[d] # 0
      BY <2>9 DEF GiveBack, OwnedClients, Clients, Places
    <3>3. dev.lease.fencing # tok[d]
      BY <1>1, <1>2, <3>1, <3>2 DEF TokensOwned, HoldsToken
    <3>. QED  BY <1>1, <1>4, <1>5, <2>9, <3>3, ReleaseCall DEF GiveBack
  <2>. QED
    BY <1>7, <2>3, <2>4, <2>5, <2>6, <2>7, <2>8, <2>9 DEF ClientStep
<1>8. ASSUME NEW s \in Story, DrainNothing(s)
      PROVE  FALSE
  BY <1>6, <1>8 DEF DrainNothing
<1>9. ASSUME NEW lag \in Lag, Poll(lag)
      PROVE  FALSE
  BY <1>1, <1>4, <1>5, <1>9, RecoverCall DEF Poll
<1>10. ASSUME NEW C, NEW W, Crash(C, W)
       PROVE  FALSE
  BY <1>6, <1>10 DEF Crash
<1>11. ~Sweep
  BY <1>6 DEF Sweep
<1>12. ~ClockTick
  BY <1>1, <1>5, <1>6, TickCall DEF ClockTick
<1>. QED  BY <1>7, <1>8, <1>9, <1>10, <1>11, <1>12 DEF ClientsNext

\* When no two requests are made for one story, the lease of a client that is
\* operating the device ends only by running out: no release with an older
\* token, no cancellation without one, no restart, drain, sweep or poll takes
\* it, however the clients interleave and however often gateways die.
THEOREM OperatorsAreNotRobbed ==
    ASSUME OwnStories
    PROVE  ClientsSpec => LostOnlyByExpiry
<1> DEFINE Step == \A c \in Request :
              Operating(c) /\ HoldsToken(dev, tok[c]) /\ ~HoldsToken(dev', tok[c])
                 => dev.lease.left <= 0
<1>1. OwnedClients /\ [ClientsNext]_clientVars => [Step]_clientVars
  BY LostWhenDue
<1>. QED  BY <1>1, OwnedInvariance, PTL DEF ClientsSpec, LostOnlyByExpiry

-----------------------------------------------------------------------------
(* A stored message keeps its place. *)

\* Known to the coordinator is what is in line or has left it.
LEMMA KnownIsInLine ==
    ASSUME NEW s, NEW r
    PROVE  Known(s, r) <=> r \in Gone(s) \/ \E x \in Claims(s) : x.req = r
<1>1. Ended(s, r) <=> r \in Gone(s)
  BY DEF Ended, Gone
<1>2. \A e : Claim(e).req = e.req
  BY DEF Claim
<1>3. (\E x \in Claims(s) : x.req = r) <=> HoldsRequest(s, r) \/ Queued(s, r)
  BY <1>2 DEF Claims, HolderClaim, HoldsRequest, Queued
<1>. QED  BY <1>1, <1>3 DEF Known

\* No operation makes the coordinator forget a request.
LEMMA NobodyIsForgotten ==
    ASSUME Remembering, Committed(dev), Next, NEW c, Known(dev, c)
    PROVE  Known(dev', c)
<1>1. c \in Gone(dev) \/ \E x \in Claims(dev) : x.req = c
  BY KnownIsInLine
<1>2. c \in Gone(dev') \/ \E x \in Claims(dev') : x.req = c
  <2>1. CASE Settles(dev, dev')
    BY <1>1, <2>1 DEF Settles, Serves
  <2>2. ASSUME NEW r \in Request, Joined(dev, dev', r)
        PROVE  c \in Gone(dev') \/ \E x \in Claims(dev') : x.req = c
    BY <1>1, <2>2 DEF Joined
  <2>. QED  BY <2>1, <2>2, NextIsStep
<1>. QED  BY <1>2, KnownIsInLine

\* The request of a message that is stored, or about to be, is known.
MessagesKnown ==
    \A c \in Request : pc[c] \in {"busy", "waiting"} => Known(dev, c)

\* A message is stored only for a request that was just told to wait.
LEMMA StoredWhenQueued ==
    ASSUME Clients, ClientsNext, NEW d \in Request, pc'[d] \in {"busy", "waiting"}
    PROVE  pc[d] \in {"busy", "waiting"} \/ Queued(dev', d)
<1>0. pc \in [Request -> ClientState]
  BY DEF Clients, Places
<1>1. ASSUME NEW c \in Request, NEW lag \in Lag, ClientStep(c, lag)
      PROVE  pc[d] \in {"busy", "waiting"} \/ Queued(dev', d)
  <2>1. CASE Ask(c, lag)
    <3>1. CASE c = d /\ AcquireStatus(dev', c, StoryOf[c]) = "queued"
      BY <3>1 DEF AcquireStatus
    <3>. QED  BY <1>0, <2>1, <3>1 DEF Ask, StartUnderLease, Goto
  <2>2. CASE Redeliver(c, lag)
    BY <1>0, <2>2 DEF Redeliver, StartUnderLease, Goto
  <2>3. CASE CloseStory(c, lag) \/ Withdraw(c, lag) \/ Persist(c) \/ BlockUnasked(c)
    BY <1>0, <2>3 DEF CloseStory, Withdraw, Persist, BlockUnasked, Goto
  <2>4. CASE Finish(c) \/ Beat(c, lag) \/ GiveBack(c, lag)
    BY <1>0, <2>4 DEF Finish, Beat, GiveBack, Goto
  <2>. QED  BY <1>1, <2>1, <2>2, <2>3, <2>4 DEF ClientStep
<1>2. ASSUME NEW C, NEW W, Crash(C, W)
      PROVE  pc[d] \in {"busy", "waiting"}
  BY <1>2 DEF Crash
<1>. QED  BY <1>1, <1>2 DEF ClientsNext, DrainNothing, Poll, Sweep, ClockTick

\* The coordinator knows the request of every stored message, if its history
\* has room for every request: a drain that asks again continues that request,
\* whoever died, closed or swept in between, and never puts a new one at the
\* end of the line.
THEOREM MessagesKeepTheirPlace ==
    ASSUME Remembering
    PROVE  ClientsSpec => []StoredMessageIsKnown
<1>1. ClientsInit => MessagesKnown
  BY DEF ClientsInit, MessagesKnown
<1>2. Clients /\ MessagesKnown /\ [ClientsNext]_clientVars => MessagesKnown'
  <2> SUFFICES ASSUME Clients, MessagesKnown, [ClientsNext]_clientVars,
                      NEW d \in Request, pc'[d] \in {"busy", "waiting"}
               PROVE  Known(dev', d)
    BY DEF MessagesKnown
  <2>1. CASE ClientsNext
    <3>1. CASE Queued(dev', d)
      BY <3>1 DEF Known
    <3>2. CASE pc[d] \in {"busy", "waiting"}
      <4>1. Known(dev, d) /\ Committed(dev)
        BY <3>2 DEF MessagesKnown, Clients
      <4>2. CASE Next
        BY <4>1, <4>2, NobodyIsForgotten
      <4>3. CASE dev' = dev
        BY <4>1, <4>3
      <4>. QED  BY <2>1, <4>2, <4>3, StepIsCall
    <3>. QED  BY <2>1, <3>1, <3>2, StoredWhenQueued
  <2>2. CASE UNCHANGED clientVars
    BY <2>2 DEF clientVars, MessagesKnown
  <2>. QED  BY <2>1, <2>2
<1>3. MessagesKnown => StoredMessageIsKnown
  BY DEF MessagesKnown, StoredMessageIsKnown, Turns
<1>. QED  BY <1>1, <1>2, <1>3, ClientsInvariance, PTL DEF ClientsSpec

-----------------------------------------------------------------------------
(* Types. *)

\* A token is issued with a lease that stands when the operation commits.
LEMMA GrantPasses ==
    ASSUME NEW s, NEW t, Core(t), t.fencingCounter = s.fencingCounter, NEW lag \in Lag
    PROVE  Passed(s, GrantNext(t, lag))
BY GrantKeepsCore DEF Passed

LEMMA RecoverPasses ==
    ASSUME NEW s, Core(s), NEW lag \in Lag
    PROVE  Passed(s, AfterRecover(s, lag))
BY ReapKeepsCore, GrantPasses DEF AfterRecover

LEMMA ReleasePasses ==
    ASSUME NEW s, Core(s), NEW k, NEW lag \in Lag
    PROVE  Passed(s, AfterRelease(s, k, lag))
<1> DEFINE t == ReapExpired(s, lag)
           u == IF HoldsToken(t, k) THEN EndLease(t, "released") ELSE t
<1>1. Core(t) /\ t.fencingCounter = s.fencingCounter
  BY ReapKeepsCore
<1>2. AfterRelease(s, k, lag) = GrantNext(u, lag)
  BY DEF AfterRelease
<1> HIDE DEF t
<1>3. Core(u) /\ u.fencingCounter = s.fencingCounter
  <2>1. "released" \in TerminalStatus
    BY DEF TerminalStatus
  <2>. QED  BY <1>1, <2>1, EndLeaseKeepsCore DEF HoldsToken
<1> HIDE DEF u
<1>. QED  BY <1>2, <1>3, GrantPasses

LEMMA CancelPasses ==
    ASSUME NEW s, Core(s), NEW r, NEW k, NEW lag \in Lag
    PROVE  Passed(s, AfterCancel(s, r, k, lag))
<1> DEFINE t == ReapExpired(s, lag)
           E == {e \in t.queue : e.req = r}
           u == CancelQueued(t, E)
           x == EndLease(t, "cancelled")
           w == AfterCancel(s, r, k, lag)
<1>1. Core(t) /\ t.fencingCounter = s.fencingCounter
  BY ReapKeepsCore
<1>2. w = IF Queued(t, r) THEN GrantNext(u, lag)
          ELSE IF HoldsRequest(t, r)
          THEN IF HoldsToken(t, k) THEN GrantNext(x, lag) ELSE t
          ELSE GrantNext(t, lag)
  BY DEF AfterCancel
<1> HIDE DEF t, w
<1>3. Core(u) /\ u.fencingCounter = s.fencingCounter
  <2>1. E \in SUBSET t.queue /\ (E = {} \/ \E e \in E : E = {e})
    BY <1>1 DEF Core, OnePlace
  <2> HIDE DEF E
  <2>. QED  BY <1>1, <2>1, CancelQueuedKeepsCore
<1>4. HoldsRequest(t, r) => Core(x) /\ x.fencingCounter = s.fencingCounter
  <2>1. "cancelled" \in TerminalStatus
    BY DEF TerminalStatus
  <2>. QED  BY <1>1, <2>1, EndLeaseKeepsCore DEF HoldsRequest
<1>5. HoldsRequest(t, r) => Passed(s, t)
  BY DEF HoldsRequest, Passed
<1> HIDE DEF u, x
<1>6. Passed(s, w)
  BY <1>1, <1>2, <1>3, <1>4, <1>5, GrantPasses
<1>. QED  BY <1>6 DEF w

\* Whoever is woken because the device was passed on has a story.
LEMMA WokenHasStory ==
    ASSUME Clients, Committed(dev'), NEW lag \in Lag,
           \/ \E r, k : Cancel(r, k, lag)
           \/ \E k : Release(k, lag)
           \/ RecoverExpired(lag)
    PROVE  WakeGranted \subseteq Story
<1> DEFINE n == NormalizeState(dev)
<1>1. Core(n) /\ n.fencingCounter = dev.fencingCounter
  BY Normalized DEF Clients, Committed, SameClaims
<1>2. Passed(n, dev')
  BY <1>1, CancelPasses, ReleasePasses, RecoverPasses DEF Cancel, Release, RecoverExpired
<1>3. dev.fencingCounter \in Nat /\ (Leased(dev') => dev'.lease \in Lease)
  BY CoreTokens DEF Clients, Committed
<1> HIDE DEF n
<1>. QED  BY <1>1, <1>2, <1>3 DEF WakeGranted, Granted, Passed, Lease

\* Whoever is told to wait finds the device with a story.
LEMMA HolderHasStory ==
    ASSUME Committed(dev'), NEW c \in Request,
           AcquireStatus(dev', c, StoryOf[c]) = "queued"
    PROVE  WakeHolder(c) \subseteq Story
<1>1. Queued(dev', c)
  BY DEF AcquireStatus
<1>2. Leased(dev')
  BY <1>1 DEF Queued, Committed, Conserving
<1>3. dev'.lease \in Lease
  BY <1>2, CoreTokens DEF Committed
<1>. QED  BY <1>3 DEF WakeHolder, Lease

LEMMA Interval ==
    /\ HeartbeatEvery \in Nat \ {0} /\ LeaseTtl \in Nat /\ MaxLag \in Nat
    /\ Lag = 0 .. MaxLag
<1>1. LeaseTtl \in Nat /\ MaxLag \in Nat
  BY DeviceRuntimeAssumption, DeviceClientsAssumption
<1>2. LeaseTtl \div 3 \in Int
  BY <1>1
<1>. QED  BY <1>1, <1>2 DEF HeartbeatEvery, Lag

Timers == due \in [Request -> -MaxLag .. HeartbeatEvery]

\* A step sets a timer to one interval less the age of a clock reading, stops
\* it, or lets it run down to the latest a timer can be.
LEMMA StepKeepsTimers ==
    ASSUME Timers, ClientsNext
    PROVE  Timers'
<1> USE DEF Timers
<1>1. 0 \in -MaxLag .. HeartbeatEvery /\ HeartbeatEvery \in -MaxLag .. HeartbeatEvery
  BY Interval
<1>2. ASSUME NEW c \in Request, NEW lag \in Lag, ClientStep(c, lag)
      PROVE  Timers'
  <2>1. HeartbeatEvery - lag \in -MaxLag .. HeartbeatEvery
    BY Interval
  <2>2. CASE Ask(c, lag) \/ Redeliver(c, lag)
    BY <1>1, <2>2 DEF Ask, Redeliver, StartUnderLease
  <2>3. CASE Beat(c, lag)
    BY <1>1, <2>1, <2>3 DEF Beat
  <2>4. CASE CloseStory(c, lag) \/ Withdraw(c, lag) \/ Persist(c) \/ BlockUnasked(c)
             \/ Finish(c) \/ GiveBack(c, lag)
    BY <1>1, <2>4 DEF CloseStory, Withdraw, Persist, BlockUnasked, Finish, GiveBack
  <2>. QED  BY <1>2, <2>2, <2>3, <2>4 DEF ClientStep
<1>3. ASSUME NEW C, NEW W, Crash(C, W)
      PROVE  Timers'
  BY <1>1, <1>3 DEF Crash
<1>4. CASE ClockTick
  <2>1. \A c \in Request : due[c] > -MaxLag => due[c] - 1 \in -MaxLag .. HeartbeatEvery
    BY Interval
  <2>. QED  BY <1>4, <2>1 DEF ClockTick
<1>. QED  BY <1>2, <1>3, <1>4 DEF ClientsNext, DrainNothing, Poll, Sweep

\* Only stories are woken.
LEMMA StepKeepsWake ==
    ASSUME Clients, ClientsNext, wake \subseteq Story
    PROVE  wake' \subseteq Story
<1>0. Committed(dev')
  BY StepCommits
<1>1. ASSUME NEW c \in Request, NEW lag \in Lag, ClientStep(c, lag)
      PROVE  wake' \subseteq Story
  <2>1. CASE Ask(c, lag) \/ Redeliver(c, lag)
    BY <1>0, <2>1, HolderHasStory DEF Ask, Redeliver
  <2>2. CASE CloseStory(c, lag)
    BY <1>0, <2>2, WokenHasStory DEF CloseStory
  <2>3. CASE GiveBack(c, lag)
    BY <1>0, <2>3, WokenHasStory DEF GiveBack
  <2>4. CASE Withdraw(c, lag) \/ Persist(c) \/ BlockUnasked(c) \/ Finish(c) \/ Beat(c, lag)
    BY <2>4 DEF Withdraw, Persist, BlockUnasked, Finish, Beat
  <2>. QED  BY <1>1, <2>1, <2>2, <2>3, <2>4 DEF ClientStep
<1>2. ASSUME NEW lag \in Lag, Poll(lag)
      PROVE  wake' \subseteq Story
  BY <1>0, <1>2, WokenHasStory DEF Poll
<1>3. ASSUME NEW C, NEW W, Crash(C, W)
      PROVE  wake' \subseteq Story
  BY <1>3 DEF Crash
<1>4. CASE Sweep
  BY <1>4, StoryAndTtl DEF Sweep, Turns
<1>. QED  BY <1>1, <1>2, <1>3, <1>4 DEF ClientsNext, DrainNothing, ClockTick

\* The crashes are counted.
LEMMA StepCounts ==
    ASSUME ClientsNext, crashes \in 0 .. MaxCrashes
    PROVE  crashes' \in 0 .. MaxCrashes
BY DeviceClientsAssumption DEF ClientsNext, Crash

\* The types of the composed system, the coordinator's record among them.
THEOREM ClientsTypesCorrect == ClientsSpec => []ClientsTypeOK
<1> DEFINE Typed == Timers /\ wake \subseteq Story /\ crashes \in 0 .. MaxCrashes
<1>1. ClientsInit => Typed
  BY Interval, DeviceClientsAssumption DEF ClientsInit, Timers
<1>2. Clients /\ Typed /\ [ClientsNext]_clientVars => Typed'
  <2> SUFFICES ASSUME Clients, Typed, [ClientsNext]_clientVars PROVE Typed'
    OBVIOUS
  <2>1. CASE UNCHANGED clientVars
    BY <2>1 DEF clientVars, Timers
  <2>. QED  BY <2>1, StepKeepsTimers, StepKeepsWake, StepCounts
<1>3. Clients /\ Typed => ClientsTypeOK
  <2> SUFFICES ASSUME Clients, Typed PROVE ClientsTypeOK
    OBVIOUS
  <2>1. TypeOK /\ pc \in [Request -> ClientState] /\ dev.fencingCounter \in Nat
    BY CoreTokens DEF Clients, Places, Committed, Core, TypeOK
  <2>2. tok \in [Request -> 0 .. dev.fencingCounter]
    BY <2>1 DEF Clients, TokensIssued
  <2>. QED  BY <2>1, <2>2 DEF ClientsTypeOK, Timers
<1>. QED  BY <1>1, <1>2, <1>3, ClientsInvariance, PTL DEF ClientsSpec

-----------------------------------------------------------------------------
(* Who the coordinator gets to know. *)

\* From s to t, the coordinator has got to know nobody.
Meets(s, t) == \A x \in Request : Known(t, x) => Known(s, x)

LEMMA EndLeaseMeets ==
    ASSUME NEW s, Core(s), Leased(s), NEW status \in TerminalStatus
    PROVE  Meets(s, EndLease(s, status))
BY EndLeaseKeepsCore DEF Meets, Known, HoldsRequest, Queued, Ended

LEMMA CancelQueuedMeets ==
    ASSUME NEW s, Core(s), NEW E \in SUBSET s.queue, E = {} \/ \E e \in E : E = {e}
    PROVE  Meets(s, CancelQueued(s, E))
BY CancelQueuedKeepsCore DEF Meets, Known, HoldsRequest, Queued, Ended, Leased

LEMMA ReapMeets ==
    ASSUME NEW s, Core(s), NEW lag
    PROVE  Meets(s, ReapExpired(s, lag))
<1>1. "expired" \in TerminalStatus
  BY DEF TerminalStatus
<1>. QED  BY <1>1, EndLeaseMeets DEF ReapExpired, Expired, Meets

LEMMA GrantMeets ==
    ASSUME NEW s, Core(s), NEW lag
    PROVE  Meets(s, GrantNext(s, lag))
<1> DEFINE t == GrantNext(s, lag)
<1>1. CASE Leased(s) \/ s.queue = {}
  BY <1>1 DEF GrantNext, Meets
<1>2. CASE ~Leased(s) /\ s.queue # {}
  <2> DEFINE e == QueueHead(s)
  <2>1. e \in s.queue /\ s \in DeviceState
    BY <1>2, QueueHeadFirst DEF Core, DeviceState
  <2>2. t.lease.req = e.req /\ t.queue \subseteq s.queue /\ t.history = s.history
    <3> HIDE DEF e
    <3>. QED  BY <1>2, <2>1 DEF GrantNext, DeviceState, e
  <2> HIDE DEF e, t
  <2>3. Meets(s, t)
    BY <2>1, <2>2 DEF Meets, Known, HoldsRequest, Queued, Ended
  <2>. QED  BY <2>3 DEF t
<1>. QED  BY <1>1, <1>2

LEMMA RecoverMeets ==
    ASSUME NEW s, Core(s), NEW lag \in Lag
    PROVE  Meets(s, GrantNext(ReapExpired(s, lag), lag))
<1> DEFINE t == ReapExpired(s, lag)
<1>1. Core(t) /\ Meets(s, t)
  BY ReapKeepsCore, ReapMeets
<1> HIDE DEF t
<1>2. Meets(t, GrantNext(t, lag))
  BY <1>1, GrantMeets
<1>. QED  BY <1>1, <1>2 DEF Meets, t

LEMMA EvictMeets ==
    ASSUME NEW s, Core(s), NEW r, NEW story
    PROVE  Meets(s, EvictByStoryId(s, story, r))
<1> DEFINE u == EvictLease(s, story, r)
           E == {e \in u.queue : e.story = story /\ e.req # r}
<1>1. Core(u) /\ Meets(s, u)
  <2>1. "released" \in TerminalStatus
    BY DEF TerminalStatus
  <2>. QED  BY <2>1, EndLeaseKeepsCore, EndLeaseMeets DEF EvictLease, Meets
<1>2. EvictByStoryId(s, story, r) = CancelQueued(u, E)
  BY DEF EvictByStoryId
<1>3. E \in SUBSET u.queue /\ (E = {} \/ \E e \in E : E = {e})
  BY <1>1 DEF Core, OneClaim
<1> HIDE DEF u, E
<1>4. Meets(u, CancelQueued(u, E))
  BY <1>1, <1>3, CancelQueuedMeets
<1>. QED  BY <1>1, <1>2, <1>4 DEF Meets

\* Acquire gets to know the request it is called with.  If that was not known,
\* and is granted the device, its lease lasts a whole lifetime.
LEMMA AcquireMeets ==
    ASSUME NEW s, Core(s), NEW r \in Request, NEW story \in Story, NEW ttl \in Ttl,
           NEW lag \in Lag
    PROVE  LET w == AfterAcquire(s, r, story, ttl, lag)
           IN  /\ \A x \in Request \ {r} : Known(w, x) => Known(s, x)
               /\ ~Known(s, r) /\ HoldsRequest(w, r) => w.lease.left = ttl - lag
<1> DEFINE t == GrantNext(ReapExpired(s, lag), lag)
           u == EvictByStoryId(t, story, r)
           new == [req |-> r, story |-> story, seq |-> u.nextSequence, ttl |-> ttl]
           v == Enqueue(u, r, story, ttl)
           w == GrantNext(v, lag)
<1>1. Core(t) /\ Meets(s, t)
  BY RecoverMeets, RecoverHands DEF Committed
<1>2. AfterAcquire(s, r, story, ttl, lag) = IF Known(t, r) THEN t ELSE w
  BY DEF AfterAcquire
<1> HIDE DEF t
<1>3. CASE Known(t, r)
  BY <1>1, <1>2, <1>3 DEF Meets
<1>4. CASE ~Known(t, r)
  <2>1. /\ Core(u) /\ Meets(t, u) /\ ~Known(u, r)
        /\ \A e \in u.queue : e.story # story
        /\ Leased(u) => u.lease.story # story
    BY <1>1, <1>4, EvictKeepsCore, EvictMeets
  <2> HIDE DEF u
  <2>2. Core(v) /\ v.lease = u.lease
    BY <2>1, EnqueueKeepsCore
  <2>3. v.queue = u.queue \cup {new} /\ v.history = u.history
    BY <2>1 DEF Enqueue, Core, DeviceState
  <2>4. new.req = r /\ new.ttl = ttl
    OBVIOUS
  <2> HIDE DEF v, new
  <2>5. Meets(v, w)
    BY <2>2, GrantMeets
  <2>6. ASSUME NEW x \in Request \ {r}, Known(w, x)
        PROVE  Known(s, x)
    <3>1. Known(v, x)
      BY <2>5, <2>6 DEF Meets
    <3>2. Known(u, x)
      BY <2>2, <2>3, <2>4, <2>6, <3>1 DEF Known, HoldsRequest, Queued, Ended, Leased
    <3>. QED  BY <1>1, <2>1, <2>6, <3>2 DEF Meets
  <2>7. ASSUME HoldsRequest(w, r)
        PROVE  w.lease.left = ttl - lag
    <3>1. ~Leased(v)
      <4>1. Leased(v) => w = v
        BY DEF GrantNext
      <4>. QED  BY <2>1, <2>2, <2>7, <4>1 DEF HoldsRequest, Known, Leased
    <3> DEFINE e == QueueHead(v)
    <3>2. e \in v.queue /\ v \in DeviceState
      BY <2>2, <2>3, QueueHeadFirst DEF Core, DeviceState
    <3>3. w.lease.req = e.req /\ w.lease.left = e.ttl - lag
      <4> HIDE DEF e
      <4>. QED  BY <2>3, <3>1, <3>2 DEF GrantNext, DeviceState, e
    <3> HIDE DEF e
    <3>4. e = new
      BY <2>1, <2>3, <2>7, <3>2, <3>3 DEF HoldsRequest, Known, Queued
    <3>. QED  BY <2>4, <3>3, <3>4
  <2> HIDE DEF w
  <2>. QED  BY <1>2, <1>4, <2>6, <2>7
<1>. QED  BY <1>3, <1>4

LEMMA HeartbeatMeets ==
    ASSUME NEW s, Core(s), NEW k, NEW ttl, NEW lag \in Lag
    PROVE  Meets(s, AfterHeartbeat(s, k, ttl, lag))
<1> DEFINE t == GrantNext(ReapExpired(s, lag), lag)
           w == AfterHeartbeat(s, k, ttl, lag)
<1>1. Core(t) /\ Meets(s, t)
  BY RecoverMeets, RecoverHands DEF Committed
<1>2. w = IF HoldsToken(t, k)
          THEN [t EXCEPT !.lease = [@ EXCEPT !.left = ttl - lag, !.ttl = ttl]]
          ELSE t
  BY DEF AfterHeartbeat
<1> HIDE DEF t, w
<1>3. CASE HoldsToken(t, k)
  <2>1. Leased(t) /\ t.lease \in Lease /\ t \in DeviceState
    BY <1>1, <1>3, CoreTokens DEF HoldsToken, Core
  <2>2. w.queue = t.queue /\ w.history = t.history /\ w.lease.req = t.lease.req
    BY <1>2, <1>3, <2>1 DEF DeviceState, Lease
  <2>3. Meets(s, w)
    BY <1>1, <2>1, <2>2 DEF Meets, Known, HoldsRequest, Queued, Ended
  <2>. QED  BY <2>3 DEF w
<1>4. CASE ~HoldsToken(t, k)
  BY <1>1, <1>2, <1>4 DEF w
<1>. QED  BY <1>3, <1>4

LEMMA ReleaseMeets ==
    ASSUME NEW s, Core(s), NEW k, NEW lag \in Lag
    PROVE  Meets(s, AfterRelease(s, k, lag))
<1> DEFINE t == ReapExpired(s, lag)
           u == IF HoldsToken(t, k) THEN EndLease(t, "released") ELSE t
<1>1. Core(t) /\ Meets(s, t)
  BY ReapKeepsCore, ReapMeets
<1>2. AfterRelease(s, k, lag) = GrantNext(u, lag)
  BY DEF AfterRelease
<1> HIDE DEF t
<1>3. Core(u) /\ Meets(t, u)
  <2>1. "released" \in TerminalStatus
    BY DEF TerminalStatus
  <2>. QED  BY <1>1, <2>1, EndLeaseKeepsCore, EndLeaseMeets DEF HoldsToken, Meets
<1> HIDE DEF u
<1>. QED  BY <1>1, <1>2, <1>3, GrantMeets DEF Meets

LEMMA CancelMeets ==
    ASSUME NEW s, Core(s), NEW r, NEW k, NEW lag \in Lag
    PROVE  Meets(s, AfterCancel(s, r, k, lag))
<1> DEFINE t == ReapExpired(s, lag)
           E == {e \in t.queue : e.req = r}
           u == CancelQueued(t, E)
           x == EndLease(t, "cancelled")
           w == AfterCancel(s, r, k, lag)
<1>1. Core(t) /\ Meets(s, t)
  BY ReapKeepsCore, ReapMeets
<1>2. w = IF Queued(t, r) THEN GrantNext(u, lag)
          ELSE IF HoldsRequest(t, r)
          THEN IF HoldsToken(t, k) THEN GrantNext(x, lag) ELSE t
          ELSE GrantNext(t, lag)
  BY DEF AfterCancel
<1> HIDE DEF t, w
<1>3. Core(u) /\ Meets(t, u)
  <2>1. E \in SUBSET t.queue /\ (E = {} \/ \E e \in E : E = {e})
    BY <1>1 DEF Core, OnePlace
  <2> HIDE DEF E
  <2>. QED  BY <1>1, <2>1, CancelQueuedKeepsCore, CancelQueuedMeets
<1>4. HoldsRequest(t, r) => Core(x) /\ Meets(t, x)
  <2>1. "cancelled" \in TerminalStatus
    BY DEF TerminalStatus
  <2>. QED  BY <1>1, <2>1, EndLeaseKeepsCore, EndLeaseMeets DEF HoldsRequest
<1> HIDE DEF u, x
<1>5. \A y : Core(y) /\ Meets(t, y) => Meets(s, GrantNext(y, lag))
  BY <1>1, GrantMeets DEF Meets
<1>6. Meets(t, t)
  BY DEF Meets
<1>7. Meets(s, w)
  BY <1>1, <1>2, <1>3, <1>4, <1>5, <1>6
<1>. QED  BY <1>7 DEF w

\* A request nobody has made is not known.
IdleUnknown == \A c \in Request : pc[c] = "idle" => ~Known(dev, c)

\* Whose step it is, the coordinator gets to know nobody else.
LEMMA ClientMeets ==
    ASSUME Clients, NEW c \in Request, NEW lag \in Lag, ClientStep(c, lag)
    PROVE  \A x \in Request \ {c} : Known(dev', x) => Known(dev, x)
<1> DEFINE n == NormalizeState(dev)
<1>1. Core(n) /\ Meets(dev, n)
  BY Normalized DEF Clients, Committed, SameClaims, Meets, Known, HoldsRequest, Queued,
                    Ended, Leased
<1> HIDE DEF n
<1>2. ASSUME Acquire(c, StoryOf[c], LeaseTtl, lag)
      PROVE  \A x \in Request \ {c} : Known(dev', x) => Known(dev, x)
  <2>1. dev' = AfterAcquire(n, c, StoryOf[c], LeaseTtl, lag)
    BY <1>2 DEF Acquire, n
  <2>2. \A x \in Request \ {c} : Known(dev', x) => Known(n, x)
    BY <1>1, <2>1, AcquireMeets, StoryAndTtl
  <2>. QED  BY <1>1, <2>2 DEF Meets
<1>3. ASSUME Meets(n, dev')
      PROVE  Meets(dev, dev')
  BY <1>1, <1>3 DEF Meets
<1>4. CASE Ask(c, lag) \/ Redeliver(c, lag)
  BY <1>2, <1>4 DEF Ask, Redeliver
<1>5. CASE CloseStory(c, lag) \/ Withdraw(c, lag)
  <2>1. \E k : dev' = AfterCancel(n, c, k, lag)
    BY <1>5 DEF CloseStory, Withdraw, Cancel, n
  <2>. QED  BY <1>1, <1>3, <2>1, CancelMeets DEF Meets
<1>6. CASE Beat(c, lag)
  <2>1. dev' = AfterHeartbeat(n, tok[c], LeaseTtl, lag)
    BY <1>6 DEF Beat, Heartbeat, n
  <2>. QED  BY <1>1, <1>3, <2>1, HeartbeatMeets DEF Meets
<1>7. CASE GiveBack(c, lag)
  <2>1. dev' = AfterRelease(n, tok[c], lag)
    BY <1>7 DEF GiveBack, Release, n
  <2>. QED  BY <1>1, <1>3, <2>1, ReleaseMeets DEF Meets
<1>8. CASE Persist(c) \/ BlockUnasked(c) \/ Finish(c)
  BY <1>8 DEF Persist, BlockUnasked, Finish
<1>. QED  BY <1>4, <1>5, <1>6, <1>7, <1>8 DEF ClientStep

\* A poll, a tick, a crash and a sweep introduce nobody.
LEMMA OthersMeet ==
    ASSUME Clients, \/ \E lag \in Lag : Poll(lag)
                    \/ ClockTick
                    \/ UNCHANGED dev
    PROVE  Meets(dev, dev')
<1>1. dev \in DeviceState /\ Committed(dev)
  BY DEF Clients, Committed, Core
<1>2. ASSUME NEW lag \in Lag, Poll(lag)
      PROVE  Meets(dev, dev')
  <2> DEFINE n == NormalizeState(dev)
  <2>1. Core(n) /\ Meets(dev, n)
    BY <1>1, Normalized DEF Committed, SameClaims, Meets, Known, HoldsRequest, Queued,
                            Ended, Leased
  <2>2. dev' = GrantNext(ReapExpired(n, lag), lag)
    BY <1>2 DEF Poll, RecoverExpired, AfterRecover
  <2> HIDE DEF n
  <2>3. Meets(n, dev')
    BY <2>1, <2>2, RecoverMeets
  <2>. QED  BY <2>1, <2>3 DEF Meets
<1>3. CASE Tick
  <2>1. Leased(dev) /\ dev.lease \in Lease
    BY <1>1, <1>3, CoreTokens DEF Tick, Committed
  <2>2. /\ dev'.queue = dev.queue /\ dev'.history = dev.history
        /\ dev'.lease.req = dev.lease.req
    BY <1>1, <1>3, <2>1 DEF Tick, DeviceState, Lease
  <2>. QED  BY <2>1, <2>2 DEF Meets, Known, HoldsRequest, Queued, Ended
<1>4. CASE UNCHANGED dev
  BY <1>4 DEF Meets
<1>. QED  BY <1>2, <1>3, <1>4 DEF ClockTick

LEMMA StepKeepsIdle ==
    ASSUME Clients, IdleUnknown, ClientsNext
    PROVE  IdleUnknown'
<1> SUFFICES ASSUME NEW d \in Request, pc'[d] = "idle"
             PROVE  ~Known(dev', d)
  BY DEF IdleUnknown
<1>0. pc \in [Request -> ClientState]
  BY DEF Clients, Places
<1>1. ASSUME pc[d] = "idle", Known(dev', d) => Known(dev, d)
      PROVE  ~Known(dev', d)
  BY <1>1 DEF IdleUnknown
<1>2. ASSUME NEW c \in Request, NEW lag \in Lag, ClientStep(c, lag)
      PROVE  ~Known(dev', d)
  <2>1. c # d /\ pc[d] = "idle"
    <3>1. CASE Ask(c, lag) \/ Redeliver(c, lag)
      BY <1>0, <3>1 DEF Ask, Redeliver, StartUnderLease, Goto
    <3>2. CASE CloseStory(c, lag) \/ Withdraw(c, lag) \/ Persist(c) \/ BlockUnasked(c)
      BY <1>0, <3>2 DEF CloseStory, Withdraw, Persist, BlockUnasked, Goto
    <3>3. CASE Finish(c) \/ Beat(c, lag) \/ GiveBack(c, lag)
      BY <1>0, <3>3 DEF Finish, Operating, Beat, GiveBack, Goto
    <3>. QED  BY <1>2, <3>1, <3>2, <3>3 DEF ClientStep
  <2>. QED  BY <1>1, <1>2, <2>1, ClientMeets
<1>3. ASSUME Meets(dev, dev'), pc[d] = "idle"
      PROVE  ~Known(dev', d)
  BY <1>1, <1>3 DEF Meets
<1>4. ASSUME NEW C, NEW W, Crash(C, W)
      PROVE  ~Known(dev', d)
  BY <1>3, <1>4, OthersMeet DEF Crash
<1>5. CASE (\E s \in Story : DrainNothing(s)) \/ Sweep \/ ClockTick
           \/ \E lag \in Lag : Poll(lag)
  <2>1. pc' = pc
    BY <1>5 DEF DrainNothing, Sweep, ClockTick, Poll
  <2>2. Meets(dev, dev')
    BY <1>5, OthersMeet DEF DrainNothing, Sweep
  <2>. QED  BY <1>3, <2>1, <2>2
<1>. QED  BY <1>2, <1>4, <1>5 DEF ClientsNext

-----------------------------------------------------------------------------
(* The heartbeats of an immediate operation are enough. *)

\* The lifetime leaves room for the first interval and for two clock readings
\* as old as they may be: the one the lease began with and the one that reaps it.
Roomy == HeartbeatEvery + 2 * MaxLag <= LeaseTtl

\* Until its timer is as late as it can be, an immediate operation holds a lease
\* that outlasts the timer by the age of a clock reading.
OnTime ==
    \A c \in Immediate :
        pc[c] = "running" /\ due[c] > -MaxLag =>
            /\ HoldsToken(dev, tok[c])
            /\ dev.lease.left >= due[c] + MaxLag

\* A lease that still runs is not touched by the step of another client.
LEMMA Bystander ==
    ASSUME OwnStories, OwnedClients, NEW c \in Request, pc[c] = "running",
           HoldsToken(dev, tok[c]), dev.lease.left > 0,
           NEW d \in Request \ {c}, NEW lag \in Lag, ClientStep(d, lag)
    PROVE  dev'.lease = dev.lease
<1>1. /\ Committed(dev) /\ TokensOwned /\ Owned(dev)
      /\ Leased(dev) /\ dev.lease.fencing = tok[c]
      /\ tok[c] # 0
  BY DEF OwnedClients, Clients, HoldsToken, Places
<1>2. dev.lease.req = c /\ dev.lease.story = StoryOf[c]
  BY <1>1 DEF TokensOwned, Owned
<1>3. Runs(dev, lag)
  <2>1. lag \in Nat /\ dev.lease.left \in Int
    BY <1>1, CoreTokens, DeviceRuntimeAssumption DEF Committed, Lease, Lag
  <2>. QED  BY <1>1, <2>1 DEF Runs, Expired
<1>4. CASE Ask(d, lag) \/ Redeliver(d, lag)
  <2>1. dev.lease.story # StoryOf[d]
    BY <1>2 DEF OwnStories
  <2>. QED  BY <1>1, <1>3, <1>4, <2>1, AcquireCall DEF Ask, Redeliver
<1>5. CASE CloseStory(d, lag) \/ Withdraw(d, lag)
  BY <1>1, <1>2, <1>3, <1>5, CancelCall DEF CloseStory, Withdraw
<1>6. CASE Beat(d, lag) \/ GiveBack(d, lag)
  <2>1. tok[d] # 0
    BY <1>6 DEF Beat, GiveBack, OwnedClients, Clients, Places
  <2>2. dev.lease.fencing # tok[d]
    BY <1>1, <1>2, <2>1 DEF TokensOwned, HoldsToken
  <2>3. CASE GiveBack(d, lag)
    BY <1>1, <1>3, <2>2, <2>3, ReleaseCall DEF GiveBack
  <2>4. CASE Beat(d, lag)
    <3> DEFINE n == NormalizeState(dev)
    <3>1. Committed(n) /\ n.lease = dev.lease
      BY <1>1, NormalizedHands
    <3>2. dev' = AfterHeartbeat(n, tok[d], LeaseTtl, lag)
      BY <2>4 DEF Beat, Heartbeat
    <3> HIDE DEF n
    <3>3. Runs(n, lag) /\ ~HoldsToken(n, tok[d])
      BY <1>3, <2>2, <3>1 DEF Runs, Expired, Leased, HoldsToken
    <3>4. GrantNext(ReapExpired(n, lag), lag) = n
      BY <3>1, <3>3, RecoverHands DEF Committed
    <3>. QED  BY <3>1, <3>2, <3>3, <3>4 DEF AfterHeartbeat
  <2>. QED  BY <1>6, <2>3, <2>4
<1>7. CASE Persist(d) \/ BlockUnasked(d) \/ Finish(d)
  BY <1>7 DEF Persist, BlockUnasked, Finish
<1>. QED  BY <1>4, <1>5, <1>6, <1>7 DEF ClientStep

\* A heartbeat that finds its lease gives it a lifetime from the clock reading.
LEMMA BeatRenews ==
    ASSUME Committed(dev), NEW k, NEW lag \in Lag, Heartbeat(k, LeaseTtl, lag),
           HoldsToken(dev', k)
    PROVE  dev'.lease.left = LeaseTtl - lag
<1> DEFINE n == NormalizeState(dev)
           t == GrantNext(ReapExpired(n, lag), lag)
           l == [t.lease EXCEPT !.left = LeaseTtl - lag, !.ttl = LeaseTtl]
<1>1. Committed(n)
  BY NormalizedHands
<1>2. Committed(t)
  BY <1>1, RecoverHands DEF Committed
<1>3. dev' = IF HoldsToken(t, k) THEN [t EXCEPT !.lease = l] ELSE t
  BY DEF Heartbeat, AfterHeartbeat
<1> HIDE DEF t
<1>4. HoldsToken(t, k)
  BY <1>3
<1>5. t.lease \in Lease /\ t \in DeviceState
  BY <1>2, <1>4, CoreTokens DEF HoldsToken, Committed, Core
<1>6. l.left = LeaseTtl - lag
  BY <1>5 DEF Lease
<1> HIDE DEF l
<1>. QED  BY <1>3, <1>4, <1>5, <1>6 DEF DeviceState

\* An immediate operation that is granted the device starts with a whole lease.
LEMMA StartsFresh ==
    ASSUME Clients, IdleUnknown, NEW c \in Request, NEW lag \in Lag, pc[c] = "idle",
           Acquire(c, StoryOf[c], LeaseTtl, lag),
           AcquireStatus(dev', c, StoryOf[c]) = "acquired"
    PROVE  dev'.lease.left = LeaseTtl - lag
<1> DEFINE n == NormalizeState(dev)
<1>1. Core(n) /\ (Known(n, c) => Known(dev, c))
  BY Normalized DEF Clients, Committed, SameClaims, Known, HoldsRequest, Queued, Ended,
                    Leased
<1>2. dev' = AfterAcquire(n, c, StoryOf[c], LeaseTtl, lag)
  BY DEF Acquire
<1> HIDE DEF n
<1>3. ~Known(n, c)
  BY <1>1 DEF IdleUnknown
<1>4. HoldsRequest(dev', c)
  BY DEF AcquireStatus
<1>. QED  BY <1>1, <1>2, <1>3, <1>4, AcquireMeets, StoryAndTtl

\* The invariant the heartbeats maintain.
OnTimeClients == OwnedClients /\ Timers /\ IdleUnknown /\ OnTime

\* The client's own steps: a lease that starts, a heartbeat, or the end.
LEMMA OwnStepOnTime ==
    ASSUME Roomy, OnTimeClients, NEW c \in Immediate, NEW lag \in Lag,
           ClientStep(c, lag), pc'[c] = "running", due'[c] > -MaxLag
    PROVE  /\ HoldsToken(dev', tok'[c])
           /\ dev'.lease.left >= due'[c] + MaxLag
<1>0. /\ c \in Request /\ c \notin Turns
      /\ pc \in [Request -> ClientState] /\ tok \in [Request -> Nat] /\ Timers
      /\ Clients /\ Committed(dev) /\ IdleUnknown
  BY DeviceClientsAssumption
     DEF OnTimeClients, OwnedClients, Clients, Places, TokensIssued, Turns
<1>1. CASE Ask(c, lag)
  <2>1. /\ pc[c] = "idle" /\ Acquire(c, StoryOf[c], LeaseTtl, lag)
        /\ AcquireStatus(dev', c, StoryOf[c]) = "acquired" /\ StartUnderLease(c)
    BY <1>0, <1>1 DEF Ask, Goto
  <2>2. dev'.lease.left = LeaseTtl - lag
    BY <1>0, <2>1, StartsFresh
  <2>3. HoldsRequest(dev', c)
    BY <2>1 DEF AcquireStatus
  <2>4. tok'[c] = dev'.lease.fencing /\ due'[c] = HeartbeatEvery
    BY <1>0, <2>1 DEF StartUnderLease, Timers
  <2>. QED  BY <2>2, <2>3, <2>4, Interval DEF HoldsToken, HoldsRequest, Roomy
<1>2. CASE Beat(c, lag)
  <2>1. /\ HoldsToken(dev', tok[c]) /\ Heartbeat(tok[c], LeaseTtl, lag)
        /\ tok' = tok /\ due'[c] = HeartbeatEvery - lag
    BY <1>0, <1>2 DEF Beat, Goto, Timers
  <2>2. dev'.lease.left = LeaseTtl - lag
    BY <1>0, <2>1, BeatRenews
  <2>. QED  BY <2>1, <2>2, Interval DEF Roomy
<1>3. ~Withdraw(c, lag) /\ ~Finish(c) /\ ~GiveBack(c, lag) /\ ~Persist(c)
  BY <1>0 DEF Withdraw, Finish, GiveBack, Persist, Goto
<1>. QED  BY <1>0, <1>1, <1>2, <1>3 DEF ClientStep

\* Every step keeps the leases of the immediate operations ahead of their timers.
LEMMA StepKeepsOnTime ==
    ASSUME OwnStories, Roomy, OnTimeClients, ClientsNext
    PROVE  OnTime'
<1> SUFFICES ASSUME NEW c \in Immediate, pc'[c] = "running", due'[c] > -MaxLag
             PROVE  /\ HoldsToken(dev', tok'[c])
                    /\ dev'.lease.left >= due'[c] + MaxLag
  BY DEF OnTime
<1>0. /\ c \in Request
      /\ pc \in [Request -> ClientState] /\ tok \in [Request -> Nat] /\ Timers
      /\ OwnedClients /\ Clients /\ Committed(dev)
  BY DeviceClientsAssumption
     DEF OnTimeClients, OwnedClients, Clients, Places, TokensIssued
<1>1. due[c] \in Int /\ due[c] >= -MaxLag /\ MaxLag \in Nat
  BY <1>0, Interval DEF Timers
<1>2. pc[c] = "running" /\ due[c] > -MaxLag =>
         HoldsToken(dev, tok[c]) /\ dev.lease.left >= due[c] + MaxLag
  BY DEF OnTimeClients, OnTime
<1>3. HoldsToken(dev, tok[c]) => dev.lease.left \in Int
  BY <1>0, CoreTokens DEF HoldsToken, Committed, Lease
<1>4. ASSUME NEW d \in Request, NEW lag \in Lag, ClientStep(d, lag)
      PROVE  HoldsToken(dev', tok'[c]) /\ dev'.lease.left >= due'[c] + MaxLag
  <2>1. CASE d = c
    BY <1>4, <2>1, OwnStepOnTime
  <2>2. CASE d # c
    <3>1. pc'[c] = pc[c] /\ tok'[c] = tok[c] /\ due'[c] = due[c]
      BY <1>0, <1>4, <2>2
         DEF ClientStep, Ask, Redeliver, BlockUnasked, CloseStory, Withdraw, Persist,
             Beat, Finish, GiveBack, StartUnderLease, Goto, Timers
    <3>2. HoldsToken(dev, tok[c]) /\ dev.lease.left >= due[c] + MaxLag
      BY <1>2, <3>1
    <3>3. dev.lease.left > 0
      BY <1>1, <1>3, <3>1, <3>2
    <3>4. dev'.lease = dev.lease
      BY <1>0, <1>4, <2>2, <3>1, <3>2, <3>3, Bystander
    <3>. QED  BY <3>1, <3>2, <3>4 DEF HoldsToken, Leased
  <2>. QED  BY <2>1, <2>2
<1>5. ASSUME dev'.lease = dev.lease, pc'[c] = pc[c], tok'[c] = tok[c], due'[c] = due[c]
      PROVE  HoldsToken(dev', tok'[c]) /\ dev'.lease.left >= due'[c] + MaxLag
  BY <1>2, <1>5 DEF HoldsToken, Leased
<1>6. CASE (\E s \in Story : DrainNothing(s)) \/ Sweep
  BY <1>5, <1>6 DEF DrainNothing, Sweep
<1>7. ASSUME NEW lag \in Lag, Poll(lag)
      PROVE  HoldsToken(dev', tok'[c]) /\ dev'.lease.left >= due'[c] + MaxLag
  <2>1. pc' = pc /\ tok' = tok /\ due' = due
    BY <1>7 DEF Poll
  <2>2. HoldsToken(dev, tok[c]) /\ dev.lease.left >= due[c] + MaxLag
    BY <1>2, <2>1
  <2>3. Runs(dev, lag)
    <3>1. lag \in Nat
      BY Interval
    <3>. QED  BY <1>1, <1>3, <2>1, <2>2, <3>1 DEF Runs, Expired, HoldsToken
  <2>. QED  BY <1>0, <1>5, <1>7, <2>1, <2>3, RecoverCall DEF Poll
<1>8. ASSUME NEW C, NEW W, Crash(C, W)
      PROVE  HoldsToken(dev', tok'[c]) /\ dev'.lease.left >= due'[c] + MaxLag
  <2>1. c \notin C
    BY <1>0, <1>8 DEF Crash
  <2>. QED  BY <1>0, <1>5, <1>8, <2>1 DEF Crash
<1>9. CASE ClockTick
  <2>1. pc' = pc /\ tok' = tok /\ due'[c] = due[c] - 1 /\ due[c] > -MaxLag
    BY <1>0, <1>1, <1>9 DEF ClockTick
  <2>2. HoldsToken(dev, tok[c]) /\ dev.lease.left >= due[c] + MaxLag
    BY <1>2, <2>1
  <2>3. Tick
    BY <1>1, <1>3, <1>9, <2>1, <2>2 DEF ClockTick, HoldsToken
  <2>4. dev'.lease.left = dev.lease.left - 1 /\ HoldsToken(dev', tok[c])
    <3>1. dev.lease \in Lease /\ dev \in DeviceState
      BY <1>0, <2>3, CoreTokens DEF Tick, Committed, Core
    <3>2. dev'.lease.left = dev.lease.left - 1
      BY <2>3, <3>1 DEF Tick, DeviceState, Lease
    <3>. QED  BY <1>0, <2>2, <2>3, <3>2, TickCall DEF HoldsToken
  <2>. QED  BY <1>1, <1>3, <2>1, <2>2, <2>4
<1>. QED  BY <1>4, <1>6, <1>7, <1>8, <1>9 DEF ClientsNext

\* Heartbeats a third of the lifetime apart are enough, for every number of
\* clients and crashes and every age of their clock readings that leaves the
\* lifetime room: an immediate operation holds the device from its first command
\* on, unless its own timer is as late as a timer can be.
THEOREM HeartbeatsSuffice ==
    ASSUME OwnStories, Roomy
    PROVE  ClientsSpec => []OperationHoldsLease
<1>1. ClientsInit => OnTime /\ IdleUnknown /\ Timers
  <2> SUFFICES ASSUME ClientsInit PROVE OnTime /\ IdleUnknown /\ Timers
    OBVIOUS
  <2>1. \A c \in Immediate : pc[c] = "idle"
    BY DeviceClientsAssumption DEF ClientsInit
  <2>2. dev.lease = None /\ dev.queue = {} /\ dev.history = {}
    BY DEF ClientsInit, Init, InitialState
  <2>3. Timers
    BY Interval DEF ClientsInit, Timers
  <2>. QED
    BY <2>1, <2>2, <2>3
       DEF OnTime, IdleUnknown, Known, HoldsRequest, Queued, Ended, Leased
<1>2. /\ OwnedClients /\ OwnedClients' /\ (OnTime /\ IdleUnknown /\ Timers)
      /\ [ClientsNext]_clientVars
      => (OnTime /\ IdleUnknown /\ Timers)'
  <2> SUFFICES ASSUME OwnedClients, OnTime, IdleUnknown, Timers, [ClientsNext]_clientVars
               PROVE  (OnTime /\ IdleUnknown /\ Timers)'
    OBVIOUS
  <2>1. CASE ClientsNext
    <3>1. OnTime'
      BY <2>1, StepKeepsOnTime DEF OnTimeClients
    <3>2. IdleUnknown'
      BY <2>1, StepKeepsIdle DEF OwnedClients
    <3>3. Timers'
      BY <2>1, StepKeepsTimers
    <3>. QED  BY <3>1, <3>2, <3>3
  <2>2. CASE UNCHANGED clientVars
    BY <2>2 DEF clientVars, OnTime, IdleUnknown, Timers
  <2>. QED  BY <2>1, <2>2
<1>3. OnTime /\ Timers => OperationHoldsLease
  <2> SUFFICES ASSUME OnTime, Timers, NEW c \in Immediate,
                      pc[c] = "running", ~HoldsToken(dev, tok[c])
               PROVE  due[c] = -MaxLag
    BY DEF OperationHoldsLease
  <2>1. due[c] \in Int /\ due[c] >= -MaxLag
    BY Interval, DeviceClientsAssumption DEF Timers
  <2>. QED  BY <2>1, Interval DEF OnTime
<1>. QED  BY <1>1, <1>2, <1>3, OwnedInvariance, PTL DEF ClientsSpec
-----------------------------------------------------------------------------
(* Two clients at once. *)

\* Two clients operate the device at once only when one of them has outlived its
\* lease; and an immediate operation that has was told so, or its timer is as late
\* as a timer can be.
OverlapIsLate ==
    \A c, d \in Request : Operating(c) /\ Operating(d) /\ c # d =>
        \E x \in {c, d} :
            /\ ~HoldsToken(dev, tok[x])
            /\ x \in Immediate => pc[x] = "stale" \/ due[x] = -MaxLag

\* The lease serialises the operations of all clients, but for those that go on
\* after they have lost it (runImmediateDeviceOperation goes on when a heartbeat
\* fails): who else operates the device never does so by a grant of the coordinator.
THEOREM OverlapOnlyWhenLate ==
    ASSUME OwnStories, Roomy
    PROVE  ClientsSpec => []OverlapIsLate
<1>1. OwnedClients /\ OperationHoldsLease => OverlapIsLate
  <2> SUFFICES ASSUME OwnedClients, OperationHoldsLease,
                      NEW c \in Request, NEW d \in Request,
                      Operating(c), Operating(d), c # d
               PROVE  \E x \in {c, d} :
                         /\ ~HoldsToken(dev, tok[x])
                         /\ x \in Immediate => pc[x] = "stale" \/ due[x] = -MaxLag
    BY DEF OverlapIsLate
  <2>1. tok[c] # 0 /\ tok[d] # 0
    BY DEF Operating, OwnedClients, Clients, Places
  <2>2. PICK x \in {c, d} : ~HoldsToken(dev, tok[x])
    BY <2>1 DEF OwnedClients, TokensOwned
  <2>3. Operating(x)
    BY <2>2
  <2>. QED  BY <2>2, <2>3 DEF Operating, OperationHoldsLease
<1>. QED  BY <1>1, OwnedInvariance, HeartbeatsSuffice, PTL

\* With clients that crash, withdraw and repeat, the coordinator is still the line it
\* promises, if its history has room for every request.
THEOREM ClientsKeepTheLine ==
    ASSUME Remembering
    PROVE  ClientsSpec => ImplementsLine
BY ClientsAreCallers, LineIsImplemented, PTL

-----------------------------------------------------------------------------
(* Who prolongs a lease. *)

\* The lease of t is that of s, or newly granted.
SameOrNew(s, t) ==
    /\ t.fencingCounter >= s.fencingCounter
    /\ Leased(t) => t.lease = s.lease \/ t.lease.fencing > s.fencingCounter

LEMMA SameOrNewTransitive ==
    ASSUME NEW s, NEW t, NEW u, Core(s), Core(t), Core(u),
           SameOrNew(s, t), SameOrNew(t, u)
    PROVE  SameOrNew(s, u)
<1>1. /\ s.fencingCounter \in Nat /\ t.fencingCounter \in Nat /\ u.fencingCounter \in Nat
      /\ Leased(u) => u.lease.fencing \in Nat
  BY CoreTokens
<1>2. CASE Leased(u) /\ u.lease = t.lease
  BY <1>1, <1>2 DEF SameOrNew, Leased
<1>3. CASE ~(Leased(u) /\ u.lease = t.lease)
  BY <1>1, <1>3 DEF SameOrNew
<1>. QED  BY <1>2, <1>3

\* Nothing is granted, and the deadline stays.
LEMMA StillSameOrNew ==
    ASSUME NEW s, NEW t, Core(s), t.fencingCounter = s.fencingCounter,
           Leased(t) => t.lease = s.lease
    PROVE  SameOrNew(s, t)
BY CoreTokens DEF SameOrNew

LEMMA GrantSameOrNew ==
    ASSUME NEW s, Core(s), NEW lag \in Lag
    PROVE  Core(GrantNext(s, lag)) /\ SameOrNew(s, GrantNext(s, lag))
<1> DEFINE t == GrantNext(s, lag)
<1>1. Core(t) /\ s \in DeviceState /\ s.fencingCounter \in Nat
  BY GrantKeepsCore, CoreTokens DEF Core
<1>2. CASE Leased(s) \/ s.queue = {}
  <2>1. t = s
    BY <1>2 DEF GrantNext
  <2>. QED  BY <1>1, <2>1, StillSameOrNew
<1>3. CASE ~Leased(s) /\ s.queue # {}
  <2> DEFINE e == QueueHead(s)
  <2>1. t.lease.fencing = s.fencingCounter + 1 /\ t.fencingCounter = s.fencingCounter + 1
    <3> HIDE DEF e
    <3>. QED  BY <1>1, <1>3 DEF GrantNext, DeviceState, e
  <2>. QED  BY <1>1, <2>1 DEF SameOrNew
<1>. QED  BY <1>2, <1>3

LEMMA EndLeaseSameOrNew ==
    ASSUME NEW s, Core(s), Leased(s), NEW status \in TerminalStatus
    PROVE  Core(EndLease(s, status)) /\ SameOrNew(s, EndLease(s, status))
BY EndLeaseKeepsCore, StillSameOrNew

LEMMA ReapSameOrNew ==
    ASSUME NEW s, Core(s), NEW lag \in Lag
    PROVE  Core(ReapExpired(s, lag)) /\ SameOrNew(s, ReapExpired(s, lag))
<1>1. "expired" \in TerminalStatus
  BY DEF TerminalStatus
<1>2. CASE Expired(s, lag)
  <2>1. ReapExpired(s, lag) = EndLease(s, "expired") /\ Leased(s)
    BY <1>2 DEF ReapExpired, Expired
  <2>. QED  BY <1>1, <2>1, EndLeaseSameOrNew
<1>3. CASE ~Expired(s, lag)
  <2>1. ReapExpired(s, lag) = s
    BY <1>3 DEF ReapExpired
  <2>. QED  BY <2>1, StillSameOrNew
<1>. QED  BY <1>2, <1>3

LEMMA RecoverSameOrNew ==
    ASSUME NEW s, Core(s), NEW lag \in Lag
    PROVE  /\ Core(GrantNext(ReapExpired(s, lag), lag))
           /\ SameOrNew(s, GrantNext(ReapExpired(s, lag), lag))
<1> DEFINE t == ReapExpired(s, lag)
<1>1. Core(t) /\ SameOrNew(s, t)
  BY ReapSameOrNew
<1> HIDE DEF t
<1>2. Core(GrantNext(t, lag)) /\ SameOrNew(t, GrantNext(t, lag))
  BY <1>1, GrantSameOrNew
<1>3. SameOrNew(s, GrantNext(t, lag))
  BY <1>1, <1>2, SameOrNewTransitive
<1>. QED  BY <1>2, <1>3 DEF t

LEMMA AcquireSameOrNew ==
    ASSUME NEW s, Core(s), NEW r \in Request, NEW story \in Story, NEW ttl \in Ttl,
           NEW lag \in Lag
    PROVE  SameOrNew(s, AfterAcquire(s, r, story, ttl, lag))
<1> DEFINE t == GrantNext(ReapExpired(s, lag), lag)
           u == EvictByStoryId(t, story, r)
           v == Enqueue(u, r, story, ttl)
           w == GrantNext(v, lag)
<1>1. Core(t) /\ SameOrNew(s, t)
  BY RecoverSameOrNew
<1>2. AfterAcquire(s, r, story, ttl, lag) = IF Known(t, r) THEN t ELSE w
  BY DEF AfterAcquire
<1> HIDE DEF t
<1>3. CASE ~Known(t, r)
  <2>1. /\ Core(u) /\ ~Known(u, r) /\ \A e \in u.queue : e.story # story
        /\ Leased(u) => u.lease = t.lease /\ u.lease.story # story
        /\ u.fencingCounter = t.fencingCounter
    BY <1>1, <1>3, EvictKeepsCore
  <2> HIDE DEF u
  <2>2. Core(v) /\ v.lease = u.lease /\ v.fencingCounter = u.fencingCounter
    BY <2>1, EnqueueKeepsCore
  <2> HIDE DEF v
  <2>3. SameOrNew(t, v)
    BY <1>1, <2>1, <2>2, StillSameOrNew DEF Leased
  <2>4. Core(w) /\ SameOrNew(v, w)
    BY <2>2, GrantSameOrNew
  <2> HIDE DEF w
  <2>5. SameOrNew(s, v)
    BY <1>1, <2>2, <2>3, SameOrNewTransitive
  <2>. QED  BY <1>1, <1>2, <1>3, <2>2, <2>4, <2>5, SameOrNewTransitive
<1>. QED  BY <1>1, <1>2, <1>3

LEMMA ReleaseSameOrNew ==
    ASSUME NEW s, Core(s), NEW k, NEW lag \in Lag
    PROVE  SameOrNew(s, AfterRelease(s, k, lag))
<1> DEFINE t == ReapExpired(s, lag)
           u == IF HoldsToken(t, k) THEN EndLease(t, "released") ELSE t
           w == GrantNext(u, lag)
<1>1. Core(t) /\ SameOrNew(s, t)
  BY ReapSameOrNew
<1>2. AfterRelease(s, k, lag) = w
  BY DEF AfterRelease
<1> HIDE DEF t
<1>3. Core(u) /\ SameOrNew(t, u)
  BY <1>1, EndLeaseSameOrNew, StillSameOrNew DEF TerminalStatus, HoldsToken
<1> HIDE DEF u
<1>4. Core(w) /\ SameOrNew(u, w)
  BY <1>3, GrantSameOrNew
<1> HIDE DEF w
<1>5. SameOrNew(s, u)
  BY <1>1, <1>3, SameOrNewTransitive
<1>. QED  BY <1>1, <1>2, <1>3, <1>4, <1>5, SameOrNewTransitive

LEMMA CancelSameOrNew ==
    ASSUME NEW s, Core(s), NEW r \in Request, NEW k, NEW lag \in Lag
    PROVE  SameOrNew(s, AfterCancel(s, r, k, lag))
<1> DEFINE t == ReapExpired(s, lag)
           E == {e \in t.queue : e.req = r}
           u == IF Queued(t, r) THEN CancelQueued(t, E)
                ELSE IF HoldsRequest(t, r) /\ HoldsToken(t, k) THEN EndLease(t, "cancelled")
                ELSE t
           w == GrantNext(u, lag)
<1>1. Core(t) /\ SameOrNew(s, t)
  BY ReapSameOrNew
<1>2. AfterCancel(s, r, k, lag) \in {w, t}
  BY DEF AfterCancel
<1> HIDE DEF t
<1>3. Core(u) /\ SameOrNew(t, u)
  <2>1. E \in SUBSET t.queue /\ (E = {} \/ \E e \in E : E = {e})
    BY <1>1 DEF Core, OnePlace
  <2> HIDE DEF E
  <2>2. Core(CancelQueued(t, E)) /\ SameOrNew(t, CancelQueued(t, E))
    BY <1>1, <2>1, CancelQueuedKeepsCore, StillSameOrNew
  <2>. QED
    BY <1>1, <2>2, EndLeaseSameOrNew, StillSameOrNew DEF TerminalStatus, HoldsToken
<1> HIDE DEF u
<1>4. Core(w) /\ SameOrNew(u, w)
  BY <1>3, GrantSameOrNew
<1> HIDE DEF w
<1>5. SameOrNew(s, u)
  BY <1>1, <1>3, SameOrNewTransitive
<1>. QED  BY <1>1, <1>2, <1>3, <1>4, <1>5, SameOrNewTransitive

\* A heartbeat prolongs the lease it presents the token of.
LEMMA HeartbeatSameOrNew ==
    ASSUME NEW s, Core(s), NEW k, NEW ttl \in Ttl, NEW lag \in Lag
    PROVE  \/ SameOrNew(s, AfterHeartbeat(s, k, ttl, lag))
           \/ /\ AfterHeartbeat(s, k, ttl, lag).lease.fencing = k
              /\ HoldsToken(s, k) \/ k > s.fencingCounter
<1> DEFINE t == GrantNext(ReapExpired(s, lag), lag)
           l == [t.lease EXCEPT !.left = ttl - lag, !.ttl = ttl]
           u == [t EXCEPT !.lease = l]
<1>1. Core(t) /\ SameOrNew(s, t)
  BY RecoverSameOrNew
<1>2. AfterHeartbeat(s, k, ttl, lag) = IF HoldsToken(t, k) THEN u ELSE t
  BY DEF AfterHeartbeat
<1> HIDE DEF t
<1>3. CASE HoldsToken(t, k)
  <2>1. t.lease \in Lease /\ t \in DeviceState /\ Leased(t) /\ t.lease.fencing = k
    BY <1>1, <1>3, CoreTokens DEF HoldsToken, Core
  <2>2. l.fencing = k
    BY <2>1 DEF Lease
  <2> HIDE DEF l
  <2>3. u.lease.fencing = k
    BY <2>1, <2>2 DEF DeviceState
  <2>4. HoldsToken(s, k) \/ k > s.fencingCounter
    BY <1>1, <2>1 DEF SameOrNew, HoldsToken, Leased
  <2>. QED  BY <1>2, <1>3, <2>3, <2>4
<1>. QED  BY <1>1, <1>2, <1>3

\* A call leaves the lease as it is, or grants another, unless it is the heartbeat of
\* the client that holds it.
LEMMA StepSameOrNew ==
    ASSUME OwnedClients, ClientsNext
    PROVE  \/ SameOrNew(dev, dev')
           \/ ClockTick
           \/ \E c \in Request : /\ pc[c] = "running" /\ HoldsToken(dev, tok[c])
                               /\ dev'.lease.fencing = tok[c]
<1> DEFINE n == NormalizeState(dev)
<1>0. /\ Clients /\ Committed(dev) /\ Core(dev) /\ Core(n) /\ SameOrNew(dev, n)
      /\ n.lease = dev.lease /\ n.fencingCounter = dev.fencingCounter
  <2>1. Core(n) /\ n.lease = dev.lease /\ n.fencingCounter = dev.fencingCounter
    BY Normalized DEF OwnedClients, Clients, Committed, SameClaims
  <2>. QED  BY <2>1, StillSameOrNew DEF OwnedClients, Clients, Committed
<1>1. Core(dev')
  BY <1>0, StepCommits DEF Committed
<1> HIDE DEF n
<1>2. ASSUME dev' = dev PROVE SameOrNew(dev, dev')
  BY <1>0, <1>2, StillSameOrNew
<1>3. ASSUME SameOrNew(n, dev') PROVE SameOrNew(dev, dev')
  BY <1>0, <1>1, <1>3, SameOrNewTransitive
<1>4. ASSUME NEW c \in Request, NEW lag \in Lag, ClientStep(c, lag)
      PROVE  \/ SameOrNew(dev, dev')
             \/ pc[c] = "running" /\ HoldsToken(dev, tok[c]) /\ dev'.lease.fencing = tok[c]
  <2>1. CASE Ask(c, lag) \/ Redeliver(c, lag)
    BY <1>0, <1>3, <2>1, StoryAndTtl, AcquireSameOrNew DEF Ask, Redeliver, Acquire, n
  <2>2. CASE CloseStory(c, lag) \/ Withdraw(c, lag)
    BY <1>0, <1>3, <2>2, CancelSameOrNew DEF CloseStory, Withdraw, Cancel, n
  <2>3. CASE GiveBack(c, lag)
    BY <1>0, <1>3, <2>3, ReleaseSameOrNew DEF GiveBack, Release, n
  <2>4. CASE Persist(c) \/ Finish(c) \/ BlockUnasked(c)
    <3>1. dev' = dev
      BY <2>4 DEF Persist, Finish, BlockUnasked
    <3>. QED  BY <1>2, <3>1
  <2>5. CASE Beat(c, lag)
    <3>1. /\ pc[c] = "running" /\ dev' = AfterHeartbeat(n, tok[c], LeaseTtl, lag)
          /\ ~(tok[c] > n.fencingCounter)
      BY <1>0, <2>5, CoreTokens DEF Beat, Heartbeat, n, Clients, TokensIssued
    <3>2. HoldsToken(n, tok[c]) => HoldsToken(dev, tok[c])
      BY <1>0 DEF HoldsToken, Leased
    <3>. QED  BY <1>0, <1>3, <3>1, <3>2, StoryAndTtl, HeartbeatSameOrNew
  <2>. QED  BY <1>4, <2>1, <2>2, <2>3, <2>4, <2>5 DEF ClientStep
<1>5. ASSUME NEW lag \in Lag, Poll(lag) PROVE SameOrNew(dev, dev')
  BY <1>0, <1>3, <1>5, RecoverSameOrNew DEF Poll, RecoverExpired, AfterRecover, n
<1>6. CASE \/ \E s \in Story : DrainNothing(s)
           \/ Sweep
           \/ \E C \in SUBSET Request, W \in SUBSET wake : Crash(C, W)
  <2>1. dev' = dev
    BY <1>6 DEF DrainNothing, Sweep, Crash
  <2>. QED  BY <1>2, <2>1
<1>. QED  BY <1>4, <1>5, <1>6 DEF ClientsNext

\* A lease is prolonged only by the client that operates under it, however many
\* clients were granted the device after they had gone or had been refused
\* (runImmediateDeviceOperation withdraws without the lease it may have got).
THEOREM LeasesRunOut == ClientsSpec => RenewedByItsOperator
<1> DEFINE Step == Leased(dev) /\ HoldsToken(dev', dev.lease.fencing)
                     /\ dev'.lease.left > dev.lease.left
                   => /\ pc[dev.lease.req] = "running"
                      /\ tok[dev.lease.req] = dev.lease.fencing
<1>1. ASSUME OwnedClients, ClientsNext PROVE Step
  <2> SUFFICES ASSUME Leased(dev), HoldsToken(dev', dev.lease.fencing),
                      dev'.lease.left > dev.lease.left
               PROVE  /\ pc[dev.lease.req] = "running"
                      /\ tok[dev.lease.req] = dev.lease.fencing
    OBVIOUS
  <2>1. /\ Core(dev) /\ dev.lease \in Lease /\ dev.lease.left \in Int
        /\ dev.lease.fencing = dev.fencingCounter /\ dev.lease.fencing \in Nat
    BY <1>1, CoreTokens DEF OwnedClients, Clients, Committed, Core, Tokens, Lease
  <2>2. ~SameOrNew(dev, dev')
    BY <2>1 DEF SameOrNew, HoldsToken
  <2>3. ~ClockTick
    <3>1. SUFFICES ASSUME ClockTick PROVE FALSE
      OBVIOUS
    <3>2. CASE UNCHANGED dev
      BY <2>1, <3>2
    <3>3. CASE Tick
      <4>1. dev \in DeviceState
        BY <2>1 DEF Core
      <4>2. dev'.lease.left = dev.lease.left - 1
        BY <2>1, <3>3, <4>1 DEF Tick, DeviceState, Lease
      <4>. QED  BY <2>1, <4>2
    <3>. QED  BY <3>1, <3>2, <3>3 DEF ClockTick
  <2>4. PICK c \in Request : /\ pc[c] = "running" /\ HoldsToken(dev, tok[c])
                             /\ dev'.lease.fencing = tok[c]
    BY <1>1, <2>2, <2>3, StepSameOrNew
  <2>5. tok[c] # 0
    BY <1>1, <2>4 DEF OwnedClients, Clients, Places
  <2>. QED  BY <1>1, <2>4, <2>5 DEF OwnedClients, TokensOwned, HoldsToken
<1>2. OwnedClients /\ [ClientsNext]_clientVars => [Step]_clientVars
  BY <1>1
<1>. QED  BY <1>2, OwnedInvariance, PTL DEF ClientsSpec, RenewedByItsOperator
=============================================================================
