------------------------ MODULE DeviceRuntimeLineProofs ------------------------
(***************************************************************************)
(* The coordinator implements DeviceLine, for every number of requests and *)
(* stories, as long as its history has room for every request              *)
(* (Remembering); and, whatever the history forgets, a lease is reaped     *)
(* only when it has run out.                                               *)
(*                                                                         *)
(* An operation is again taken apart into the steps it is composed of.     *)
(* Serves(s, t) is what all of them but Enqueue do to the line: claims     *)
(* leave it, and the device passes to one that waited, with a new token.   *)
(***************************************************************************)
EXTENDS DeviceRuntimeLine, DeviceRuntimeProofs

\* The history has room for every request.
Remembering == IsFiniteSet(Request) /\ Cardinality(Request) <= HistoryLimit

\* The claims behind the one in front, and the requests that have left.
Behind(s) == {Claim(e) : e \in s.queue}

Gone(s) == {h.req : h \in s.history}

Serves(s, t) ==
    /\ Behind(t) \subseteq Behind(s)
    /\ Gone(t) = Gone(s) \cup {c.req : c \in Claims(s) \ Claims(t)}
    /\ t.nextSequence = s.nextSequence
    /\ t.fencingCounter >= s.fencingCounter
    /\ Leased(t) => \/ /\ Leased(s)
                       /\ Claim(t.lease) = Claim(s.lease)
                       /\ t.lease.fencing = s.lease.fencing
                    \/ /\ Claim(t.lease) \in Behind(s)
                       /\ t.lease.fencing > s.fencingCounter

-----------------------------------------------------------------------------
(* The history. *)

\* What has room for every request has room for one record of each.
LEMMA NothingForgotten ==
    ASSUME Remembering, NEW H \in SUBSET HistoryEntry,
           \A h, k \in H : h.req = k.req => h = k
    PROVE  Newest(H) = H
<1>1. IsFiniteSet(H) /\ Cardinality(H) <= Cardinality(Request)
  <2> DEFINE f == [h \in H |-> h.req]
  <2>1. f \in Injection(H, Request)
    BY DEF Injection, IsInjective, HistoryEntry
  <2>2. IsFiniteSet(Request)
    BY DEF Remembering
  <2>. QED  BY <2>1, <2>2, FS_Injection
<1>2. ASSUME NEW h \in H
      PROVE  Cardinality({k \in H : k.ord > h.ord}) < HistoryLimit
  <2> DEFINE A == {k \in H : k.ord > h.ord}
  <2>1. h \notin A
    BY DEF HistoryEntry
  <2>2. A \in SUBSET (H \ {h})
    BY <2>1
  <2>3. IsFiniteSet(H \ {h}) /\ Cardinality(H \ {h}) = Cardinality(H) - 1
    BY <1>1, FS_RemoveElement
  <2> HIDE DEF A
  <2>4. Cardinality(A) <= Cardinality(H) - 1 /\ IsFiniteSet(A)
    BY <2>2, <2>3, FS_Subset
  <2>5. /\ Cardinality(A) \in Nat /\ Cardinality(H) \in Nat
        /\ Cardinality(Request) \in Nat /\ HistoryLimit \in Nat
    BY <1>1, <2>4, FS_CardinalityType, DeviceRuntimeAssumption DEF Remembering
  <2>6. Cardinality(A) < HistoryLimit
    BY <1>1, <2>4, <2>5 DEF Remembering
  <2>. QED  BY <2>6 DEF A
<1>. QED  BY <1>2 DEF Newest

\* The claims of a record have tickets, and the queue's are above the holder's.
LEMMA Tickets ==
    ASSUME NEW s, Core(s)
    PROVE  /\ \A c \in Behind(s) : c.ticket \in Nat
           /\ Leased(s) => /\ s.lease.seq \in Nat
                           /\ Claim(s.lease) \notin Behind(s)
                           /\ \A c \in Behind(s) : s.lease.seq < c.ticket
<1>1. s.queue \subseteq QueueEntry /\ (Leased(s) => s.lease \in Lease)
  BY DEF Core, DeviceState, Leased
<1>2. \A e \in s.queue : e.seq \in Nat
  BY <1>1 DEF QueueEntry
<1>3. Leased(s) => s.lease.seq \in Nat
  BY <1>1 DEF Lease
<1>4. ASSUME NEW c \in Behind(s)
      PROVE  c.ticket \in Nat /\ (Leased(s) => s.lease.seq < c.ticket)
  BY <1>2 DEF Core, InOrder, Behind, Claim
<1>5. Leased(s) => Claim(s.lease).ticket = s.lease.seq
  BY DEF Claim
<1>. QED  BY <1>3, <1>4, <1>5

-----------------------------------------------------------------------------
(* What each step does to the line. *)

\* Nothing, if the claims, the tokens and who has left are the same.
LEMMA SameLine ==
    ASSUME NEW s, NEW t, Core(s),
           t.queue = s.queue, Gone(t) = Gone(s), t.nextSequence = s.nextSequence,
           t.fencingCounter = s.fencingCounter,
           Leased(t) <=> Leased(s),
           Leased(t) => /\ Claim(t.lease) = Claim(s.lease)
                        /\ t.lease.fencing = s.lease.fencing
    PROVE  Serves(s, t)
<1>1. Claims(t) = Claims(s) /\ Behind(t) = Behind(s)
  BY DEF Claims, HolderClaim, Behind
<1>2. s.fencingCounter \in Nat
  BY CoreTokens
<1>. QED  BY <1>1, <1>2 DEF Serves

LEMMA ServesTransitive ==
    ASSUME NEW s, NEW t, NEW u, Core(s), Core(t), Core(u), Serves(s, t), Serves(t, u)
    PROVE  Serves(s, u)
<1>1. /\ s.fencingCounter \in Nat /\ t.fencingCounter \in Nat /\ u.fencingCounter \in Nat
      /\ Leased(u) => u.lease.fencing \in Nat
  BY CoreTokens
<1>2. Claims(t) \subseteq Claims(s) /\ Claims(u) \subseteq Claims(t)
  BY DEF Serves, Claims, HolderClaim, Behind
<1>3. Gone(u) = Gone(s) \cup {c.req : c \in Claims(s) \ Claims(u)}
  <2>1. Claims(s) \ Claims(u) = (Claims(s) \ Claims(t)) \cup (Claims(t) \ Claims(u))
    BY <1>2
  <2>. QED  BY <2>1 DEF Serves
<1>4. Leased(u) => \/ /\ Leased(s)
                      /\ Claim(u.lease) = Claim(s.lease)
                      /\ u.lease.fencing = s.lease.fencing
                   \/ /\ Claim(u.lease) \in Behind(s)
                      /\ u.lease.fencing > s.fencingCounter
  BY <1>1 DEF Serves
<1>. QED  BY <1>1, <1>3, <1>4 DEF Serves

LEMMA NormalizedServes ==
    ASSUME Remembering, NEW s, Core(s)
    PROVE  Core(NormalizeState(s)) /\ Serves(s, NormalizeState(s))
<1>1. s.history \subseteq HistoryEntry /\ \A h, k \in s.history : h.req = k.req => h = k
  BY DEF Core, DeviceState, OnePlace
<1>2. NormalizeState(s).history = s.history
  <2>1. NormalizeState(s).history = Newest(s.history)
    BY DEF NormalizeState, Core, DeviceState
  <2>. QED  BY <1>1, <2>1, NothingForgotten
<1>3. Core(NormalizeState(s)) /\ SameClaims(s, NormalizeState(s))
  BY Normalized
<1>. QED  BY <1>2, <1>3, SameLine DEF SameClaims, Leased, Gone

\* The claim in front leaves.
LEMMA EndLeaseServes ==
    ASSUME Remembering, NEW s, Core(s), Leased(s), NEW status \in TerminalStatus
    PROVE  Serves(s, EndLease(s, status))
<1> DEFINE rec == Terminal(s, s.lease, s.lease.fencing, status, 1)
           old == {h \in s.history : \A k \in {rec} : h.req # k.req}
           t == EndLease(s, status)
<1>1. /\ Core(t) /\ ~Leased(t)
      /\ t.queue = s.queue
      /\ t.fencingCounter = s.fencingCounter /\ t.nextSequence = s.nextSequence
  BY EndLeaseKeepsCore
<1>2. s \in DeviceState /\ s.lease \in Lease /\ s.fencingCounter \in Nat
  BY DEF Core, DeviceState, Leased
<1>3. rec \in HistoryEntry /\ rec.req = s.lease.req
  BY <1>2 DEF Terminal, HistoryEntry, DeviceState, Lease, TerminalStatus
<1>4. t.history = Newest(old \cup {rec})
  BY <1>2 DEF EndLease, PushHistory, DeviceState
<1>5. old = s.history
  BY <1>3 DEF Core, OnePlace
<1> HIDE DEF rec, old, t
<1>6. s.history \cup {rec} \in SUBSET HistoryEntry
  BY <1>2, <1>3 DEF DeviceState
<1>7. \A h, k \in s.history \cup {rec} : h.req = k.req => h = k
  BY <1>3 DEF Core, OnePlace
<1>8. t.history = s.history \cup {rec}
  BY <1>4, <1>5, <1>6, <1>7, NothingForgotten
<1>9. Gone(t) = Gone(s) \cup {s.lease.req}
  BY <1>3, <1>8 DEF Gone
<1>10. Claims(s) \ Claims(t) = {Claim(s.lease)} /\ Behind(t) = Behind(s)
  BY <1>1, Tickets DEF Claims, HolderClaim, Behind
<1>11. {c.req : c \in Claims(s) \ Claims(t)} = {s.lease.req}
  <2>1. Claim(s.lease).req = s.lease.req
    BY DEF Claim
  <2>. QED  BY <1>10, <2>1
<1>12. Serves(s, t)
  BY <1>1, <1>2, <1>9, <1>10, <1>11 DEF Serves
<1>. QED  BY <1>12 DEF t

\* At most one claim leaves from behind.
LEMMA CancelQueuedServes ==
    ASSUME Remembering, NEW s, Core(s), NEW E \in SUBSET s.queue,
           E = {} \/ \E e \in E : E = {e}
    PROVE  Serves(s, CancelQueued(s, E))
<1> DEFINE rank(e) == Cardinality({f \in E : f.seq <= e.seq})
           recs == {Terminal(s, e, 0, "cancelled", rank(e)) : e \in E}
           old == {h \in s.history : \A k \in recs : h.req # k.req}
           t == CancelQueued(s, E)
<1>1. /\ Core(t)
      /\ t.queue = s.queue \ E /\ t.lease = s.lease
      /\ t.fencingCounter = s.fencingCounter /\ t.nextSequence = s.nextSequence
  BY CancelQueuedKeepsCore
<1>2. s \in DeviceState /\ s.fencingCounter \in Nat
  BY DEF Core, DeviceState
<1>3. /\ \A k \in recs : \E e \in E : k.req = e.req
      /\ \A e \in E : \E k \in recs : k.req = e.req
  <2>1. \A e \in E : Terminal(s, e, 0, "cancelled", rank(e)).req = e.req
    BY DEF Terminal
  <2>. QED  BY <2>1
<1>4. t.history = Newest(old \cup recs)
  BY <1>2 DEF CancelQueued, PushHistory, DeviceState
<1>5. old = s.history
  <2>. HIDE DEF recs
  <2>1. ASSUME NEW h \in s.history, NEW k \in recs PROVE h.req # k.req
    BY <1>3 DEF Core, OnePlace
  <2>. QED  BY <2>1
<1>6. old \cup recs \in SUBSET HistoryEntry /\ \A k, l \in recs : k = l
  <2>1. CASE E = {}
    BY <1>2, <2>1 DEF DeviceState
  <2>2. ASSUME NEW e \in E, E = {e}
        PROVE  old \cup recs \in SUBSET HistoryEntry /\ \A k, l \in recs : k = l
    <3>1. {f \in E : f.seq <= e.seq} \subseteq {e}
      BY <2>2
    <3>2. rank(e) \in Nat
      BY <3>1, FS_Singleton, FS_Subset, FS_CardinalityType
    <3>3. recs = {Terminal(s, e, 0, "cancelled", rank(e))}
      BY <2>2
    <3> HIDE DEF rank
    <3>4. Terminal(s, e, 0, "cancelled", rank(e)) \in HistoryEntry
      BY <1>2, <3>2 DEF Terminal, HistoryEntry, QueueEntry, TerminalStatus, DeviceState
    <3>. QED  BY <1>2, <3>3, <3>4 DEF DeviceState
  <2>. QED  BY <2>1, <2>2
<1> HIDE DEF recs, old, t
<1>7. \A h, k \in old \cup recs : h.req = k.req => h = k
  BY <1>3, <1>5, <1>6 DEF Core, OnePlace
<1>8. t.history = s.history \cup recs
  BY <1>4, <1>5, <1>6, <1>7, NothingForgotten
<1>9. Gone(t) = Gone(s) \cup {e.req : e \in E}
  BY <1>3, <1>8 DEF Gone
<1>10. {c.req : c \in Claims(s) \ Claims(t)} = {e.req : e \in E}
  <2>1. Leased(t) <=> Leased(s)
    BY <1>1 DEF Leased
  <2>2. \A e, f \in s.queue : Claim(e) = Claim(f) => e = f
    BY DEF Core, OnePlace, Claim
  <2>3. \A e \in s.queue : Leased(s) => Claim(e) # Claim(s.lease)
    BY Tickets DEF Behind
  <2>4. Claims(s) \ Claims(t) = {Claim(e) : e \in E}
    BY <1>1, <2>1, <2>2, <2>3 DEF Claims, HolderClaim
  <2>5. \A e \in E : Claim(e).req = e.req
    BY DEF Claim
  <2>. QED  BY <2>4, <2>5
<1>11. Behind(t) \subseteq Behind(s)
  BY <1>1 DEF Behind
<1>12. Serves(s, t)
  BY <1>1, <1>2, <1>9, <1>10, <1>11 DEF Serves, Leased
<1>. QED  BY <1>12 DEF t

\* The device passes to a claim that waited, or to nobody.
LEMMA GrantServes ==
    ASSUME NEW s, Core(s), NEW lag \in Lag
    PROVE  /\ Serves(s, GrantNext(s, lag))
           /\ Claims(GrantNext(s, lag)) = Claims(s)
           /\ ~Leased(GrantNext(s, lag)) => GrantNext(s, lag) = s
<1> DEFINE t == GrantNext(s, lag)
<1>1. s \in DeviceState /\ s.fencingCounter \in Nat
  BY DEF Core, DeviceState
<1>2. CASE Leased(s) \/ s.queue = {}
  <2>1. t = s
    BY <1>2 DEF GrantNext
  <2>. QED  BY <2>1, SameLine
<1>3. CASE ~Leased(s) /\ s.queue # {}
  <2> DEFINE e == QueueHead(s)
  <2>1. e \in s.queue
    BY <1>1, <1>3, QueueHeadFirst DEF DeviceState
  <2>2. t = [s EXCEPT !.lease = [req |-> e.req, story |-> e.story, seq |-> e.seq,
                                 ttl |-> e.ttl, fencing |-> s.fencingCounter + 1,
                                 left |-> e.ttl - lag],
                      !.queue = @ \ {e},
                      !.fencingCounter = @ + 1]
    BY <1>3 DEF GrantNext
  <2> HIDE DEF e
  <2>3. /\ t.lease.req = e.req /\ t.lease.seq = e.seq
        /\ t.lease.fencing = s.fencingCounter + 1
        /\ t.queue = s.queue \ {e} /\ t.history = s.history
        /\ t.nextSequence = s.nextSequence
        /\ t.fencingCounter = s.fencingCounter + 1
    BY <1>1, <2>2 DEF DeviceState
  <2>4. Leased(t)
    <3>1. t = s \/ Leased(t)
      BY GrantKeepsCore
    <3>. QED  BY <1>1, <2>3, <3>1
  <2> HIDE DEF t
  <2>5. Claim(t.lease) = Claim(e)
    BY <2>3 DEF Claim
  <2>6. Behind(s) = Behind(t) \cup {Claim(e)}
    BY <2>1, <2>3 DEF Behind
  <2>7. Claims(t) = Claims(s)
    BY <1>3, <2>4, <2>5, <2>6 DEF Claims, HolderClaim, Behind
  <2>8. Serves(s, t)
    BY <1>1, <2>3, <2>5, <2>6, <2>7 DEF Serves, Gone
  <2>. QED  BY <2>4, <2>7, <2>8 DEF t
<1>. QED  BY <1>2, <1>3

\* A lease that runs out leaves.
LEMMA ReapServes ==
    ASSUME Remembering, NEW s, Core(s), NEW lag \in Lag
    PROVE  Serves(s, ReapExpired(s, lag)) /\ Core(ReapExpired(s, lag))
<1>1. "expired" \in TerminalStatus
  BY DEF TerminalStatus
<1>2. CASE Expired(s, lag)
  BY <1>1, <1>2, EndLeaseServes, ReapKeepsCore DEF ReapExpired, Expired
<1>3. CASE ~Expired(s, lag)
  BY <1>3, SameLine DEF ReapExpired
<1>. QED  BY <1>2, <1>3

\* The tokens issued stay below the counter unless the device is handed on.
Passed(s, t) == ~Leased(t) => t.fencingCounter = s.fencingCounter

\* What an operation does to a committed record when nobody joins.
Settles(s, t) == Committed(t) /\ Serves(s, t) /\ Passed(s, t)

\* What precedes a grant ends nothing that the grant does not make good.
LEMMA GrantSettles ==
    ASSUME NEW s, NEW t, Core(s), Core(t), Serves(s, t),
           t.fencingCounter = s.fencingCounter, NEW lag \in Lag
    PROVE  Settles(s, GrantNext(t, lag))
<1> DEFINE u == GrantNext(t, lag)
<1>1. Committed(u) /\ Serves(t, u) /\ (~Leased(u) => u = t)
  BY GrantAdvances, GrantServes
<1> HIDE DEF u
<1>2. Serves(s, u)
  BY <1>1, ServesTransitive DEF Committed
<1>. QED  BY <1>1, <1>2 DEF Settles, Passed, u

LEMMA RecoverSettles ==
    ASSUME Remembering, NEW s, Core(s), NEW lag \in Lag
    PROVE  Settles(s, AfterRecover(s, lag))
<1> DEFINE t == ReapExpired(s, lag)
<1>1. Core(t) /\ Serves(s, t) /\ t.fencingCounter = s.fencingCounter
  BY ReapServes, ReapKeepsCore
<1> HIDE DEF t
<1>2. Settles(s, GrantNext(t, lag))
  BY <1>1, GrantSettles
<1>. QED  BY <1>2 DEF AfterRecover, t

LEMMA ReleaseSettles ==
    ASSUME Remembering, NEW s, Core(s), NEW tok, NEW lag \in Lag
    PROVE  Settles(s, AfterRelease(s, tok, lag))
<1> DEFINE t == ReapExpired(s, lag)
           u == IF HoldsToken(t, tok) THEN EndLease(t, "released") ELSE t
<1>1. Core(t) /\ Serves(s, t) /\ t.fencingCounter = s.fencingCounter
  BY ReapServes, ReapKeepsCore
<1>2. AfterRelease(s, tok, lag) = GrantNext(u, lag)
  BY DEF AfterRelease
<1> HIDE DEF t
<1>3. Core(u) /\ Serves(s, u) /\ u.fencingCounter = s.fencingCounter
  <2>1. CASE HoldsToken(t, tok)
    <3>1. "released" \in TerminalStatus /\ Leased(t)
      BY <2>1 DEF TerminalStatus, HoldsToken
    <3>2. /\ Core(EndLease(t, "released")) /\ Serves(t, EndLease(t, "released"))
          /\ EndLease(t, "released").fencingCounter = t.fencingCounter
      BY <1>1, <3>1, EndLeaseKeepsCore, EndLeaseServes
    <3>. QED  BY <1>1, <2>1, <3>2, ServesTransitive
  <2>2. CASE ~HoldsToken(t, tok)
    BY <1>1, <2>2
  <2>. QED  BY <2>1, <2>2
<1> HIDE DEF u
<1>. QED  BY <1>2, <1>3, GrantSettles

LEMMA CancelSettles ==
    ASSUME Remembering, NEW s, Committed(s), NEW r \in Request, NEW tok, NEW lag \in Lag
    PROVE  Settles(s, AfterCancel(s, r, tok, lag))
<1> DEFINE t == ReapExpired(s, lag)
           E == {e \in t.queue : e.req = r}
           u == CancelQueued(t, E)
           w == AfterCancel(s, r, tok, lag)
<1>1. Core(s) /\ Core(t) /\ Serves(s, t) /\ t.fencingCounter = s.fencingCounter
  BY ReapServes, ReapKeepsCore DEF Committed
<1>2. w = IF Queued(t, r) THEN GrantNext(u, lag)
          ELSE IF HoldsRequest(t, r)
          THEN IF HoldsToken(t, tok) THEN GrantNext(EndLease(t, "cancelled"), lag) ELSE t
          ELSE GrantNext(t, lag)
  BY DEF AfterCancel
<1> HIDE DEF t, w
<1>3. CASE Queued(t, r)
  <2>1. E \in SUBSET t.queue /\ (E = {} \/ \E e \in E : E = {e})
    BY <1>1 DEF Core, OnePlace
  <2> HIDE DEF E
  <2>2. Core(u) /\ Serves(t, u) /\ u.fencingCounter = t.fencingCounter
    BY <1>1, <2>1, CancelQueuedKeepsCore, CancelQueuedServes
  <2> HIDE DEF u
  <2>3. Serves(s, u)
    BY <1>1, <2>2, ServesTransitive
  <2>. QED  BY <1>1, <1>2, <1>3, <2>2, <2>3, GrantSettles DEF w
<1>4. CASE ~Queued(t, r) /\ HoldsRequest(t, r) /\ HoldsToken(t, tok)
  <2>1. "cancelled" \in TerminalStatus /\ Leased(t)
    BY <1>4 DEF TerminalStatus, HoldsToken
  <2> DEFINE v == EndLease(t, "cancelled")
  <2>2. Core(v) /\ Serves(t, v) /\ v.fencingCounter = t.fencingCounter
    BY <1>1, <2>1, EndLeaseKeepsCore, EndLeaseServes
  <2>3. w = GrantNext(v, lag)
    BY <1>2, <1>4
  <2> HIDE DEF v
  <2>4. Serves(s, v)
    BY <1>1, <2>2, ServesTransitive
  <2>. QED  BY <1>1, <2>2, <2>3, <2>4, GrantSettles DEF w
<1>5. CASE ~Queued(t, r) /\ HoldsRequest(t, r) /\ ~HoldsToken(t, tok)
  <2>1. w = t /\ Leased(t)
    BY <1>2, <1>5 DEF HoldsRequest
  <2>2. Settles(s, w)
    BY <1>1, <2>1 DEF Settles, Passed, Committed, Conserving
  <2>. QED  BY <2>2 DEF w
<1>6. CASE ~Queued(t, r) /\ ~HoldsRequest(t, r)
  BY <1>1, <1>2, <1>6, GrantSettles DEF w
<1>. QED  BY <1>3, <1>4, <1>5, <1>6

LEMMA HeartbeatSettles ==
    ASSUME Remembering, NEW s, Core(s), NEW tok, NEW ttl \in Ttl, NEW lag \in Lag
    PROVE  Settles(s, AfterHeartbeat(s, tok, ttl, lag))
<1> DEFINE t == GrantNext(ReapExpired(s, lag), lag)
           l == [t.lease EXCEPT !.left = ttl - lag, !.ttl = ttl]
           u == [t EXCEPT !.lease = l]
           w == AfterHeartbeat(s, tok, ttl, lag)
<1>1. Settles(s, t)
  BY RecoverSettles DEF AfterRecover
<1>2. w = IF HoldsToken(t, tok) THEN u ELSE t
  BY DEF AfterHeartbeat
<1>3. Committed(w)
  BY HeartbeatCommits
<1> HIDE DEF t, w
<1>4. CASE HoldsToken(t, tok)
  <2>1. Leased(t) /\ t.lease \in Lease /\ t \in DeviceState
    BY <1>1, <1>4, CoreTokens DEF Settles, Committed, HoldsToken, Core
  <2>2. /\ l.req = t.lease.req /\ l.seq = t.lease.seq /\ l.fencing = t.lease.fencing
    BY <2>1 DEF Lease
  <2> HIDE DEF l
  <2>3. /\ w.lease = l /\ w.queue = t.queue /\ w.history = t.history
        /\ w.nextSequence = t.nextSequence /\ w.fencingCounter = t.fencingCounter
    BY <1>2, <1>4, <2>1 DEF DeviceState
  <2>4. Leased(w)
    <3>1. ttl - lag \in Int
      BY DeviceRuntimeAssumption DEF Lag
    <3>2. l \in Lease
      BY <2>1, <3>1 DEF Lease, l
    <3>. QED  BY <2>3, <3>2, DeviceRuntimeAssumption DEF Leased
  <2>5. Serves(t, w)
    BY <1>1, <2>1, <2>2, <2>3, <2>4, SameLine DEF Settles, Committed, Claim, Gone
  <2>6. Serves(s, w)
    BY <1>1, <1>3, <2>5, ServesTransitive DEF Settles, Committed
  <2>. QED  BY <1>3, <2>4, <2>6 DEF Settles, Passed, w
<1>5. CASE ~HoldsToken(t, tok)
  BY <1>1, <1>2, <1>5 DEF w
<1>. QED  BY <1>4, <1>5

\* A story's former claim leaves.
LEMMA EvictServes ==
    ASSUME Remembering, NEW s, Core(s), NEW r \in Request, NEW story \in Story,
           ~Known(s, r)
    PROVE  Serves(s, EvictByStoryId(s, story, r))
<1> DEFINE u == EvictLease(s, story, r)
           E == {e \in u.queue : e.story = story /\ e.req # r}
           t == CancelQueued(u, E)
<1>1. t = EvictByStoryId(s, story, r)
  BY DEF EvictByStoryId
<1>2. Core(u) /\ Serves(s, u)
  <2>1. CASE Leased(s) /\ s.lease.story = story /\ s.lease.req # r
    <3>1. "released" \in TerminalStatus /\ u = EndLease(s, "released")
      BY <2>1 DEF TerminalStatus, EvictLease
    <3>. QED  BY <2>1, <3>1, EndLeaseKeepsCore, EndLeaseServes
  <2>2. CASE ~(Leased(s) /\ s.lease.story = story /\ s.lease.req # r)
    <3>1. u = s
      BY <2>2 DEF EvictLease
    <3>. QED  BY <3>1, SameLine
  <2>. QED  BY <2>1, <2>2
<1> HIDE DEF u
<1>3. E \in SUBSET u.queue /\ (E = {} \/ \E e \in E : E = {e})
  BY <1>2 DEF Core, OneClaim
<1> HIDE DEF E
<1>4. Core(t) /\ Serves(u, t)
  BY <1>2, <1>3, CancelQueuedKeepsCore, CancelQueuedServes
<1>. QED  BY <1>1, <1>2, <1>4, ServesTransitive

\* The claim of a request that is new to the record.
Newcomer(s, r) == [req |-> r, ticket |-> s.nextSequence]

\* What an operation does to a committed record when a request joins.
Joined(s, t, r) ==
    /\ Committed(t) /\ Leased(t)
    /\ r \notin Gone(s) /\ \A c \in Claims(s) : c.req # r
    /\ \E out \in SUBSET Claims(s) :
          /\ Claims(t) = (Claims(s) \ out) \cup {Newcomer(s, r)}
          /\ Gone(t) = Gone(s) \cup {c.req : c \in out}
    /\ t.nextSequence = s.nextSequence + 1
    /\ \/ HolderClaim(t) = HolderClaim(s) /\ t.fencingCounter = s.fencingCounter
       \/ HolderClaim(t) # HolderClaim(s) /\ t.fencingCounter > s.fencingCounter

\* A request joins at the end, and the device passes to it if it is free.
LEMMA EnqueueJoins ==
    ASSUME NEW s, NEW u, Core(s), Core(u), Serves(s, u),
           NEW r \in Request, NEW story \in Story, NEW ttl \in Ttl, NEW lag \in Lag,
           ~Known(u, r), \A e \in u.queue : e.story # story,
           Leased(u) => u.lease.story # story
    PROVE  Joined(s, GrantNext(Enqueue(u, r, story, ttl), lag), r)
<1> DEFINE e == [req |-> r, story |-> story, seq |-> u.nextSequence, ttl |-> ttl]
           v == Enqueue(u, r, story, ttl)
           w == GrantNext(v, lag)
           new == Newcomer(s, r)
           out == Claims(s) \ Claims(u)
<1>1. Core(v) /\ v.lease = u.lease /\ v.fencingCounter = u.fencingCounter
  BY EnqueueKeepsCore
<1>2. /\ u.nextSequence = s.nextSequence /\ s.nextSequence \in Nat
      /\ s.fencingCounter \in Nat /\ u.fencingCounter \in Nat
  BY DEF Serves, Core, DeviceState
<1>3. /\ v.queue = u.queue \cup {e} /\ v.history = u.history
      /\ v.nextSequence = u.nextSequence + 1
  BY DEF Enqueue, Core, DeviceState
<1>4. Claim(e) = new
  BY <1>2 DEF Claim, Newcomer
<1> HIDE DEF e, v, new
<1>5. Behind(v) = Behind(u) \cup {new} /\ Gone(v) = Gone(u)
  BY <1>3, <1>4 DEF Behind, Gone
<1>6. Claims(v) = Claims(u) \cup {new}
  BY <1>1, <1>5 DEF Claims, HolderClaim, Behind, Leased
<1>7. Committed(w) /\ Serves(v, w) /\ Claims(w) = Claims(v) /\ Leased(w)
  <2>1. ~Leased(w) => w = v
    BY <1>1, GrantServes
  <2>2. Committed(w)
    BY <1>1, GrantAdvances
  <2>3. v.queue # {}
    BY <1>3
  <2>. QED  BY <1>1, <2>1, <2>2, <2>3, GrantServes DEF Committed, Conserving
<1> HIDE DEF w
<1>8. Claims(u) \subseteq Claims(s)
  BY DEF Serves, Claims, HolderClaim, Behind
<1>9. Claims(w) = (Claims(s) \ out) \cup {new}
  BY <1>6, <1>7, <1>8
<1>10. Gone(w) = Gone(s) \cup {c.req : c \in out}
  BY <1>5, <1>7 DEF Serves
<1>11. r \notin Gone(u) /\ \A c \in Claims(u) : c.req # r
  <2>1. r \notin Gone(u)
    BY DEF Known, Ended, Gone
  <2>2. \A f \in u.queue : Claim(f).req # r
    BY DEF Known, Queued, Claim
  <2>3. Leased(u) => Claim(u.lease).req # r
    BY DEF Known, HoldsRequest, Claim
  <2>. QED  BY <2>1, <2>2, <2>3 DEF Claims, HolderClaim
<1>12. r \notin Gone(s) /\ \A c \in Claims(s) : c.req # r
  BY <1>11 DEF Serves
<1>13. w.nextSequence = s.nextSequence + 1
  BY <1>2, <1>3, <1>7 DEF Serves
<1>14. Leased(s) => Claim(s.lease) \notin Behind(u) \cup {new}
  <2>1. Leased(s) => s.lease.seq < s.nextSequence
    BY DEF Core, InOrder
  <2>2. Leased(s) => Claim(s.lease) \notin Behind(s) /\ s.lease.seq \in Nat
    BY Tickets
  <2>3. new.ticket = s.nextSequence /\ Claim(s.lease).ticket = s.lease.seq
    BY DEF new, Newcomer, Claim
  <2>. QED  BY <1>2, <2>1, <2>2, <2>3 DEF Serves
<1>15. w.fencingCounter = w.lease.fencing /\ w.fencingCounter \in Nat
  BY <1>7, CoreTokens DEF Committed, Core, Tokens
<1>16. \/ HolderClaim(w) = HolderClaim(s) /\ w.fencingCounter = s.fencingCounter
       \/ HolderClaim(w) # HolderClaim(s) /\ w.fencingCounter > s.fencingCounter
  <2>1. HolderClaim(w) = {Claim(w.lease)}
    BY <1>7 DEF HolderClaim
  <2>2. CASE Claim(w.lease) \in Behind(v) /\ w.lease.fencing > v.fencingCounter
    <3>1. w.fencingCounter > s.fencingCounter
      BY <1>1, <1>2, <1>15, <2>2 DEF Serves
    <3>2. HolderClaim(w) # HolderClaim(s)
      BY <1>5, <1>14, <2>1, <2>2 DEF HolderClaim
    <3>. QED  BY <3>1, <3>2
  <2>3. CASE /\ Leased(v) /\ Claim(w.lease) = Claim(v.lease)
             /\ w.lease.fencing = v.lease.fencing
    <3>1. Leased(u) /\ Claim(w.lease) = Claim(u.lease) /\ w.lease.fencing = u.lease.fencing
      BY <1>1, <2>3 DEF Leased
    <3>2. CASE /\ Leased(s) /\ Claim(u.lease) = Claim(s.lease)
               /\ u.lease.fencing = s.lease.fencing
      BY <1>15, <2>1, <3>1, <3>2 DEF HolderClaim, Core, Tokens
    <3>3. CASE Claim(u.lease) \in Behind(s) /\ u.lease.fencing > s.fencingCounter
      <4>1. Leased(s) => Claim(s.lease) \notin Behind(s)
        BY Tickets
      <4>. QED  BY <1>15, <2>1, <3>1, <3>3, <4>1 DEF HolderClaim
    <3>. QED  BY <3>1, <3>2, <3>3 DEF Serves
  <2>. QED  BY <1>7, <2>2, <2>3 DEF Serves
<1>17. Joined(s, w, r)
  BY <1>7, <1>9, <1>10, <1>12, <1>13, <1>16 DEF Joined, new
<1>. QED  BY <1>17 DEF w, v

LEMMA AcquireSettles ==
    ASSUME Remembering, NEW s, Core(s), NEW r \in Request, NEW story \in Story,
           NEW ttl \in Ttl, NEW lag \in Lag
    PROVE  \/ Settles(s, AfterAcquire(s, r, story, ttl, lag))
           \/ Joined(s, AfterAcquire(s, r, story, ttl, lag), r)
<1> DEFINE t == GrantNext(ReapExpired(s, lag), lag)
           u == EvictByStoryId(t, story, r)
           w == GrantNext(Enqueue(u, r, story, ttl), lag)
<1>1. Settles(s, t)
  BY RecoverSettles DEF AfterRecover
<1>2. AfterAcquire(s, r, story, ttl, lag) = IF Known(t, r) THEN t ELSE w
  BY DEF AfterAcquire
<1> HIDE DEF t
<1>3. CASE Known(t, r)
  BY <1>1, <1>2, <1>3
<1>4. CASE ~Known(t, r)
  <2>1. /\ Core(u) /\ ~Known(u, r)
        /\ \A e \in u.queue : e.story # story
        /\ Leased(u) => u.lease.story # story
    BY <1>1, <1>4, EvictKeepsCore DEF Settles, Committed
  <2>2. Serves(t, u)
    BY <1>1, <1>4, EvictServes DEF Settles, Committed
  <2> HIDE DEF u
  <2>3. Serves(s, u)
    BY <1>1, <2>1, <2>2, ServesTransitive DEF Settles, Committed
  <2>4. Joined(s, w, r)
    BY <2>1, <2>3, EnqueueJoins
  <2>. QED  BY <1>2, <1>4, <2>4
<1>. QED  BY <1>3, <1>4

-----------------------------------------------------------------------------
(* The refinement. *)

\* The holder is in front, and nobody is in front of a free device.
LEMMA FrontIsHolder ==
    ASSUME NEW s, Committed(s)
    PROVE  Line!Front(Claims(s)) = HolderClaim(s)
<1>1. CASE Leased(s)
  <2>1. /\ Claims(s) = Behind(s) \cup {Claim(s.lease)}
        /\ HolderClaim(s) = {Claim(s.lease)}
        /\ Claim(s.lease).ticket = s.lease.seq
    BY <1>1 DEF Claims, HolderClaim, Behind, Claim
  <2>2. /\ s.lease.seq \in Nat
        /\ \A c \in Behind(s) : c.ticket \in Nat /\ s.lease.seq < c.ticket
    BY <1>1, Tickets DEF Committed
  <2>. QED  BY <2>1, <2>2 DEF Line!Front
<1>2. CASE ~Leased(s)
  BY <1>2 DEF Committed, Conserving, Claims, HolderClaim, Line!Front
<1>. QED  BY <1>1, <1>2

LEMMA SettlingLeaves ==
    ASSUME Committed(dev), Settles(dev, dev')
    PROVE  Line!Next
<1>0. PICK out \in SUBSET Claims(dev) : out = Claims(dev) \ Claims(dev')
  OBVIOUS
<1>1. /\ Committed(dev') /\ Core(dev) /\ Core(dev')
      /\ Serves(dev, dev') /\ Passed(dev, dev')
  BY DEF Settles, Committed
<1>2. Claims(dev') = Claims(dev) \ out
  BY <1>0, <1>1 DEF Serves, Claims, HolderClaim, Behind
<1>3. Line!Front(Claims(dev')) = HolderClaim(dev')
  BY <1>1, FrontIsHolder
<1>4. IF HolderClaim(dev') \in {HolderClaim(dev), {}}
      THEN dev'.fencingCounter = dev.fencingCounter
      ELSE dev'.fencingCounter > dev.fencingCounter
  <2>1. CASE ~Leased(dev')
    BY <1>1, <2>1 DEF HolderClaim, Passed
  <2>2. CASE Leased(dev')
    <3>1. HolderClaim(dev') = {Claim(dev'.lease)}
      BY <2>2 DEF HolderClaim
    <3>2. dev'.fencingCounter = dev'.lease.fencing
      BY <1>1, <2>2 DEF Core, Tokens
    <3>3. CASE /\ Leased(dev) /\ Claim(dev'.lease) = Claim(dev.lease)
               /\ dev'.lease.fencing = dev.lease.fencing
      BY <1>1, <3>1, <3>2, <3>3 DEF Core, Tokens, HolderClaim
    <3>4. CASE Claim(dev'.lease) \in Behind(dev) /\ dev'.lease.fencing > dev.fencingCounter
      <4>1. Leased(dev) => Claim(dev.lease) \notin Behind(dev)
        BY <1>1, Tickets
      <4>. QED  BY <3>1, <3>2, <3>4, <4>1 DEF HolderClaim
    <3>. QED  BY <1>1, <2>2, <3>3, <3>4 DEF Serves
  <2>. QED  BY <2>1, <2>2
<1>5. Gone(dev') = Gone(dev) \cup Line!InLine(out) /\ dev'.nextSequence = dev.nextSequence
  BY <1>0, <1>1 DEF Serves, Line!InLine
<1>6. Line!Leave(out)
  BY <1>2, <1>3, <1>4, <1>5 DEF Line!Leave, Line!Move, Line!InLine, Gone
<1>. QED  BY <1>6 DEF Line!Next

LEMMA JoiningJoins ==
    ASSUME Committed(dev), NEW r \in Request, Joined(dev, dev', r)
    PROVE  Line!Next
<1>1. PICK out \in SUBSET Claims(dev) :
          /\ Claims(dev') = (Claims(dev) \ out) \cup {Newcomer(dev, r)}
          /\ Gone(dev') = Gone(dev) \cup {c.req : c \in out}
  BY DEF Joined
<1>2. Line!Front(Claims(dev')) = HolderClaim(dev')
  BY FrontIsHolder DEF Joined
<1>3. IF HolderClaim(dev') \in {HolderClaim(dev), {}}
      THEN dev'.fencingCounter = dev.fencingCounter
      ELSE dev'.fencingCounter > dev.fencingCounter
  BY DEF Joined, HolderClaim
<1>4. Line!Move(out, {[req |-> r, ticket |-> dev.nextSequence]})
  BY <1>1, <1>2, <1>3 DEF Line!Move, Line!InLine, Gone, Newcomer
<1>5. r \notin Gone(dev) \cup Line!InLine(Claims(dev))
  BY DEF Joined, Line!InLine
<1>6. Line!Join(r, out)
  BY <1>4, <1>5 DEF Line!Join, Joined, Gone
<1>. QED  BY <1>6 DEF Line!Next

\* Time moves no claim.
LEMMA TickServes ==
    ASSUME Committed(dev), Tick
    PROVE  Settles(dev, dev')
<1> DEFINE l == [dev.lease EXCEPT !.left = dev.lease.left - 1]
<1>1. Committed(dev') /\ Leased(dev) /\ dev' = [dev EXCEPT !.lease = l]
  BY TickCommits DEF Tick
<1>2. dev.lease \in Lease /\ dev \in DeviceState
  BY <1>1, CoreTokens DEF Committed, Core
<1>3. /\ l \in Lease /\ l.req = dev.lease.req /\ l.seq = dev.lease.seq
      /\ l.fencing = dev.lease.fencing
  BY <1>2 DEF Lease
<1> HIDE DEF l
<1>4. /\ dev'.lease = l /\ dev'.queue = dev.queue /\ dev'.history = dev.history
      /\ dev'.nextSequence = dev.nextSequence
      /\ dev'.fencingCounter = dev.fencingCounter
  BY <1>1, <1>2 DEF DeviceState
<1>5. Leased(dev')
  BY <1>3, <1>4, DeviceRuntimeAssumption DEF Leased
<1>6. Serves(dev, dev')
  BY <1>1, <1>3, <1>4, <1>5, SameLine DEF Committed, Claim, Gone
<1>. QED  BY <1>1, <1>4, <1>6 DEF Settles, Passed

\* An operation on the record that was read back is one on the record stored.
LEMMA ReadBack ==
    ASSUME Remembering, NEW s, Committed(s), NEW t, NEW r
    PROVE  /\ Settles(NormalizeState(s), t) => Settles(s, t)
           /\ Joined(NormalizeState(s), t, r) => Joined(s, t, r)
<1> DEFINE n == NormalizeState(s)
<1>1. Core(s) /\ Core(n) /\ Serves(s, n) /\ SameClaims(s, n)
  BY NormalizedServes, Normalized DEF Committed
<1> HIDE DEF n
<1>2. Claims(n) = Claims(s) /\ HolderClaim(n) = HolderClaim(s) /\ Newcomer(n, r) = Newcomer(s, r)
  BY <1>1 DEF SameClaims, Claims, HolderClaim, Leased, Newcomer
<1>3. Gone(n) = Gone(s) /\ n.nextSequence = s.nextSequence /\ n.fencingCounter = s.fencingCounter
  BY <1>1, <1>2 DEF Serves, SameClaims
<1>4. ASSUME Settles(n, t) PROVE Settles(s, t)
  BY <1>1, <1>3, <1>4, ServesTransitive DEF Settles, Committed, Passed
<1>5. ASSUME Joined(n, t, r) PROVE Joined(s, t, r)
  BY <1>2, <1>3, <1>5 DEF Joined
<1>. QED  BY <1>4, <1>5 DEF n

\* Every operation, and time, is a step of the line.
LEMMA NextIsStep ==
    ASSUME Remembering, Committed(dev), Next
    PROVE  \/ Settles(dev, dev')
           \/ \E r \in Request : Joined(dev, dev', r)
<1> DEFINE n == NormalizeState(dev)
<1>1. Committed(n) /\ Core(n)
  BY NormalizedConserves DEF Committed
<1>2. ASSUME NEW r \in Request, NEW story \in Story, NEW ttl \in Ttl, NEW lag \in Lag,
             Acquire(r, story, ttl, lag)
      PROVE  Settles(dev, dev') \/ Joined(dev, dev', r)
  BY <1>1, <1>2, AcquireSettles, ReadBack DEF Acquire
<1>3. ASSUME NEW tok \in IssuedToken, NEW ttl \in Ttl, NEW lag \in Lag,
             Heartbeat(tok, ttl, lag)
      PROVE  Settles(dev, dev')
  BY <1>1, <1>3, HeartbeatSettles, ReadBack DEF Heartbeat
<1>4. ASSUME NEW tok \in IssuedToken, NEW lag \in Lag, Release(tok, lag)
      PROVE  Settles(dev, dev')
  BY <1>1, <1>4, ReleaseSettles, ReadBack DEF Release
<1>5. ASSUME NEW r \in Request, NEW tok \in {0} \cup IssuedToken, NEW lag \in Lag,
             Cancel(r, tok, lag)
      PROVE  Settles(dev, dev')
  BY <1>1, <1>5, CancelSettles, ReadBack DEF Cancel
<1>6. ASSUME NEW lag \in Lag, RecoverExpired(lag)
      PROVE  Settles(dev, dev')
  BY <1>1, <1>6, RecoverSettles, ReadBack DEF RecoverExpired
<1>7. CASE Tick
  BY <1>7, TickServes
<1>. QED  BY <1>2, <1>3, <1>4, <1>5, <1>6, <1>7 DEF Next

\* Every run of the coordinator is a run of the line, if its history has room for
\* every request.
THEOREM LineIsImplemented ==
    ASSUME Remembering
    PROVE  Spec => ImplementsLine
<1>1. Init => Line!Init
  BY DEF Init, InitialState, Line!Init, Claims, HolderClaim, Leased
<1>2. IInv /\ [Next]_dev => [Line!Next]_Line!vars
  <2> SUFFICES ASSUME IInv, [Next]_dev PROVE [Line!Next]_Line!vars
    OBVIOUS
  <2>1. CASE Next
    BY <2>1, NextIsStep, SettlingLeaves, JoiningJoins DEF IInv, Committed
  <2>2. CASE dev' = dev
    BY <2>2 DEF Line!vars
  <2>. QED  BY <2>1, <2>2
<1>. QED  BY <1>1, <1>2, Invariance, PTL DEF Spec, ImplementsLine, Line!Spec

\* A request that has ended is never served again, if the history has room for
\* every request.
THEOREM EndedStaysEnded ==
    ASSUME Remembering
    PROVE  Spec => EndedIsFinal
<1> DEFINE Step == \A h \in dev.history :
                      ~HoldsRequest(dev', h.req) /\ ~Queued(dev', h.req)
<1>1. IInv /\ [Next]_dev => [Step]_dev
  <2> SUFFICES ASSUME IInv, Next PROVE Step
    OBVIOUS
  <2>1. Core(dev') /\ Gone(dev) \subseteq Gone(dev')
    BY NextIsStep DEF IInv, Committed, Settles, Serves, Joined
  <2>. QED  BY <2>1 DEF Core, OnePlace, Gone, HoldsRequest, Queued
<1>. QED  BY <1>1, Invariance, PTL DEF Spec, EndedIsFinal

-----------------------------------------------------------------------------
(* Who is reaped.  This needs no room in the history. *)

\* A step that reaps nobody.
Quiet(s, t) == \A h \in t.history : h.status = "expired" => h \in s.history

\* A step that reaps only a lease that has run out.
Due(s, t) ==
    \A h \in t.history : h.status = "expired" =>
        h \in s.history \/ (HoldsRequest(s, h.req) /\ s.lease.left <= 0)

\* What ends on demand is not reaped.
LEMMA EndLeaseQuiet ==
    ASSUME NEW s, Core(s), NEW status \in TerminalStatus, status # "expired"
    PROVE  Quiet(s, EndLease(s, status))
<1> DEFINE rec == Terminal(s, s.lease, s.lease.fencing, status, 1)
           old == {h \in s.history : \A k \in {rec} : h.req # k.req}
<1>1. EndLease(s, status).history = Newest(old \cup {rec})
  BY DEF EndLease, PushHistory, Core, DeviceState
<1>2. rec.status = status
  BY DEF Terminal
<1>. QED  BY <1>1, <1>2, NewestIsPart DEF Quiet

LEMMA CancelQueuedQuiet ==
    ASSUME NEW s, Core(s), NEW E
    PROVE  Quiet(s, CancelQueued(s, E))
<1> DEFINE rank(e) == Cardinality({f \in E : f.seq <= e.seq})
           recs == {Terminal(s, e, 0, "cancelled", rank(e)) : e \in E}
           old == {h \in s.history : \A k \in recs : h.req # k.req}
<1>0. s \in DeviceState
  BY DEF Core
<1>1. CancelQueued(s, E).history = Newest(old \cup recs)
  BY <1>0 DEF CancelQueued, PushHistory, DeviceState
<1>2. \A k \in recs : k.status = "cancelled"
  <2>1. \A e \in E : Terminal(s, e, 0, "cancelled", rank(e)).status = "cancelled"
    BY DEF Terminal
  <2>. QED  BY <2>1
<1> HIDE DEF recs
<1>. QED  BY <1>1, <1>2, NewestIsPart DEF Quiet

\* Granting and queueing leave the history alone.
LEMMA GrantQuiet ==
    ASSUME NEW s, Core(s), NEW lag
    PROVE  Quiet(s, GrantNext(s, lag))
<1>1. GrantNext(s, lag).history = s.history
  BY DEF GrantNext, Core, DeviceState
<1>. QED  BY <1>1 DEF Quiet

LEMMA EnqueueQuiet ==
    ASSUME NEW s, Core(s), NEW r, NEW story, NEW ttl
    PROVE  Quiet(s, Enqueue(s, r, story, ttl))
<1>1. Enqueue(s, r, story, ttl).history = s.history
  BY DEF Enqueue, Core, DeviceState
<1>. QED  BY <1>1 DEF Quiet

LEMMA EvictQuiet ==
    ASSUME NEW s, Core(s), NEW r, NEW story
    PROVE  Quiet(s, EvictByStoryId(s, story, r))
<1> DEFINE u == EvictLease(s, story, r)
           E == {e \in u.queue : e.story = story /\ e.req # r}
<1>1. Core(u) /\ Quiet(s, u)
  <2>1. "released" \in TerminalStatus
    BY DEF TerminalStatus
  <2>. QED  BY <2>1, EndLeaseKeepsCore, EndLeaseQuiet DEF EvictLease, Quiet
<1>2. EvictByStoryId(s, story, r) = CancelQueued(u, E)
  BY DEF EvictByStoryId
<1> HIDE DEF u, E
<1>. QED  BY <1>1, <1>2, CancelQueuedQuiet DEF Quiet

\* The oldest clock reading that finds a lease expired finds it run out.
LEMMA ReapDue ==
    ASSUME NEW s, Core(s), NEW lag \in Lag
    PROVE  Due(s, ReapExpired(s, lag))
<1>1. CASE Expired(s, lag)
  <2> DEFINE rec == Terminal(s, s.lease, s.lease.fencing, "expired", 1)
             old == {h \in s.history : \A k \in {rec} : h.req # k.req}
  <2>1. ReapExpired(s, lag).history = Newest(old \cup {rec})
    BY <1>1 DEF ReapExpired, EndLease, PushHistory, Core, DeviceState
  <2>2. rec.req = s.lease.req
    BY DEF Terminal
  <2>3. Leased(s) /\ s.lease.left <= 0
    <3>1. Leased(s) /\ s.lease.left \in Int /\ lag \in Nat
      BY <1>1, CoreTokens, DeviceRuntimeAssumption DEF Lag, Expired, Lease
    <3>. QED  BY <1>1, <3>1 DEF Expired
  <2> HIDE DEF rec
  <2>. QED  BY <2>1, <2>2, <2>3, NewestIsPart DEF Due, HoldsRequest
<1>2. CASE ~Expired(s, lag)
  BY <1>2 DEF ReapExpired, Due
<1>. QED  BY <1>1, <1>2

\* Every operation begins with the one step that reaps.
LEMMA OperationsReapWhenDue ==
    ASSUME NEW s, Core(s), NEW lag \in Lag
    PROVE  /\ \A r \in Request, story \in Story, ttl \in Ttl :
                 Due(s, AfterAcquire(s, r, story, ttl, lag))
           /\ \A tok, ttl : Due(s, AfterHeartbeat(s, tok, ttl, lag))
           /\ \A tok : Due(s, AfterRelease(s, tok, lag))
           /\ \A r, tok : Due(s, AfterCancel(s, r, tok, lag))
           /\ Due(s, AfterRecover(s, lag))
<1> DEFINE t == ReapExpired(s, lag)
           v == GrantNext(t, lag)
<1>1. Core(t) /\ Due(s, t)
  BY ReapKeepsCore, ReapDue
<1>2. Core(v) /\ Quiet(t, v)
  BY <1>1, GrantKeepsCore, GrantQuiet
<1>3. \A u : Quiet(t, u) => Due(s, u)
  BY <1>1 DEF Quiet, Due
<1>4. \A u : Quiet(v, u) => Due(s, u)
  BY <1>2, <1>3 DEF Quiet
<1>5. Due(s, v)
  BY <1>2, <1>3
<1>6. \A u : Core(u) /\ Quiet(t, u) => Due(s, GrantNext(u, lag))
  BY <1>3, GrantQuiet DEF Quiet
<1>7. "released" \in TerminalStatus /\ "cancelled" \in TerminalStatus
  BY DEF TerminalStatus
<1>8. ASSUME NEW r \in Request, NEW story \in Story, NEW ttl \in Ttl
      PROVE  Due(s, AfterAcquire(s, r, story, ttl, lag))
  <2> DEFINE u == EvictByStoryId(v, story, r)
             w == Enqueue(u, r, story, ttl)
  <2>1. AfterAcquire(s, r, story, ttl, lag) = IF Known(v, r) THEN v ELSE GrantNext(w, lag)
    BY DEF AfterAcquire
  <2> HIDE DEF v
  <2>2. CASE ~Known(v, r)
    <3>1. /\ Core(u) /\ Quiet(v, u)
          /\ ~Known(u, r) /\ (\A e \in u.queue : e.story # story)
          /\ Leased(u) => u.lease.story # story
      BY <1>2, <2>2, EvictKeepsCore, EvictQuiet
    <3> HIDE DEF u
    <3>2. Core(w) /\ Quiet(u, w)
      BY <3>1, EnqueueKeepsCore, EnqueueQuiet
    <3> HIDE DEF w
    <3>3. Quiet(w, GrantNext(w, lag))
      BY <3>2, GrantQuiet
    <3>4. Quiet(v, GrantNext(w, lag))
      BY <3>1, <3>2, <3>3 DEF Quiet
    <3>. QED  BY <1>4, <2>1, <2>2, <3>4
  <2>. QED  BY <1>5, <2>1, <2>2
<1>9. ASSUME NEW tok, NEW ttl
      PROVE  Due(s, AfterHeartbeat(s, tok, ttl, lag))
  <2> DEFINE w == AfterHeartbeat(s, tok, ttl, lag)
  <2>1. w = IF HoldsToken(v, tok)
            THEN [v EXCEPT !.lease = [@ EXCEPT !.left = ttl - lag, !.ttl = ttl]]
            ELSE v
    BY DEF AfterHeartbeat
  <2> HIDE DEF v, w
  <2>2. w.history = v.history
    BY <1>2, <2>1 DEF Core, DeviceState
  <2>. QED  BY <1>4, <2>2 DEF Quiet, w
<1>10. ASSUME NEW tok
       PROVE  Due(s, AfterRelease(s, tok, lag))
  <2> DEFINE u == IF HoldsToken(t, tok) THEN EndLease(t, "released") ELSE t
  <2>1. AfterRelease(s, tok, lag) = GrantNext(u, lag)
    BY DEF AfterRelease
  <2> HIDE DEF t
  <2>2. Core(u) /\ Quiet(t, u)
    BY <1>1, <1>7, EndLeaseKeepsCore, EndLeaseQuiet DEF HoldsToken, Quiet
  <2> HIDE DEF u
  <2>. QED  BY <1>6, <2>1, <2>2
<1>11. ASSUME NEW r, NEW tok
       PROVE  Due(s, AfterCancel(s, r, tok, lag))
  <2> DEFINE E == {e \in t.queue : e.req = r}
             u == CancelQueued(t, E)
             x == EndLease(t, "cancelled")
             w == AfterCancel(s, r, tok, lag)
  <2>1. w = IF Queued(t, r) THEN GrantNext(u, lag)
            ELSE IF HoldsRequest(t, r)
            THEN IF HoldsToken(t, tok) THEN GrantNext(x, lag) ELSE t
            ELSE GrantNext(t, lag)
    BY DEF AfterCancel
  <2> HIDE DEF w, t
  <2>2. Core(u) /\ Quiet(t, u)
    <3>1. E \in SUBSET t.queue /\ (E = {} \/ \E e \in E : E = {e})
      BY <1>1 DEF Core, OnePlace
    <3> HIDE DEF E
    <3>. QED  BY <1>1, <3>1, CancelQueuedKeepsCore, CancelQueuedQuiet
  <2>3. HoldsRequest(t, r) => Core(x) /\ Quiet(t, x)
    BY <1>1, <1>7, EndLeaseKeepsCore, EndLeaseQuiet DEF HoldsRequest
  <2>4. Quiet(t, t)
    BY DEF Quiet
  <2> HIDE DEF u, x
  <2>5. Due(s, w)
    BY <1>1, <1>6, <2>1, <2>2, <2>3, <2>4
  <2>. QED  BY <2>5 DEF w
<1>. QED  BY <1>5, <1>8, <1>9, <1>10, <1>11 DEF AfterRecover

\* A lease is reaped only when it has run out, however old the clock reading of
\* the operation that finds it and whatever the history forgets.
THEOREM ReapedWhenDue == Spec => TakenOnlyWhenDue
<1> DEFINE Step == \A h \in dev'.history \ dev.history :
                      h.status = "expired" =>
                         HoldsRequest(dev, h.req) /\ dev.lease.left <= 0
           n == NormalizeState(dev)
<1>1. IInv /\ [Next]_dev => [Step]_dev
  <2> SUFFICES ASSUME IInv, Next PROVE Step
    OBVIOUS
  <2>1. /\ Core(dev) /\ Core(n) /\ n.lease = dev.lease /\ n.history \subseteq dev.history
    BY Normalized DEF IInv, SameClaims
  <2>2. Due(n, dev') => Step
    BY <2>1 DEF Due, HoldsRequest, Leased
  <2>3. CASE Tick
    <3>1. dev'.history = dev.history
      BY <2>1, <2>3 DEF Tick, Core, DeviceState
    <3>. QED  BY <3>1
  <2>4. CASE ~Tick
    <3>1. \/ \E r \in Request, story \in Story, ttl \in Ttl, lag \in Lag :
                dev' = AfterAcquire(n, r, story, ttl, lag)
          \/ \E tok \in IssuedToken, ttl \in Ttl, lag \in Lag :
                dev' = AfterHeartbeat(n, tok, ttl, lag)
          \/ \E tok \in IssuedToken, lag \in Lag : dev' = AfterRelease(n, tok, lag)
          \/ \E r \in Request, tok \in {0} \cup IssuedToken, lag \in Lag :
                dev' = AfterCancel(n, r, tok, lag)
          \/ \E lag \in Lag : dev' = AfterRecover(n, lag)
      BY <2>4 DEF Next, Acquire, Heartbeat, Release, Cancel, RecoverExpired
    <3> HIDE DEF n, Step
    <3>2. Due(n, dev')
      BY <2>1, <3>1, OperationsReapWhenDue
    <3>. QED  BY <2>2, <3>2
  <2>. QED  BY <2>3, <2>4
<1>. QED  BY <1>1, Invariance, PTL DEF Spec, TakenOnlyWhenDue

=============================================================================
