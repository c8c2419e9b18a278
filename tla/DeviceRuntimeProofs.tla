-------------------------- MODULE DeviceRuntimeProofs --------------------------
(***************************************************************************)
(* What DeviceRuntime guarantees for every set of requests and stories,    *)
(* every lease lifetime, every clock lag and every history limit.          *)
(*                                                                         *)
(* An operation is a composition of the steps of the coordinator           *)
(* (normalise, reap, evict, enqueue, end, grant), and the record passes    *)
(* through states between them that no transaction commits: after a reap   *)
(* the device may be free while the queue is not empty.  The invariant is  *)
(* therefore split: Core(s) is kept by every step, and only GrantNext,     *)
(* with which every operation ends, restores Conserving(s).                *)
(***************************************************************************)
EXTENDS DeviceRuntime, FiniteSetTheorems, WellFoundedInduction, NaturalsInduction,
        TLAPS

OnePlace(s) ==
    /\ \A e, f \in s.queue : e.req = f.req => e = f
    /\ \A h, k \in s.history : h.req = k.req => h = k
    /\ \A e \in s.queue, h \in s.history : e.req # h.req
    /\ Leased(s) => /\ \A e \in s.queue : e.req # s.lease.req
                    /\ \A h \in s.history : h.req # s.lease.req

OneClaim(s) ==
    /\ \A e, f \in s.queue : e.story = f.story => e = f
    /\ Leased(s) => \A e \in s.queue : e.story # s.lease.story

InOrder(s) ==
    /\ \A e, f \in s.queue : e.seq = f.seq => e = f
    /\ \A e \in s.queue : e.seq < s.nextSequence
    /\ Leased(s) => /\ s.lease.seq < s.nextSequence
                    /\ \A e \in s.queue : s.lease.seq < e.seq

Tokens(s) ==
    /\ Leased(s) => /\ s.lease.fencing = s.fencingCounter
                    /\ s.lease.fencing > 0
                    /\ \A h \in s.history : h.fencing < s.lease.fencing
    /\ \A h, k \in s.history : h.fencing = k.fencing /\ h.fencing > 0 => h = k
    /\ \A h \in s.history : h.fencing <= s.fencingCounter

Core(s) ==
    /\ s \in DeviceState
    /\ OnePlace(s)
    /\ OneClaim(s)
    /\ InOrder(s)
    /\ Tokens(s)

Conserving(s) == ~Leased(s) => s.queue = {}

\* The inductive invariant.
IInv == Core(dev) /\ Conserving(dev)

\* t has the lease, queue and counters of s.
SameClaims(s, t) ==
    /\ t.lease = s.lease
    /\ t.queue = s.queue
    /\ t.fencingCounter = s.fencingCounter
    /\ t.nextSequence = s.nextSequence

-----------------------------------------------------------------------------
(* A set of queue entries that is not empty has a first one. *)
LEMMA QueueHeadFirst ==
    ASSUME NEW s, s.queue \subseteq QueueEntry, s.queue # {}
    PROVE  /\ QueueHead(s) \in s.queue
           /\ \A f \in s.queue : QueueHead(s).seq <= f.seq
<1> DEFINE Seqs == {e.seq : e \in s.queue}
           Less == {ss \in Nat \X Nat : ss[1] < ss[2]}
<1>1. Seqs \subseteq Nat /\ Seqs # {}
  BY DEF QueueEntry
<1>2. IsWellFoundedOn(Less, Nat)
  BY NatLessThanWellFounded, Zenon DEF OpToRel
<1>3. PICK n \in Seqs : \A m \in Seqs : ~ (<<m, n>> \in Less)
  <2> HIDE DEF Less, Seqs
  <2>. QED  BY <1>1, <1>2, WFMin
<1>6. ASSUME NEW m \in Seqs
      PROVE  n <= m
  <2>1. m \in Nat /\ n \in Nat
    BY <1>1
  <2>2. m < n => <<m, n>> \in Less
    <3> HIDE DEF Seqs
    <3>. QED  BY <2>1
  <2>3. ~ (m < n)
    BY <1>3, <2>2
  <2>. QED  BY <2>1, <2>3
<1>4. PICK e \in s.queue : e.seq = n
  OBVIOUS
<1>5. \A f \in s.queue : e.seq <= f.seq
  BY <1>6, <1>4
<1>. QED  BY <1>5 DEF QueueHead

(* The history only ever loses entries by being cut. *)
LEMMA NewestIsPart == ASSUME NEW H PROVE Newest(H) \subseteq H
BY DEF Newest

\* Cutting the history keeps a core a core.
LEMMA CutHistory ==
    ASSUME NEW s, Core(s), NEW H \in SUBSET s.history
    PROVE  Core([s EXCEPT !.history = H])
<1> DEFINE t == [s EXCEPT !.history = H]
<1>1. s \in DeviceState
  BY DEF Core
<1>2. /\ t \in DeviceState
      /\ SameClaims(s, t)
      /\ t.history \subseteq s.history
      /\ Leased(t) <=> Leased(s)
  BY <1>1 DEF DeviceState, SameClaims, Leased
<1> HIDE DEF t
<1>3. OnePlace(t)
  BY <1>2 DEF Core, OnePlace, SameClaims
<1>4. OneClaim(t)
  BY <1>2 DEF Core, OneClaim, SameClaims
<1>5. InOrder(t)
  BY <1>2 DEF Core, InOrder, SameClaims
<1>6. Tokens(t)
  BY <1>2 DEF Core, Tokens, SameClaims
<1>7. Core(t)
  BY <1>2, <1>3, <1>4, <1>5, <1>6 DEF Core
<1>. QED  BY <1>7 DEF t

(* Reading the record back changes nothing but, at most, the history's length. *)
LEMMA Normalized ==
    ASSUME NEW s, Core(s)
    PROVE  /\ Core(NormalizeState(s))
           /\ SameClaims(s, NormalizeState(s))
           /\ NormalizeState(s).history \subseteq s.history
<1>1. s \in DeviceState
  BY DEF Core
<1>2. RaisedTo(s.fencingCounter,
               {h.fencing : h \in s.history}
                  \cup (IF Leased(s) THEN {s.lease.fencing} ELSE {}))
        = s.fencingCounter
  <2>1. \A h \in s.history : ~(h.fencing > s.fencingCounter)
    BY <1>1 DEF Core, Tokens, DeviceState, HistoryEntry
  <2>2. Leased(s) => ~(s.lease.fencing > s.fencingCounter)
    BY <1>1 DEF Core, Tokens, DeviceState
  <2>. QED  BY <2>1, <2>2 DEF RaisedTo
<1>3. RaisedTo(s.nextSequence, {e.seq + 1 : e \in s.queue}) = s.nextSequence
  <2>1. \A e \in s.queue : ~(e.seq + 1 > s.nextSequence)
    BY <1>1 DEF Core, InOrder, DeviceState, QueueEntry
  <2>. QED  BY <2>1 DEF RaisedTo
<1>4. NormalizeState(s) = [s EXCEPT !.history = Newest(s.history)]
  BY <1>1, <1>2, <1>3 DEF NormalizeState, DeviceState
<1>5. Core(NormalizeState(s))
  BY <1>4, NewestIsPart, CutHistory
<1>. QED  BY <1>1, <1>4, <1>5, NewestIsPart DEF SameClaims, DeviceState
-----------------------------------------------------------------------------
(* One lemma per step of the coordinator. *)

(* Ending the lease keeps the core and frees the device. *)
LEMMA EndLeaseKeepsCore ==
    ASSUME NEW s, Core(s), Leased(s), NEW status \in TerminalStatus
    PROVE  /\ Core(EndLease(s, status))
           /\ ~Leased(EndLease(s, status))
           /\ EndLease(s, status).queue = s.queue
           /\ EndLease(s, status).fencingCounter = s.fencingCounter
           /\ EndLease(s, status).nextSequence = s.nextSequence
           /\ \A h \in EndLease(s, status).history :
                 h \in s.history \/ h.req = s.lease.req
<1> DEFINE rec == Terminal(s, s.lease, s.lease.fencing, status, 1)
           old == {h \in s.history : \A k \in {rec} : h.req # k.req}
           H == Newest(old \cup {rec})
           t == EndLease(s, status)
<1>1. s \in DeviceState /\ s.lease \in Lease
  BY DEF Core, DeviceState, Leased
<1>2. /\ rec \in HistoryEntry
      /\ rec.req = s.lease.req
      /\ rec.fencing = s.lease.fencing
  BY <1>1 DEF Terminal, HistoryEntry, DeviceState, Lease, TerminalStatus
<1>3. H \subseteq s.history \cup {rec}
  BY NewestIsPart
<1>4. Cardinality({rec}) = 1
  BY FS_Singleton
<1>5. t = [[s EXCEPT !.history = H, !.pushed = @ + 1] EXCEPT !.lease = None]
  BY <1>4 DEF EndLease, PushHistory
<1> HIDE DEF H, rec
<1>6. /\ t \in DeviceState
      /\ t.lease = None
      /\ t.queue = s.queue
      /\ t.history = H
      /\ t.fencingCounter = s.fencingCounter
      /\ t.nextSequence = s.nextSequence
  <2>1. H \subseteq HistoryEntry
    BY <1>1, <1>2, <1>3 DEF DeviceState
  <2> DEFINE p == s.pushed + 1
  <2>2. p \in Nat
    BY <1>1 DEF DeviceState
  <2> HIDE DEF p
  <2>4. [[s EXCEPT !.history = H, !.pushed = p] EXCEPT !.lease = None] \in DeviceState
    BY <1>1, <2>1, <2>2 DEF DeviceState
  <2>3. t \in DeviceState
    BY <1>5, <2>4 DEF p
  <2>. QED  BY <1>1, <1>5, <2>3 DEF DeviceState
<1> HIDE DEF t
<1>7. ~Leased(t)
  BY <1>6 DEF Leased
<1>8. \A h \in s.history : h.req # rec.req /\ h.fencing < rec.fencing
  BY <1>2 DEF Core, OnePlace, Tokens
<1>9. OnePlace(t)
  BY <1>2, <1>3, <1>6, <1>7, <1>8 DEF Core, OnePlace
<1>10. OneClaim(t)
  BY <1>6, <1>7 DEF Core, OneClaim
<1>11. InOrder(t)
  BY <1>6, <1>7 DEF Core, InOrder
<1>12. Tokens(t)
  <2>1. rec.fencing = s.fencingCounter
    BY <1>2 DEF Core, Tokens
  <2>2. \A h \in s.history : h.fencing \in Nat
    BY <1>1 DEF DeviceState, HistoryEntry
  <2>3. rec.fencing \in Nat
    BY <1>2 DEF HistoryEntry
  <2>4. \A h \in H : h.fencing <= t.fencingCounter
    BY <1>1, <1>3, <1>6, <2>1, <2>3 DEF Core, Tokens, DeviceState
  <2>5. \A h, k \in H : h.fencing = k.fencing /\ h.fencing > 0 => h = k
    BY <1>3, <1>8, <2>2, <2>3 DEF Core, Tokens
  <2>. QED  BY <1>6, <1>7, <2>4, <2>5 DEF Tokens
<1>13. Core(t)
  BY <1>6, <1>9, <1>10, <1>11, <1>12 DEF Core
<1>14. \A h \in t.history : h \in s.history \/ h.req = s.lease.req
  BY <1>2, <1>3, <1>6
<1>. QED  BY <1>6, <1>7, <1>13, <1>14 DEF t

\* Reaping the lease, if it has expired, keeps the core.
LEMMA ReapKeepsCore ==
    ASSUME NEW s, Core(s), NEW lag \in Lag
    PROVE  /\ Core(ReapExpired(s, lag))
           /\ ReapExpired(s, lag).fencingCounter = s.fencingCounter
           /\ Leased(ReapExpired(s, lag)) => ReapExpired(s, lag) = s
<1>1. "expired" \in TerminalStatus
  BY DEF TerminalStatus
<1>2. CASE Expired(s, lag)
  BY <1>1, <1>2, EndLeaseKeepsCore DEF ReapExpired, Expired
<1>3. CASE ~Expired(s, lag)
  BY <1>3 DEF ReapExpired
<1>. QED  BY <1>2, <1>3

(* Taking at most one waiting entry out of the queue. *)
LEMMA CancelQueuedKeepsCore ==
    ASSUME NEW s, Core(s), NEW E \in SUBSET s.queue,
           E = {} \/ \E e \in E : E = {e}
    PROVE  /\ Core(CancelQueued(s, E))
           /\ CancelQueued(s, E).queue = s.queue \ E
           /\ CancelQueued(s, E).lease = s.lease
           /\ CancelQueued(s, E).fencingCounter = s.fencingCounter
           /\ CancelQueued(s, E).nextSequence = s.nextSequence
           /\ \A h \in CancelQueued(s, E).history :
                 h \in s.history \/ \E e \in E : h.req = e.req
<1> DEFINE rank(e) == Cardinality({f \in E : f.seq <= e.seq})
           recs == {Terminal(s, e, 0, "cancelled", rank(e)) : e \in E}
           old == {h \in s.history : \A k \in recs : h.req # k.req}
           H == Newest(old \cup recs)
           t == CancelQueued(s, E)
<1>1. s \in DeviceState /\ E \subseteq QueueEntry
  BY DEF Core, DeviceState
<1>2. Cardinality(recs) \in Nat /\ \A e \in E : rank(e) \in Nat
  <2>1. CASE E = {}
    <3>1. recs = {}
      BY <2>1
    <3>. QED  BY <2>1, <3>1, FS_EmptySet
  <2>2. CASE \E e \in E : E = {e}
    <3>1. PICK e \in E : E = {e}
      BY <2>2
    <3>2. recs = {Terminal(s, e, 0, "cancelled", rank(e))}
      BY <3>1
    <3>3. {f \in E : f.seq <= e.seq} = {e}
      BY <1>1, <3>1 DEF QueueEntry
    <3>4. Cardinality(recs) = 1 /\ rank(e) = 1
      BY <3>2, <3>3, FS_Singleton
    <3>. QED  BY <3>1, <3>4
  <2>. QED  BY <2>1, <2>2
<1>3. /\ recs \subseteq HistoryEntry
      /\ \A k \in recs : k.fencing = 0 /\ \E e \in E : k.req = e.req
      /\ \A k, l \in recs : k = l
  <2>1. \A e \in E : Terminal(s, e, 0, "cancelled", rank(e)) \in HistoryEntry
    <3> HIDE DEF rank
    <3>. QED  BY <1>1, <1>2 DEF Terminal, HistoryEntry, QueueEntry, TerminalStatus, DeviceState
  <2>2. \A e \in E : /\ Terminal(s, e, 0, "cancelled", rank(e)).fencing = 0
                     /\ Terminal(s, e, 0, "cancelled", rank(e)).req = e.req
    BY DEF Terminal
  <2>. QED  BY <2>1, <2>2
<1>4. H \subseteq s.history \cup recs
  BY NewestIsPart
<1>5. t = [[s EXCEPT !.history = H, !.pushed = @ + Cardinality(recs)]
              EXCEPT !.queue = @ \ E]
  BY DEF CancelQueued, PushHistory
<1> HIDE DEF H, recs
<1>6. /\ t \in DeviceState
      /\ t.lease = s.lease
      /\ t.queue = s.queue \ E
      /\ t.history = H
      /\ t.fencingCounter = s.fencingCounter
      /\ t.nextSequence = s.nextSequence
  <2>1. H \subseteq HistoryEntry
    BY <1>1, <1>3, <1>4 DEF DeviceState
  <2>2. s.pushed + Cardinality(recs) \in Nat
    BY <1>1, <1>2 DEF DeviceState
  <2>3. t \in DeviceState
    BY <1>1, <1>5, <2>1, <2>2 DEF DeviceState
  <2>. QED  BY <1>1, <1>5, <2>3 DEF DeviceState
<1> HIDE DEF t
<1>7. OnePlace(t)
  BY <1>3, <1>4, <1>6 DEF Core, OnePlace, Leased
<1>8. OneClaim(t)
  BY <1>6 DEF Core, OneClaim, Leased
<1>9. InOrder(t)
  BY <1>6 DEF Core, InOrder, Leased
<1>10. Tokens(t)
  BY <1>1, <1>3, <1>4, <1>6 DEF Core, Tokens, Leased, DeviceState, HistoryEntry
<1>11. Core(t)
  BY <1>6, <1>7, <1>8, <1>9, <1>10 DEF Core
<1>12. \A h \in t.history : h \in s.history \/ \E e \in E : h.req = e.req
  BY <1>3, <1>4, <1>6
<1>. QED  BY <1>6, <1>11, <1>12 DEF t

(* A free device goes to the first in the queue; nobody in it is overtaken. *)
LEMMA GrantKeepsCore ==
    ASSUME NEW s, Core(s), NEW lag \in Lag
    PROVE  /\ Core(GrantNext(s, lag))
           /\ Conserving(GrantNext(s, lag))
           /\ GrantNext(s, lag).fencingCounter >= s.fencingCounter
           /\ \/ GrantNext(s, lag) = s
              \/ /\ Leased(GrantNext(s, lag))
                 /\ GrantNext(s, lag).lease.fencing = s.fencingCounter + 1
<1>1. s \in DeviceState
  BY DEF Core
<1>2. CASE Leased(s) \/ s.queue = {}
  BY <1>1, <1>2 DEF GrantNext, Conserving, DeviceState
<1>3. CASE ~Leased(s) /\ s.queue # {}
  <2> DEFINE e == QueueHead(s)
             l == [req |-> e.req, story |-> e.story, seq |-> e.seq, ttl |-> e.ttl,
                   fencing |-> s.fencingCounter + 1, left |-> e.ttl - lag]
             t == [s EXCEPT !.lease = l, !.queue = @ \ {e}, !.fencingCounter = @ + 1]
  <2>1. GrantNext(s, lag) = t
    BY <1>3 DEF GrantNext
  <2>2. /\ e \in s.queue
        /\ \A f \in s.queue : e.seq <= f.seq
    BY <1>1, <1>3, QueueHeadFirst DEF DeviceState
  <2> HIDE DEF e
  <2>3. e \in QueueEntry
    BY <1>1, <2>2 DEF DeviceState
  <2>4. e.ttl - lag \in Int
    <3>1. e.ttl \in Nat
      BY <2>3, DeviceRuntimeAssumption DEF QueueEntry
    <3>2. lag \in Nat
      BY DeviceRuntimeAssumption DEF Lag
    <3>. QED  BY <3>1, <3>2
  <2>5. /\ l \in Lease
        /\ l.req = e.req /\ l.story = e.story /\ l.seq = e.seq
        /\ l.fencing = s.fencingCounter + 1
    BY <1>1, <2>3, <2>4 DEF Lease, QueueEntry, DeviceState
  <2> HIDE DEF l
  <2>6. /\ t \in DeviceState
        /\ t.lease = l
        /\ t.queue = s.queue \ {e}
        /\ t.history = s.history
        /\ t.fencingCounter = s.fencingCounter + 1
        /\ t.nextSequence = s.nextSequence
    <3> DEFINE q == s.queue \ {e}
               f == s.fencingCounter + 1
    <3>1. q \subseteq QueueEntry /\ f \in Nat
      BY <1>1 DEF DeviceState
    <3> HIDE DEF q, f
    <3>2. [s EXCEPT !.lease = l, !.queue = q, !.fencingCounter = f] \in DeviceState
      BY <1>1, <2>5, <3>1 DEF DeviceState
    <3>3. t = [s EXCEPT !.lease = l, !.queue = q, !.fencingCounter = f]
      BY DEF q, f
    <3>4. t.queue = q /\ t.fencingCounter = f
      BY <1>1, <3>3 DEF DeviceState
    <3>. QED  BY <1>1, <3>2, <3>3, <3>4 DEF DeviceState, q, f
  <2> HIDE DEF t
  <2>7. Leased(t)
    BY <2>5, <2>6, DeviceRuntimeAssumption DEF Leased
  <2>8. OnePlace(t)
    BY <2>2, <2>5, <2>6 DEF Core, OnePlace
  <2>9. OneClaim(t)
    BY <2>2, <2>5, <2>6 DEF Core, OneClaim
  <2>10. InOrder(t)
    <3>1. \A f \in s.queue : f.seq \in Nat
      BY <1>1 DEF DeviceState, QueueEntry
    <3>. QED  BY <2>2, <2>3, <2>5, <2>6, <3>1 DEF Core, InOrder, QueueEntry
  <2>11. Tokens(t)
    <3>1. \A h \in s.history : h.fencing \in Nat
      BY <1>1 DEF DeviceState, HistoryEntry
    <3>2. s.fencingCounter \in Nat
      BY <1>1 DEF DeviceState
    <3>. QED  BY <2>5, <2>6, <3>1, <3>2 DEF Core, Tokens
  <2>12. Core(t) /\ Conserving(t)
    BY <2>6, <2>7, <2>8, <2>9, <2>10, <2>11 DEF Core, Conserving
  <2>13. t.fencingCounter >= s.fencingCounter
    BY <1>1, <2>6 DEF DeviceState
  <2>. QED  BY <2>1, <2>5, <2>6, <2>7, <2>12, <2>13
<1>. QED  BY <1>2, <1>3

(* A new request joins at the end, once its story has no other claim. *)
LEMMA EnqueueKeepsCore ==
    ASSUME NEW s, Core(s), NEW r \in Request, NEW story \in Story, NEW ttl \in Ttl,
           ~Known(s, r),
           \A e \in s.queue : e.story # story,
           Leased(s) => s.lease.story # story
    PROVE  /\ Core(Enqueue(s, r, story, ttl))
           /\ Enqueue(s, r, story, ttl).lease = s.lease
           /\ Enqueue(s, r, story, ttl).fencingCounter = s.fencingCounter
<1> DEFINE n == s.nextSequence
           e == [req |-> r, story |-> story, seq |-> n, ttl |-> ttl]
           q == s.queue \cup {e}
           m == n + 1
           t == [s EXCEPT !.queue = q, !.nextSequence = m]
<1>1. Enqueue(s, r, story, ttl) = t
  BY DEF Enqueue
<1>2. s \in DeviceState
  BY DEF Core
<1>3. n \in Nat /\ m \in Nat /\ n < m
  BY <1>2 DEF DeviceState
<1>4. /\ e \in QueueEntry
      /\ e.req = r /\ e.story = story /\ e.seq = n
  BY <1>3 DEF QueueEntry
<1> HIDE DEF e
<1>5. q \subseteq QueueEntry
  BY <1>2, <1>4 DEF DeviceState
<1> HIDE DEF q, m
<1>6. t \in DeviceState
  BY <1>2, <1>3, <1>5 DEF DeviceState
<1>7. /\ t.lease = s.lease
      /\ t.queue = q
      /\ t.history = s.history
      /\ t.fencingCounter = s.fencingCounter
      /\ t.nextSequence = m
  BY <1>2 DEF DeviceState
<1> HIDE DEF t
<1>8. OnePlace(t)
  BY <1>4, <1>7 DEF Core, OnePlace, Known, HoldsRequest, Queued, Ended, Leased, q
<1>9. OneClaim(t)
  BY <1>4, <1>7 DEF Core, OneClaim, Leased, q
<1>10. InOrder(t)
  <2>1. \A f \in s.queue : f.seq \in Nat
    BY <1>2 DEF DeviceState, QueueEntry
  <2>2. Leased(s) => s.lease.seq \in Nat
    BY <1>2 DEF DeviceState, Lease, Leased
  <2>. QED  BY <1>3, <1>4, <1>7, <2>1, <2>2 DEF Core, InOrder, Leased, q
<1>11. Tokens(t)
  BY <1>7 DEF Core, Tokens, Leased
<1>12. Core(t)
  BY <1>6, <1>8, <1>9, <1>10, <1>11 DEF Core
<1>. QED  BY <1>1, <1>7, <1>12

(* What a story claims is gone before its new request is queued, and the *)
(* new request is still unknown.                                         *)
LEMMA EvictKeepsCore ==
    ASSUME NEW s, Core(s), NEW r \in Request, NEW story \in Story, ~Known(s, r)
    PROVE  LET t == EvictByStoryId(s, story, r)
           IN  /\ Core(t)
               /\ ~Known(t, r)
               /\ \A e \in t.queue : e.story # story
               /\ Leased(t) => t.lease = s.lease /\ t.lease.story # story
               /\ t.fencingCounter = s.fencingCounter
<1> DEFINE u == EvictLease(s, story, r)
           E == {e \in u.queue : e.story = story /\ e.req # r}
           t == CancelQueued(u, E)
<1>1. t = EvictByStoryId(s, story, r)
  BY DEF EvictByStoryId
<1>2. /\ Core(u)
      /\ u.queue = s.queue
      /\ u.fencingCounter = s.fencingCounter
      /\ Leased(u) => u.lease = s.lease /\ u.lease.story # story
      /\ \A h \in u.history : h.req # r
  <2>1. Leased(s) => s.lease.req # r
    BY DEF Known, HoldsRequest
  <2>2. \A h \in s.history : h.req # r
    BY DEF Known, Ended
  <2>3. CASE Leased(s) /\ s.lease.story = story
    <3>1. "released" \in TerminalStatus
      BY DEF TerminalStatus
    <3>2. u = EndLease(s, "released")
      BY <2>1, <2>3 DEF EvictLease
    <3>. QED  BY <2>1, <2>2, <2>3, <3>1, <3>2, EndLeaseKeepsCore
  <2>4. CASE ~(Leased(s) /\ s.lease.story = story)
    <3>1. u = s
      BY <2>4 DEF EvictLease
    <3>. QED  BY <2>2, <2>4, <3>1
  <2>. QED  BY <2>3, <2>4
<1> HIDE DEF u
<1>3. E = {} \/ \E e \in E : E = {e}
  BY <1>2 DEF Core, OneClaim
<1>4. \A e \in u.queue : e.req # r
  BY <1>2 DEF Known, Queued
<1> HIDE DEF E
<1>5. /\ Core(t)
      /\ t.queue = u.queue \ E
      /\ t.lease = u.lease
      /\ t.fencingCounter = u.fencingCounter
      /\ \A h \in t.history : h \in u.history \/ \E e \in E : h.req = e.req
  <2>1. E \in SUBSET u.queue
    BY DEF E
  <2>. QED  BY <1>2, <1>3, <2>1, CancelQueuedKeepsCore
<1> HIDE DEF t
<1>6. \A e \in t.queue : e.story # story
  BY <1>4, <1>5 DEF E
<1>7. ~Known(t, r)
  <2>1. \A h \in t.history : h.req # r
    BY <1>2, <1>4, <1>5 DEF E
  <2>2. \A e \in t.queue : e.req # r
    BY <1>4, <1>5
  <2>3. Leased(t) => t.lease.req # r
    BY <1>2, <1>5 DEF Known, HoldsRequest, Leased
  <2>. QED  BY <2>1, <2>2, <2>3 DEF Known, HoldsRequest, Queued, Ended
<1>8. Leased(t) => t.lease = s.lease /\ t.lease.story # story
  BY <1>2, <1>5 DEF Leased
<1>. QED  BY <1>1, <1>2, <1>5, <1>6, <1>7, <1>8

(* Moving the deadline of the lease disturbs nothing. *)
LEMMA DeadlineKeepsCore ==
    ASSUME NEW s, Core(s), Leased(s), NEW l \in Lease,
           l.req = s.lease.req, l.story = s.lease.story, l.seq = s.lease.seq,
           l.fencing = s.lease.fencing
    PROVE  /\ Core([s EXCEPT !.lease = l])
           /\ [s EXCEPT !.lease = l].lease = l
           /\ [s EXCEPT !.lease = l].queue = s.queue
           /\ [s EXCEPT !.lease = l].fencingCounter = s.fencingCounter
<1> DEFINE t == [s EXCEPT !.lease = l]
<1>1. s \in DeviceState
  BY DEF Core
<1>2. /\ t \in DeviceState
      /\ t.lease = l
      /\ t.queue = s.queue
      /\ t.history = s.history
      /\ t.fencingCounter = s.fencingCounter
      /\ t.nextSequence = s.nextSequence
  BY <1>1 DEF DeviceState
<1> HIDE DEF t
<1>3. OnePlace(t) /\ OneClaim(t) /\ InOrder(t) /\ Tokens(t)
  BY <1>2 DEF Core, OnePlace, OneClaim, InOrder, Tokens
<1>4. Core(t)
  BY <1>2, <1>3 DEF Core
<1>. QED  BY <1>2, <1>4 DEF t

-----------------------------------------------------------------------------
(* The operations: from a committed record to a committed record. *)

Committed(s) == Core(s) /\ Conserving(s)

\* The counter never falls, and a lease of t that s did not have carries a
\* token above every token s had issued.
Advances(s, t) ==
    /\ t.fencingCounter >= s.fencingCounter
    /\ Leased(t) => \/ t.lease.fencing > s.fencingCounter
                    \/ Leased(s) /\ t.lease.fencing = s.lease.fencing

\* What the core says of the counters and the tokens.
LEMMA CoreTokens ==
    ASSUME NEW s, Core(s)
    PROVE  /\ s.fencingCounter \in Nat
           /\ Leased(s) => s.lease \in Lease /\ s.lease.fencing \in Nat
BY DEF Core, DeviceState, Lease, Leased

\* Token order composes over the steps of an operation.
LEMMA AdvancesTransitive ==
    ASSUME NEW s, NEW t, NEW u, Core(s), Core(t), Core(u),
           Advances(s, t), Advances(t, u)
    PROVE  Advances(s, u)
BY CoreTokens DEF Advances

\* A step that grants nothing respects the token order.
LEMMA SameClaimsAdvance ==
    ASSUME NEW s, NEW t, Core(s), t.fencingCounter = s.fencingCounter,
           Leased(t) => Leased(s) /\ t.lease.fencing = s.lease.fencing
    PROVE  Advances(s, t)
BY CoreTokens DEF Advances

\* A grant raises the token.
LEMMA GrantAdvances ==
    ASSUME NEW s, Core(s), NEW lag \in Lag
    PROVE  /\ Committed(GrantNext(s, lag))
           /\ Advances(s, GrantNext(s, lag))
<1>1. s.fencingCounter \in Nat
  BY CoreTokens
<1>. QED  BY <1>1, GrantKeepsCore DEF Committed, Advances

\* Reaping grants nothing.
LEMMA ReapAdvances ==
    ASSUME NEW s, Core(s), NEW lag \in Lag
    PROVE  /\ Core(ReapExpired(s, lag))
           /\ Advances(s, ReapExpired(s, lag))
BY ReapKeepsCore, SameClaimsAdvance

\* Reading the record back grants nothing.
LEMMA NormalizedAdvances ==
    ASSUME NEW s, Core(s)
    PROVE  Core(NormalizeState(s)) /\ Advances(s, NormalizeState(s))
BY Normalized, SameClaimsAdvance DEF SameClaims, Leased

\* A recovery commits a record with nobody kept waiting.
LEMMA RecoverCommits ==
    ASSUME NEW s, Core(s), NEW lag \in Lag
    PROVE  Committed(AfterRecover(s, lag)) /\ Advances(s, AfterRecover(s, lag))
<1> DEFINE t == ReapExpired(s, lag)
           u == GrantNext(t, lag)
<1>1. Core(t) /\ Advances(s, t)
  BY ReapAdvances
<1> HIDE DEF t
<1>2. Committed(u) /\ Advances(t, u)
  BY <1>1, GrantAdvances
<1> HIDE DEF u
<1>3. Committed(u) /\ Advances(s, u)
  BY <1>1, <1>2, AdvancesTransitive DEF Committed
<1>. QED  BY <1>3 DEF AfterRecover, t, u

\* Acquire does, whether it found the request, evicted or queued.
LEMMA AcquireCommits ==
    ASSUME NEW s, Core(s), NEW r \in Request, NEW story \in Story, NEW ttl \in Ttl,
           NEW lag \in Lag
    PROVE  /\ Committed(AfterAcquire(s, r, story, ttl, lag))
           /\ Advances(s, AfterAcquire(s, r, story, ttl, lag))
<1> DEFINE t == GrantNext(ReapExpired(s, lag), lag)
           u == EvictByStoryId(t, story, r)
           v == Enqueue(u, r, story, ttl)
           w == GrantNext(v, lag)
<1>1. Committed(t) /\ Advances(s, t)
  BY RecoverCommits DEF AfterRecover
<1>2. AfterAcquire(s, r, story, ttl, lag) = IF Known(t, r) THEN t ELSE w
  BY DEF AfterAcquire
<1> HIDE DEF t
<1>3. CASE Known(t, r)
  BY <1>1, <1>2, <1>3
<1>4. CASE ~Known(t, r)
  <2>1. /\ Core(u)
        /\ ~Known(u, r)
        /\ \A e \in u.queue : e.story # story
        /\ Leased(u) => u.lease = t.lease /\ u.lease.story # story
        /\ u.fencingCounter = t.fencingCounter
    BY <1>1, <1>4, EvictKeepsCore DEF Committed
  <2> HIDE DEF u
  <2>2. Advances(t, u)
    <3>1. Leased(u) => Leased(t)
      BY <2>1 DEF Leased
    <3>. QED  BY <1>1, <2>1, <3>1, SameClaimsAdvance DEF Committed
  <2>3. /\ Core(v)
        /\ v.lease = u.lease
        /\ v.fencingCounter = u.fencingCounter
    BY <2>1, EnqueueKeepsCore
  <2> HIDE DEF v
  <2>4. Advances(u, v)
    BY <2>1, <2>3, SameClaimsAdvance DEF Leased
  <2>5. Committed(w) /\ Advances(v, w)
    BY <2>3, GrantAdvances
  <2> HIDE DEF w
  <2>6. Advances(s, u)
    BY <1>1, <2>1, <2>2, AdvancesTransitive DEF Committed
  <2>7. Advances(s, v)
    BY <2>1, <2>3, <2>4, <2>6, AdvancesTransitive
  <2>8. Advances(s, w)
    BY <2>3, <2>5, <2>7, AdvancesTransitive DEF Committed
  <2>. QED  BY <1>2, <1>4, <2>5, <2>8
<1>. QED  BY <1>3, <1>4

\* Heartbeat does, the failing one too.
LEMMA HeartbeatCommits ==
    ASSUME NEW s, Core(s), NEW tok, NEW ttl \in Ttl, NEW lag \in Lag
    PROVE  /\ Committed(AfterHeartbeat(s, tok, ttl, lag))
           /\ Advances(s, AfterHeartbeat(s, tok, ttl, lag))
<1> DEFINE t == GrantNext(ReapExpired(s, lag), lag)
           l == [t.lease EXCEPT !.left = ttl - lag, !.ttl = ttl]
           u == [t EXCEPT !.lease = l]
<1>1. Committed(t) /\ Advances(s, t)
  BY RecoverCommits DEF AfterRecover
<1>2. AfterHeartbeat(s, tok, ttl, lag) = IF HoldsToken(t, tok) THEN u ELSE t
  BY DEF AfterHeartbeat
<1> HIDE DEF t
<1>3. CASE HoldsToken(t, tok)
  <2>1. Leased(t) /\ t.lease \in Lease
    BY <1>1, <1>3, CoreTokens DEF Committed, HoldsToken
  <2>2. ttl - lag \in Int
    <3>1. ttl \in Nat /\ lag \in Nat
      BY DeviceRuntimeAssumption DEF Lag
    <3>. QED  BY <3>1
  <2>3. /\ l \in Lease
        /\ l.req = t.lease.req /\ l.story = t.lease.story
        /\ l.seq = t.lease.seq /\ l.fencing = t.lease.fencing
    BY <2>1, <2>2 DEF Lease
  <2> HIDE DEF l
  <2>4. /\ Core(u)
        /\ u.lease = l
        /\ u.queue = t.queue
        /\ u.fencingCounter = t.fencingCounter
    BY <1>1, <2>1, <2>3, DeadlineKeepsCore DEF Committed
  <2> HIDE DEF u
  <2>5. Leased(u)
    BY <2>3, <2>4, DeviceRuntimeAssumption DEF Leased
  <2>6. Advances(t, u)
    BY <1>1, <2>1, <2>3, <2>4, SameClaimsAdvance DEF Committed
  <2>7. Advances(s, u)
    BY <1>1, <2>4, <2>6, AdvancesTransitive DEF Committed
  <2>. QED  BY <1>2, <1>3, <2>4, <2>5, <2>7 DEF Committed, Conserving
<1>4. CASE ~HoldsToken(t, tok)
  BY <1>1, <1>2, <1>4
<1>. QED  BY <1>3, <1>4

\* Ending the lease, whoever asked for it, and handing the device on.
LEMMA EndThenGrantCommits ==
    ASSUME NEW s, Core(s), Leased(s), NEW status \in TerminalStatus, NEW lag \in Lag
    PROVE  /\ Committed(GrantNext(EndLease(s, status), lag))
           /\ Advances(s, GrantNext(EndLease(s, status), lag))
<1> DEFINE t == EndLease(s, status)
           u == GrantNext(t, lag)
<1>1. Core(t) /\ Advances(s, t)
  BY EndLeaseKeepsCore, SameClaimsAdvance
<1> HIDE DEF t
<1>2. Committed(u) /\ Advances(t, u)
  BY <1>1, GrantAdvances
<1> HIDE DEF u
<1>3. Advances(s, u)
  BY <1>1, <1>2, AdvancesTransitive DEF Committed
<1>. QED  BY <1>2, <1>3 DEF t, u

\* Release does, the failing one too.
LEMMA ReleaseCommits ==
    ASSUME NEW s, Core(s), NEW tok, NEW lag \in Lag
    PROVE  /\ Committed(AfterRelease(s, tok, lag))
           /\ Advances(s, AfterRelease(s, tok, lag))
<1> DEFINE t == ReapExpired(s, lag)
           u == GrantNext(IF HoldsToken(t, tok) THEN EndLease(t, "released") ELSE t, lag)
<1>1. Core(t) /\ Advances(s, t)
  BY ReapAdvances
<1>2. u = AfterRelease(s, tok, lag)
  BY DEF AfterRelease
<1> HIDE DEF t
<1>3. Committed(u) /\ Advances(t, u)
  <2>1. CASE HoldsToken(t, tok)
    <3>1. "released" \in TerminalStatus /\ Leased(t)
      BY <2>1 DEF TerminalStatus, HoldsToken
    <3>. QED  BY <1>1, <2>1, <3>1, EndThenGrantCommits
  <2>2. CASE ~HoldsToken(t, tok)
    BY <1>1, <2>2, GrantAdvances
  <2>. QED  BY <2>1, <2>2
<1> HIDE DEF u
<1>4. Advances(s, u)
  BY <1>1, <1>3, AdvancesTransitive DEF Committed
<1>. QED  BY <1>2, <1>3, <1>4

\* Cancel does, on each of its four paths.
LEMMA CancelCommits ==
    ASSUME NEW s, Core(s), Conserving(s), NEW r \in Request, NEW tok, NEW lag \in Lag
    PROVE  /\ Committed(AfterCancel(s, r, tok, lag))
           /\ Advances(s, AfterCancel(s, r, tok, lag))
<1> DEFINE t == ReapExpired(s, lag)
           E == {e \in t.queue : e.req = r}
           u == CancelQueued(t, E)
           w == AfterCancel(s, r, tok, lag)
<1>1. Core(t) /\ Advances(s, t)
  BY ReapAdvances
<1>2. w = IF Queued(t, r) THEN GrantNext(u, lag)
          ELSE IF HoldsRequest(t, r)
          THEN IF HoldsToken(t, tok) THEN GrantNext(EndLease(t, "cancelled"), lag) ELSE t
          ELSE GrantNext(t, lag)
  BY DEF AfterCancel
<1> HIDE DEF t, w
<1>3. Committed(w) /\ Advances(t, w)
  <2>1. CASE Queued(t, r)
    <3>1. E \in SUBSET t.queue
      OBVIOUS
    <3>2. E = {} \/ \E e \in E : E = {e}
      BY <1>1 DEF Core, OnePlace
    <3> HIDE DEF E
    <3>3. Core(u) /\ u.lease = t.lease /\ u.fencingCounter = t.fencingCounter
      BY <1>1, <3>1, <3>2, CancelQueuedKeepsCore
    <3> HIDE DEF u
    <3>4. Advances(t, u)
      BY <1>1, <3>3, SameClaimsAdvance DEF Leased
    <3>5. Committed(GrantNext(u, lag)) /\ Advances(u, GrantNext(u, lag))
      BY <3>3, GrantAdvances
    <3>6. w = GrantNext(u, lag)
      BY <1>2, <2>1
    <3>7. Core(w)
      BY <3>5, <3>6 DEF Committed
    <3>. QED  BY <1>1, <3>3, <3>4, <3>5, <3>6, <3>7, AdvancesTransitive
  <2>2. CASE ~Queued(t, r) /\ HoldsRequest(t, r) /\ HoldsToken(t, tok)
    <3>1. "cancelled" \in TerminalStatus /\ Leased(t)
      BY <2>2 DEF TerminalStatus, HoldsToken
    <3>2. w = GrantNext(EndLease(t, "cancelled"), lag)
      BY <1>2, <2>2
    <3>. QED  BY <1>1, <3>1, <3>2, EndThenGrantCommits
  <2>3. CASE ~Queued(t, r) /\ HoldsRequest(t, r) /\ ~HoldsToken(t, tok)
    <3>1. w = t
      BY <1>2, <2>3
    <3>2. Conserving(t)
      BY <2>3 DEF Conserving, HoldsRequest
    <3>. QED  BY <1>1, <3>1, <3>2, SameClaimsAdvance DEF Committed
  <2>4. CASE ~Queued(t, r) /\ ~HoldsRequest(t, r)
    <3>1. w = GrantNext(t, lag)
      BY <1>2, <2>4
    <3>. QED  BY <1>1, <3>1, GrantAdvances
  <2>. QED  BY <2>1, <2>2, <2>3, <2>4
<1>4. Advances(s, w)
  BY <1>1, <1>3, AdvancesTransitive DEF Committed
<1>. QED  BY <1>3, <1>4 DEF w

\* The passing of time moves a deadline and nothing else.
LEMMA TickCommits ==
    ASSUME Committed(dev), Tick
    PROVE  Committed(dev') /\ Advances(dev, dev')
<1> DEFINE l == [dev.lease EXCEPT !.left = @ - 1]
<1>1. dev' = [dev EXCEPT !.lease = l] /\ Leased(dev)
  BY DEF Tick
<1>2. dev.lease \in Lease
  BY <1>1, CoreTokens DEF Committed
<1>3. /\ l \in Lease
      /\ l.req = dev.lease.req /\ l.story = dev.lease.story
      /\ l.seq = dev.lease.seq /\ l.fencing = dev.lease.fencing
  BY <1>2 DEF Lease
<1> HIDE DEF l
<1>4. /\ Core(dev')
      /\ dev'.lease = l
      /\ dev'.queue = dev.queue
      /\ dev'.fencingCounter = dev.fencingCounter
  BY <1>1, <1>3, DeadlineKeepsCore DEF Committed
<1>5. Leased(dev')
  BY <1>3, <1>4, DeviceRuntimeAssumption DEF Leased
<1>6. Advances(dev, dev')
  BY <1>1, <1>3, <1>4, SameClaimsAdvance DEF Committed
<1>. QED  BY <1>4, <1>5, <1>6 DEF Committed, Conserving

\* The stored record and the normalised one hold the same claims.
LEMMA NormalizedConserves ==
    ASSUME NEW s, Committed(s)
    PROVE  Committed(NormalizeState(s)) /\ Advances(s, NormalizeState(s))
BY NormalizedAdvances, Normalized DEF Committed, Conserving, SameClaims, Leased

\* An operation that commits the normalised record commits the record.
LEMMA OperationCommits ==
    ASSUME NEW s, NEW t, Committed(s), Committed(t), Advances(NormalizeState(s), t)
    PROVE  Advances(s, t)
<1>1. Core(NormalizeState(s)) /\ Advances(s, NormalizeState(s))
  BY NormalizedConserves DEF Committed
<1>. QED  BY <1>1, AdvancesTransitive DEF Committed

\* The invariant is inductive.
LEMMA NextCommits ==
    ASSUME Committed(dev), Next
    PROVE  Committed(dev') /\ Advances(dev, dev')
<1> DEFINE n == NormalizeState(dev)
<1>1. Committed(n)
  BY NormalizedConserves
<1>2. ASSUME NEW r \in Request, NEW story \in Story, NEW ttl \in Ttl, NEW lag \in Lag,
             Acquire(r, story, ttl, lag)
      PROVE  Committed(dev') /\ Advances(dev, dev')
  BY <1>1, <1>2, AcquireCommits, OperationCommits DEF Acquire, Committed
<1>3. ASSUME NEW tok \in IssuedToken, NEW ttl \in Ttl, NEW lag \in Lag,
             Heartbeat(tok, ttl, lag)
      PROVE  Committed(dev') /\ Advances(dev, dev')
  BY <1>1, <1>3, HeartbeatCommits, OperationCommits DEF Heartbeat, Committed
<1>4. ASSUME NEW tok \in IssuedToken, NEW lag \in Lag, Release(tok, lag)
      PROVE  Committed(dev') /\ Advances(dev, dev')
  BY <1>1, <1>4, ReleaseCommits, OperationCommits DEF Release, Committed
<1>5. ASSUME NEW r \in Request, NEW tok \in {0} \cup IssuedToken, NEW lag \in Lag,
             Cancel(r, tok, lag)
      PROVE  Committed(dev') /\ Advances(dev, dev')
  BY <1>1, <1>5, CancelCommits, OperationCommits DEF Cancel, Committed
<1>6. ASSUME NEW lag \in Lag, RecoverExpired(lag)
      PROVE  Committed(dev') /\ Advances(dev, dev')
  BY <1>1, <1>6, RecoverCommits, OperationCommits DEF RecoverExpired, Committed
<1>7. CASE Tick
  BY <1>7, TickCommits
<1>. QED  BY <1>2, <1>3, <1>4, <1>5, <1>6, <1>7 DEF Next

\* It holds of a device nobody has used.
LEMMA InitCommits == Init => Committed(dev)
<1> SUFFICES ASSUME Init PROVE Committed(dev)
  OBVIOUS
<1>1. /\ dev \in DeviceState
      /\ dev.lease = None /\ dev.queue = {} /\ dev.history = {}
  BY DEF Init, InitialState, DeviceState
<1>. QED  BY <1>1 DEF Committed, Core, Conserving, OnePlace, OneClaim, InOrder,
                     Tokens, Leased

-----------------------------------------------------------------------------
(* The invariant and what it gives. *)

\* Every transaction commits a record whose claims, numbers, tokens and history
\* agree, with nobody kept waiting for a free device.
THEOREM Invariance == Spec => []IInv
<1>1. Init => IInv
  BY InitCommits DEF IInv, Committed
<1>2. IInv /\ [Next]_dev => IInv'
  <2> SUFFICES ASSUME IInv, [Next]_dev PROVE IInv'
    OBVIOUS
  <2>1. CASE Next
    BY <2>1, NextCommits DEF IInv, Committed
  <2>2. CASE dev' = dev
    BY <2>2 DEF IInv
  <2>. QED  BY <2>1, <2>2
<1>. QED  BY <1>1, <1>2, PTL DEF Spec

\* The record always has its type.
THEOREM TypeCorrect == Spec => []TypeOK
<1>1. IInv => TypeOK
  BY DEF IInv, Core, TypeOK
<1>. QED  BY <1>1, Invariance, PTL

\* However a lease ends, and on the error paths of the operations too, no
\* transaction leaves the device idle while a request waits.
THEOREM NeverIdle == Spec => []NoIdleDevice
<1>1. IInv => NoIdleDevice
  BY DEF IInv, Conserving, NoIdleDevice
<1>. QED  BY <1>1, Invariance, PTL

\* A request id is in one place only: the lease, the queue or the history.
THEOREM OneRecordPerRequest == Spec => []RequestInOnePlace
<1>1. IInv => RequestInOnePlace
  BY DEF IInv, Core, OnePlace, RequestInOnePlace, HoldsRequest, Queued, Ended
<1>. QED  BY <1>1, Invariance, PTL

\* A story never has two claims on one device.
THEOREM OneClaimPerStory == Spec => []OneEntryPerStory
<1>1. IInv => OneEntryPerStory
  BY DEF IInv, Core, OneClaim, OneEntryPerStory
<1>. QED  BY <1>1, Invariance, PTL

\* The device is served in the order the requests arrived.
THEOREM FirstComeFirstServed == Spec => []ServedInOrder
<1>1. IInv => ServedInOrder
  BY DEF IInv, Core, InOrder, ServedInOrder
<1>. QED  BY <1>1, Invariance, PTL

\* The holder's fencing token is the newest, and no token was issued twice.
THEOREM NewestTokenHolds == Spec => []HolderHasNewestToken
<1>1. IInv => HolderHasNewestToken
  BY DEF IInv, Core, Tokens, HolderHasNewestToken
<1>. QED  BY <1>1, Invariance, PTL

\* Fencing tokens only rise, across grants, evictions, expiries and the reading
\* back of the stored record.
THEOREM TokensRise == Spec => FencingAdvances
<1> DEFINE Step == /\ dev'.fencingCounter >= dev.fencingCounter
                   /\ Leased(dev') /\ (Leased(dev) => dev'.lease.fencing # dev.lease.fencing)
                         => dev'.lease.fencing > dev.fencingCounter
<1>1. IInv /\ [Next]_dev => [Step]_dev
  BY NextCommits DEF IInv, Committed, Advances
<1>. QED  BY <1>1, Invariance, PTL DEF Spec, FencingAdvances
=============================================================================
