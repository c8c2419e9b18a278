-------------------------- MODULE RepositoryLeaseProofs --------------------------
(***************************************************************************)
(* What the lease of a repository guarantees, for every number of          *)
(* controllers, contained or not, and any number of leases.                *)
(*                                                                         *)
(* The first part is what a controller knows of its own: its row, and the  *)
(* file as long as that is its own (LastInv).  Others may rename the lock  *)
(* of a live controller, so the second part (LockInv) follows who is       *)
(* robbed: of the controllers the file keeps the others out for, one that  *)
(* is not robbed is the only one, and nobody but it acts as if it had the  *)
(* lock, unless it is robbed.  The third part is the refinement of GitTurn.*)
(***************************************************************************)
EXTENDS RepositoryLease, TLAPS

Rewriting == {"checking", "writing", "filling"}

\* What a lock is rewritten for while its ledger is clear.
Clear == {"renew", "renewSpawn", "spawn"}

\* Where a controller settles the lease of a dead one.
Judging == {"inspected", "certified", "orphan"}

\* Where a controller has a lease, or has had one.
Engaged(p) == pc[p] \notin Judging \cup {"idle", "dead"}

\* What a controller knows of its lock holds as long as the file is its own; its
\* lock may be taken away.
OwnLock(p) ==
    /\ mem[p] # None => mem[p].owner = p
    /\ pc[p] \in Lockers \cup {"filling"} => mem[p] # None
    /\ pc[p] \in Rewriting /\ job[p] \in Clear => mem[p].child = "none"
    /\ p \in alive \cap half => pc[p] \in Halfway
    /\ p \in alive /\ OnDisk # None /\ OnDisk.owner = p =>
          /\ pc[p] \in Lockers
          /\ Same(OnDisk, mem[p])
          /\ pc[p] \in {"held", "unlinking"} => mem[p].child = "none"

\* The row of a live controller is that of the lease it works under; the one that is
\* to be deleted for a dead controller is not that of a live one.
OwnRow(p) ==
    /\ p \in alive /\ row # None /\ row.owner = p => Engaged(p) /\ fence[p] = row.fence
    /\ pc[p] \in Judging /\ row # None /\ row.fence = fence[p] => row.owner \notin alive

Lasting(p) == (p \in alive <=> pc[p] # "dead") /\ OwnLock(p) /\ OwnRow(p)

\* The first inductive invariant.
LastInv ==
    /\ LeaseTypeOK
    /\ row # None => row.fence = lastFence /\ lastFence > 0
    /\ file = None => half = {}
    /\ \A p \in Proc : Lasting(p)

\* Nothing of the other controllers changes.
Apart(a) ==
    /\ alive' = alive
    /\ \A p \in Proc :
          p # a => /\ pc'[p] = pc[p] /\ fence'[p] = fence[p] /\ mem'[p] = mem[p]
                   /\ seen'[p] = seen[p] /\ job'[p] = job[p] /\ child'[p] = child[p]

-----------------------------------------------------------------------------
(* A controller's own row and lock. *)

\* A file that can be read is a lock.
LEMMA ReadsLock ==
    ASSUME LeaseTypeOK
    PROVE  /\ OnDisk \in Lock \cup {None}
           /\ Torn \notin Lock /\ Torn # None /\ None \notin Lock
BY RepositoryLeaseAssumption DEF LeaseTypeOK, OnDisk

\* Others keep what they have, or lose the lock, when a controller takes a step.
LEMMA LastingStep ==
    ASSUME LastInv, NEW a \in alive, Apart(a),
           half' \subseteq half \cup {a},
           OnDisk' = OnDisk \/ OnDisk' = None \/ OnDisk'.owner = a,
           row' = row \/ row' = None \/ (row'.owner = a /\ row'.fence > lastFence),
           LeaseTypeOK', row' # None => row'.fence = lastFence' /\ lastFence' > 0,
           file' = None => half' = {},
           Lasting(a)'
    PROVE  LastInv'
<1>1. ASSUME NEW p \in Proc, p # a PROVE Lasting(p)'
  <2>1. /\ Lasting(p)
        /\ alive' = alive /\ pc'[p] = pc[p] /\ mem'[p] = mem[p] /\ job'[p] = job[p]
        /\ fence'[p] = fence[p]
    BY <1>1 DEF LastInv, Apart
  <2>2. fence[p] \in 0 .. lastFence /\ lastFence \in Nat
    BY DEF LastInv, LeaseTypeOK
  <2>3. OwnLock(p)'
    BY <1>1, <2>1 DEF Lasting, OwnLock, Same
  <2>4. OwnRow(p)'
    BY <1>1, <2>1, <2>2 DEF Lasting, OwnRow, Engaged
  <2> QED BY <2>1, <2>3, <2>4 DEF Lasting
<1> QED BY <1>1 DEF LastInv

\* A step that leaves row and lock file alone, and what is known of the lock.
LEMMA LastingQuiet ==
    ASSUME LastInv, NEW a \in alive,
           \/ Study(a) \/ Prove(a) \/ Check(a) \/ Spawn(a) \/ Close(a) \/ Release(a)
           \/ Inspect(a) \/ \E j \in Job : Renew(a, j)
    PROVE  LastInv' /\ Apart(a)
<1>1. Lasting(a) /\ a \in Proc /\ LeaseTypeOK
  BY DEF LastInv, LeaseTypeOK
<1>2. /\ UNCHANGED <<row, lastFence, file, expired, half, alive, mem, robbed>>
      /\ Apart(a)
  BY <1>1 DEF Study, Prove, Check, Lose, Spawn, Close, Release, Inspect, Renew,
              Goto, Apart, LeaseTypeOK
<1>3. LeaseTypeOK'
  <2>1. pc' \in [Proc -> Place]
    BY <1>1 DEF Study, Prove, Check, Lose, Home, Spawn, Close, Release, Inspect,
                Renew, Goto, LeaseTypeOK, Place
  <2>2. seen' \in [Proc -> Lock \cup {None}]
    <3>1. CASE Inspect(a)
      BY <1>1, <3>1 DEF Inspect, LeaseTypeOK
    <3>2. CASE ~Inspect(a)
      BY <1>1, <3>2, ReadsLock DEF Study, Prove, Check, Lose, Spawn, Close, Release, Renew,
                LeaseTypeOK
    <3> QED BY <3>1, <3>2
  <2>3. fence' \in [Proc -> 0 .. lastFence]
    BY <1>1 DEF Study, Prove, Check, Lose, Spawn, Close, Release, Inspect, Renew,
                LeaseTypeOK, LastInv, Row
  <2>4. /\ job' \in [Proc -> Job] /\ lost' \in [Proc -> BOOLEAN]
        /\ child' \in [Proc -> BOOLEAN]
    BY <1>1 DEF Study, Prove, Check, Lose, Spawn, Close, Release, Inspect, Renew,
                LeaseTypeOK, Job
  <2> QED BY <1>1, <1>2, <2>1, <2>2, <2>3, <2>4 DEF LeaseTypeOK
<1>4. Lasting(a)'
  <2>1. OwnLock(a)' /\ (a \in alive <=> pc[a] # "dead")'
    <3>0. OnDisk' = OnDisk
      BY <1>2 DEF OnDisk
    <3> USE <1>1, <1>2, <3>0 DEF Goto, LeaseTypeOK, Lasting, OwnLock, Same, Lockers, Halfway,
                           Rewriting, Clear
    <3>1. CASE Study(a) \/ Prove(a) \/ Inspect(a)
      BY <3>1 DEF Study, Prove, Inspect
    <3>2. CASE Check(a)
      BY <3>2 DEF Check, Lose, Home
    <3>3. CASE Spawn(a) \/ Close(a)
      BY <3>3 DEF Spawn, Close
    <3>4. CASE Release(a)
      BY <3>4 DEF Release
    <3>5. ASSUME NEW j \in Job, Renew(a, j)
          PROVE  OwnLock(a)' /\ (a \in alive <=> pc[a] # "dead")'
      BY <3>5 DEF Renew, Current, Job
    <3> QED BY <3>1, <3>2, <3>3, <3>4, <3>5
  <2>2. OwnRow(a)'
    BY <1>1, <1>2 DEF Study, Prove, Check, Lose, Home, Spawn, Close, Release, Inspect,
                      Renew, Goto, LeaseTypeOK, Lasting, OwnRow, Engaged,
                      Judging, LastInv
  <2> QED BY <2>1, <2>2 DEF Lasting
<1>5. OnDisk' = OnDisk
  BY <1>2 DEF OnDisk
<1> QED BY <1>1, <1>2, <1>3, <1>4, <1>5, LastingStep DEF LastInv

\* A controller that is done forgets all.
LEMMA LastingForget ==
    ASSUME LastInv, NEW a \in alive, Certify(a) \/ Drop(a) \/ DropOrphan(a)
    PROVE  LastInv' /\ Apart(a)
<1>1. Lasting(a) /\ a \in Proc /\ LeaseTypeOK
  BY DEF LastInv, LeaseTypeOK
<1>2. /\ UNCHANGED <<lastFence, file, expired, half, alive, child>>
      /\ Apart(a) /\ row' \in {row, None}
  BY <1>1 DEF Certify, Drop, DropOrphan, Forget, Goto, Apart, LeaseTypeOK
<1>3. OnDisk' = OnDisk
  BY <1>2 DEF OnDisk
<1>4. LeaseTypeOK'
  <2>1. pc' \in [Proc -> Place]
    BY <1>1 DEF Certify, Drop, DropOrphan, Goto, LeaseTypeOK, Place
  <2>2. /\ fence' \in [Proc -> 0 .. lastFence] /\ mem' \in [Proc -> Lock \cup {None}]
        /\ seen' \in [Proc -> Lock \cup {None}] /\ lost' \in [Proc -> BOOLEAN]
        /\ job' \in [Proc -> Job]
    <3>1. Forget(a) \/ UNCHANGED <<fence, mem, seen, job, lost>>
      BY DEF Certify, Drop, DropOrphan
    <3>2. 0 \in 0 .. lastFence /\ "renew" \in Job
      BY <1>1, RepositoryLeaseAssumption DEF LeaseTypeOK, Job
    <3> QED BY <1>1, <3>1, <3>2 DEF Forget, LeaseTypeOK
  <2>3. robbed' \subseteq Proc
    BY <1>1 DEF Certify, Drop, DropOrphan, LeaseTypeOK
  <2> QED BY <1>1, <1>2, <2>1, <2>2, <2>3 DEF LeaseTypeOK
<1>5. OwnLock(a)' /\ (a \in alive <=> pc[a] # "dead")'
  <2>1. pc[a] \in {"inspected", "dropping", "orphan"}
        /\ pc'[a] \in {"idle", "orphan", "certified"}
        /\ mem'[a] \in {None, mem[a]}
    BY <1>1 DEF Certify, Drop, DropOrphan, Forget, Goto, LeaseTypeOK
  <2> QED BY <1>1, <1>2, <1>3, <2>1 DEF Lasting, OwnLock, Lockers, Halfway, Rewriting
<1>6. OwnRow(a)'
  BY <1>1, <1>2 DEF Certify, Drop, DropOrphan, Forget, RowMine, Goto, LeaseTypeOK, Lasting,
                    OwnRow, Engaged, Judging
<1> QED BY <1>1, <1>2, <1>3, <1>4, <1>5, <1>6, LastingStep DEF LastInv, Lasting

LEMMA LastingClaim ==
    ASSUME LastInv, NEW a \in alive, Claim(a)
    PROVE  LastInv' /\ Apart(a)
<1>1. Lasting(a) /\ a \in Proc /\ LeaseTypeOK
  BY DEF LastInv, LeaseTypeOK
<1>2. Apart(a)
  BY <1>1 DEF Claim, Goto, Apart, LeaseTypeOK
<1>3. /\ row' \in Row /\ row'.owner = a /\ row'.fence = lastFence + 1
      /\ lastFence \in Nat /\ lastFence' = lastFence + 1 /\ fence'[a] = lastFence + 1
      /\ pc'[a] = "claimed" /\ OnDisk' = OnDisk
  BY <1>1, RepositoryLeaseAssumption DEF Claim, Goto, LeaseTypeOK, Row, OnDisk
<1>4. LeaseTypeOK'
  <2>1. lastFence' \in 0 .. MaxFence /\ fence' \in [Proc -> 0 .. lastFence']
    BY <1>1, RepositoryLeaseAssumption DEF Claim, LeaseTypeOK
  <2>2. lost' \in [Proc -> BOOLEAN] /\ pc' \in [Proc -> Place]
    BY <1>1 DEF Claim, Goto, LeaseTypeOK, Place
  <2> QED BY <1>3, <2>1, <2>2, <1>1 DEF Claim, LeaseTypeOK
<1>5. Lasting(a)'
  BY <1>1, <1>3 DEF Claim, Lasting, OwnLock, OwnRow, Engaged, Judging, Lockers,
                    Halfway, Same, Rewriting
<1> QED BY <1>2, <1>3, <1>4, <1>5, LastingStep DEF Claim, LastInv

LEMMA LastingCreate ==
    ASSUME LastInv, NEW a \in alive, Create(a)
    PROVE  LastInv' /\ Apart(a)
<1>1. Lasting(a) /\ a \in Proc /\ LeaseTypeOK
  BY DEF LastInv, LeaseTypeOK
<1>2. Apart(a)
  BY <1>1 DEF Create, Goto, Apart, LeaseTypeOK
<1>3. LeaseTypeOK'
  BY <1>1 DEF Create, Broken, Goto, LeaseTypeOK, Place
<1>4. /\ \/ half' = {a} /\ file' = Torn /\ pc'[a] = "creating" /\ OnDisk' = None
         \/ UNCHANGED <<file, half>> /\ pc'[a] \in {"conflict", "dropping"}
            /\ OnDisk' = OnDisk
      /\ pc[a] \in {"claimed", "displaced"}
  BY <1>1 DEF Create, Broken, Goto, OnDisk, LeaseTypeOK
<1>5. Lasting(a)'
  BY <1>1, <1>4 DEF Create, Lasting, OwnLock, OwnRow, Engaged, Judging, Lockers,
                    Halfway, Rewriting
<1> QED BY <1>1, <1>2, <1>3, <1>4, <1>5, LastingStep, ReadsLock DEF Create, LastInv

LEMMA LastingDisplace ==
    ASSUME LastInv, NEW a \in alive, Displace(a)
    PROVE  LastInv' /\ Apart(a)
<1>1. Lasting(a) /\ a \in Proc /\ LeaseTypeOK
  BY DEF LastInv, LeaseTypeOK
<1>2. Apart(a)
  BY <1>1 DEF Displace, Goto, Apart, LeaseTypeOK
<1>3. LeaseTypeOK'
  <2>1. pc' \in [Proc -> Place] /\ seen' \in [Proc -> Lock \cup {None}]
        /\ fence' \in [Proc -> 0 .. lastFence]
    BY <1>1 DEF Displace, Goto, LeaseTypeOK, Place
  <2>2. robbed' \subseteq Proc
    BY <1>1 DEF Displace, RobAllBut, Guarded, LeaseTypeOK
  <2> QED BY <1>1, <2>1, <2>2 DEF Displace, Unlinked, LeaseTypeOK
<1>4. file' = None /\ half' = {} /\ OnDisk' = None
  BY DEF Displace, Unlinked, OnDisk
<1>5. /\ \/ pc[a] = "proved" /\ pc'[a] \in {"displaced", "dropping"} /\ fence'[a] = fence[a]
         \/ pc[a] = "certified" /\ pc'[a] = "orphan" /\ fence'[a] = fence[a]
         \/ pc[a] = "certified" /\ pc'[a] = "idle"
  BY <1>1 DEF Displace, Goto, LeaseTypeOK
<1>6. Lasting(a)'
  BY <1>1, <1>4, <1>5 DEF Displace, Lasting, OwnLock, OwnRow, Engaged, Judging, Lockers,
                    Halfway, Rewriting
<1> QED BY <1>2, <1>3, <1>4, <1>6, LastingStep DEF Displace, LastInv

\* The lock a controller writes is one, in its name.
LEMMA WrittenIsLock ==
    ASSUME LeaseTypeOK, NEW p \in Proc, NEW rev \in Nat, NEW ch \in ChildState
    PROVE  /\ Written(p, rev, ch) \in Lock /\ Written(p, rev, ch) # None
           /\ Written(p, rev, ch) # Torn
           /\ Written(p, rev, ch).owner = p /\ Written(p, rev, ch).child = ch
<1>1. fence[p] \in Nat
  BY DEF LeaseTypeOK
<1>2. Written(p, rev, ch) \in Lock
  BY <1>1 DEF Written, Lock
<1> QED BY <1>2, RepositoryLeaseAssumption DEF Written

\* What a controller writes into the file it created is what it then knows.
LEMMA NewLock ==
    ASSUME LastInv, NEW a \in alive, FillNew(a)
    PROVE  /\ a \in Proc /\ pc[a] = "creating" /\ pc'[a] = "held"
           /\ mem'[a] \in Lock /\ mem'[a] # None /\ mem'[a].owner = a
           /\ mem'[a].child = "none"
           /\ \/ a \in half /\ OnDisk' = mem'[a] /\ half' = half \ {a} /\ file' # None
                 /\ RobAllBut({a})
              \/ a \in half /\ OnDisk # None /\ OnDisk' = None /\ half' = half \ {a}
                 /\ file' # None /\ RobAllBut({a})
              \/ a \notin half /\ UNCHANGED <<file, expired, half, robbed>>
                 /\ OnDisk' = OnDisk
           /\ file' \in Lock \cup {None, Torn} /\ expired' \in BOOLEAN
<1>1. a \in Proc /\ LeaseTypeOK
  BY DEF LastInv, LeaseTypeOK
<1>2. mem'[a] = Written(a, 1, "none") /\ pc[a] = "creating" /\ pc'[a] = "held"
  BY <1>1 DEF FillNew, Goto, LeaseTypeOK
<1>3. 1 \in Nat /\ "none" \in ChildState
  BY DEF ChildState
<1>4. /\ mem'[a] \in Lock /\ mem'[a] # None /\ mem'[a] # Torn /\ mem'[a].owner = a
      /\ mem'[a].child = "none"
  BY <1>1, <1>2, <1>3, WrittenIsLock
<1>5. CASE a \in half
  <2>1. (Filled(a) \/ (OnDisk # None /\ Broken)) /\ half' = half \ {a} /\ RobAllBut({a})
    BY <1>5 DEF FillNew
  <2> QED BY <1>1, <1>2, <1>4, <1>5, <2>1, ReadsLock DEF Filled, Broken, OnDisk
<1>6. CASE a \notin half
  BY <1>1, <1>2, <1>4, <1>6 DEF FillNew, OnDisk, LeaseTypeOK
<1> QED BY <1>5, <1>6

LEMMA LastingFillNew ==
    ASSUME LastInv, NEW a \in alive, FillNew(a)
    PROVE  LastInv' /\ Apart(a)
<1>1. Lasting(a) /\ a \in Proc /\ LeaseTypeOK
  BY DEF LastInv, LeaseTypeOK
<1>2. UNCHANGED <<row, lastFence, alive, fence, seen, job, lost, child>> /\ Apart(a)
  BY <1>1 DEF FillNew, Goto, Apart, LeaseTypeOK
<1>3. LeaseTypeOK'
  <2>1. mem' \in [Proc -> Lock \cup {None}] /\ pc' \in [Proc -> Place]
    BY <1>1, NewLock DEF FillNew, Goto, LeaseTypeOK, Place
  <2>2. robbed' \subseteq Proc /\ half' \subseteq Proc
    BY <1>1, NewLock DEF RobAllBut, Guarded, LeaseTypeOK
  <2> QED BY <1>1, <1>2, <2>1, <2>2, NewLock DEF LeaseTypeOK
<1>4. OwnLock(a)'
  BY <1>1, <1>2, NewLock DEF Lasting, OwnLock, Same, Lockers, Halfway, Rewriting
<1>5. Lasting(a)'
  BY <1>1, <1>2, <1>4, NewLock DEF Lasting, OwnRow, Engaged, Judging
<1>6. /\ half' \subseteq half \cup {a}
      /\ OnDisk' = OnDisk \/ OnDisk' = None \/ OnDisk'.owner = a
      /\ file' = None => half' = {}
  BY NewLock DEF LastInv
<1> QED BY <1>2, <1>3, <1>5, <1>6, LastingStep DEF LastInv

LEMMA LastingTruncate ==
    ASSUME LastInv, NEW a \in alive, Truncate(a) \/ Unlink(a)
    PROVE  LastInv' /\ Apart(a)
<1>1. Lasting(a) /\ a \in Proc /\ LeaseTypeOK
  BY DEF LastInv, LeaseTypeOK
<1>2. /\ UNCHANGED <<row, lastFence, alive, fence, mem, seen, job, lost, child>>
      /\ Apart(a)
  BY <1>1 DEF Truncate, Unlink, Goto, Apart, LeaseTypeOK
<1>3. LeaseTypeOK'
  <2>1. pc' \in [Proc -> Place] /\ half' \subseteq Proc /\ robbed' \subseteq Proc
    BY <1>1 DEF Truncate, Unlink, Unlinked, Goto, RobAllBut, Guarded, LeaseTypeOK, Place
  <2> QED BY <1>1, <1>2, <2>1 DEF Truncate, Unlink, Unlinked, Broken, LeaseTypeOK
<1>4. /\ OnDisk' = None
      /\ \/ Truncate(a) /\ file' # None /\ half' = half \cup {a} /\ pc[a] = "writing"
            /\ pc'[a] = "filling"
         \/ Unlink(a) /\ half' = {} /\ pc[a] = "unlinking" /\ pc'[a] = "dropping"
  BY <1>1, ReadsLock DEF Truncate, Unlink, Unlinked, Broken, OnDisk, Goto, LeaseTypeOK
<1>5. Lasting(a)'
  BY <1>1, <1>2, <1>4 DEF Lasting, OwnLock, OwnRow, Engaged, Judging, Lockers, Halfway,
                          Rewriting
<1> QED BY <1>2, <1>3, <1>4, <1>5, LastingStep DEF LastInv

\* Where a rewriting that succeeds goes on.
Onward(a) ==
    \/ job[a] = "renewSpawn" /\ job'[a] = "spawn" /\ pc'[a] = "checking"
    \/ job[a] = "spawn" /\ pc'[a] = "spawning"
    \/ job[a] \in {"renewRunning", "mark"} /\ pc'[a] = "running"
    \/ job[a] \in {"renew", "close"} /\ pc'[a] = "held"

\* What a controller rewrites into the file is what it then knows, or else it loses its
\* lease: another's text was in the file, or the file is no more the one it opened.
LEMMA FilledLock ==
    ASSUME LastInv, NEW a \in alive, Fill(a)
    PROVE  /\ a \in Proc /\ pc[a] = "filling" /\ mem[a] \in Lock
           /\ \/ /\ a \in half /\ half' = half \ {a} /\ RobAllBut({a}) /\ file' # None
                 /\ mem'[a] \in Lock /\ mem'[a] # None /\ mem'[a].owner = a
                 /\ mem'[a].child = ChildOf(a)
                 /\ OnDisk' = mem'[a] /\ Onward(a)
              \/ /\ a \in half /\ half' = half \ {a} /\ RobAllBut({a}) /\ file' # None
                 /\ OnDisk # None /\ OnDisk' = None /\ mem' = mem /\ job' = job
                 /\ pc'[a] = Home(job[a])
              \/ /\ a \notin half /\ UNCHANGED <<file, expired, half, mem, robbed, job>>
                 /\ OnDisk' = OnDisk
                 /\ pc'[a] = Home(job[a])
           /\ file' \in Lock \cup {None, Torn} /\ expired' \in BOOLEAN
           /\ pc' \in [Proc -> Place] /\ job' \in [Proc -> Job]
           /\ mem' \in [Proc -> Lock \cup {None}] /\ lost' \in [Proc -> BOOLEAN]
           /\ \A p \in Proc : p # a => /\ pc'[p] = pc[p] /\ mem'[p] = mem[p]
                                       /\ job'[p] = job[p]
<1>1. a \in Proc /\ LeaseTypeOK /\ Lasting(a)
  BY DEF LastInv, LeaseTypeOK
<1>2. pc[a] = "filling" /\ mem[a] \in Lock /\ job[a] \in Job
  BY <1>1 DEF Fill, Lasting, OwnLock, LeaseTypeOK
<1>3. mem[a].rev + 1 \in Nat /\ ChildOf(a) \in ChildState
  <2>1. mem[a].rev \in Nat /\ mem[a].child \in ChildState
    BY <1>2 DEF Lock
  <2> QED BY <2>1 DEF ChildOf, ChildState
<1>4. CASE a \in half /\ Rewritten(a)
  <2>1. mem'[a] = Written(a, mem[a].rev + 1, ChildOf(a)) /\ mem' \in [Proc -> Lock \cup {None}]
        /\ mem'[a] \in Lock /\ mem'[a] # None /\ mem'[a] # Torn /\ mem'[a].owner = a
        /\ mem'[a].child = ChildOf(a)
    <3>1. mem' = [mem EXCEPT ![a] = Written(a, mem[a].rev + 1, ChildOf(a))]
      BY <1>4 DEF Rewritten
    <3> QED BY <1>1, <1>3, <3>1, WrittenIsLock DEF LeaseTypeOK
  <2>2. file' = mem'[a] /\ expired' \in BOOLEAN /\ OnDisk' = mem'[a]
    BY <1>4, <2>1 DEF Rewritten, Filled, OnDisk
  <2>3. Onward(a) /\ pc' \in [Proc -> Place] /\ job' \in [Proc -> Job]
    BY <1>1, <1>2, <1>4 DEF Rewritten, Onward, Goto, Home, Job, LeaseTypeOK, Place
  <2>4. half' = half \ {a} /\ RobAllBut({a}) /\ lost' = lost
    BY <1>4 DEF Fill, Rewritten
  <2>5. \A p \in Proc : p # a => pc'[p] = pc[p] /\ mem'[p] = mem[p] /\ job'[p] = job[p]
    BY <1>1, <1>4 DEF Rewritten, Goto, LeaseTypeOK
  <2> QED BY <1>1, <1>2, <1>4, <2>1, <2>2, <2>3, <2>4, <2>5 DEF LeaseTypeOK
<1>5. CASE a \in half /\ ~Rewritten(a)
  <2>1. /\ OnDisk # None /\ Broken /\ UNCHANGED mem /\ Lose(a)
        /\ half' = half \ {a} /\ RobAllBut({a})
    BY <1>5 DEF Fill
  <2> QED BY <1>1, <1>2, <1>5, <2>1, ReadsLock
          DEF Broken, Lose, Home, Goto, OnDisk, LeaseTypeOK, Place
<1>6. CASE a \notin half
  BY <1>1, <1>2, <1>6 DEF Fill, Lose, Home, Goto, OnDisk, LeaseTypeOK, Place
<1> QED BY <1>4, <1>5, <1>6

LEMMA LastingFill ==
    ASSUME LastInv, NEW a \in alive, Fill(a)
    PROVE  LastInv' /\ Apart(a)
<1>1. Lasting(a) /\ a \in Proc /\ LeaseTypeOK
  BY DEF LastInv, LeaseTypeOK
<1>2. UNCHANGED <<row, lastFence, alive, fence, seen, child>>
  BY DEF Fill
<1>3. Apart(a)
  BY <1>2, FilledLock DEF Apart
<1>4. LeaseTypeOK'
  <2>1. robbed' \subseteq Proc /\ half' \subseteq Proc
    BY <1>1, FilledLock DEF RobAllBut, Guarded, LeaseTypeOK
  <2> QED BY <1>1, <1>2, <2>1, FilledLock DEF LeaseTypeOK
<1>5. job[a] \in {"renew", "renewSpawn", "close"} => ChildOf(a) = "none"
  BY <1>1, FilledLock DEF Lasting, OwnLock, Rewriting, Clear, ChildOf
<1>6. OwnLock(a)'
  <2>1. CASE OnDisk' = mem'[a] /\ a \in half /\ mem'[a].child = ChildOf(a) /\ Onward(a)
             /\ half' = half \ {a} /\ mem'[a] # None /\ mem'[a].owner = a
    BY <1>1, <1>2, <1>5, <2>1, FilledLock
       DEF OwnLock, Onward, Same, Lockers, Halfway, Rewriting, Clear
  <2>2. CASE OnDisk' \in {None, OnDisk} /\ mem' = mem /\ pc'[a] = Home(job[a])
             /\ (half' = half \ {a} \/ (a \notin half /\ half' = half))
    <3>1. ~(OnDisk # None /\ OnDisk.owner = a) /\ pc'[a] \in {"held", "running"}
      BY <1>1, <2>2, FilledLock DEF Lasting, OwnLock, Lockers, Home
    <3> QED BY <1>1, <1>2, <2>2, <3>1, FilledLock
            DEF Lasting, OwnLock, Lockers, Halfway, Rewriting
  <2> QED BY <2>1, <2>2, FilledLock
<1>7. pc[a] = "filling" /\ pc'[a] \in Lockers
  BY <1>1, FilledLock DEF Onward, Home, Lockers
<1>8. Lasting(a)'
  BY <1>1, <1>2, <1>6, <1>7 DEF Lasting, OwnRow, Engaged, Judging, Lockers
<1>9. /\ half' \subseteq half \cup {a}
      /\ OnDisk' = OnDisk \/ OnDisk' = None \/ OnDisk'.owner = a
      /\ file' = None => half' = {}
  BY FilledLock DEF LastInv
<1> QED BY <1>2, <1>3, <1>4, <1>8, <1>9, LastingStep DEF LastInv

LEMMA LastingDie ==
    ASSUME LastInv, NEW a \in alive, Die(a)
    PROVE  LastInv'
<1>1. a \in Proc /\ LeaseTypeOK
  BY DEF LastInv, LeaseTypeOK
<1>2. LeaseTypeOK'
  <2>1. 0 \in 0 .. lastFence /\ "renew" \in Job /\ "dead" \in Place
    BY <1>1, RepositoryLeaseAssumption DEF LeaseTypeOK, Job, Place
  <2> QED BY <1>1, <2>1 DEF Die, Forget, Goto, LeaseTypeOK
<1>3. ASSUME NEW p \in Proc PROVE Lasting(p)'
  <2>1. Lasting(p) /\ OnDisk' = OnDisk
    BY DEF LastInv, Die, OnDisk
  <2>2. CASE p = a
    <3>1. pc'[a] = "dead" /\ a \notin alive' /\ mem'[a] = None
      BY <1>1 DEF Die, Forget, Goto, LeaseTypeOK
    <3> QED BY <2>2, <3>1 DEF Lasting, OwnLock, OwnRow, Judging, Lockers, Rewriting
  <2>3. CASE p # a
    <3>1. /\ pc'[p] = pc[p] /\ mem'[p] = mem[p] /\ job'[p] = job[p]
          /\ fence'[p] = fence[p] /\ alive' = alive \ {a} /\ UNCHANGED <<row, half>>
      BY <1>1, <2>3 DEF Die, Forget, Goto, LeaseTypeOK
    <3> QED BY <2>1, <2>3, <3>1 DEF Lasting, OwnLock, OwnRow, Engaged, Same
  <2> QED BY <2>2, <2>3
<1> QED BY <1>2, <1>3 DEF LastInv, Die

\* Commands exit and time passes.
LEMMA LastingWorld ==
    ASSUME LastInv, (\E a \in Proc : ChildExits(a)) \/ LapseRow
    PROVE  LastInv'
<1>1. LeaseTypeOK /\ \A p \in Proc : Lasting(p)
  BY DEF LastInv
<1>2. OnDisk' = OnDisk
  BY DEF ChildExits, LapseRow, OnDisk
<1>3. CASE \E a \in Proc : ChildExits(a)
  <2>1. LeaseTypeOK'
    BY <1>1, <1>3 DEF ChildExits, local, LeaseTypeOK
  <2> QED BY <1>1, <1>2, <1>3, <2>1
          DEF ChildExits, local, LastInv, Lasting, OwnLock, OwnRow, Engaged, Same
<1>4. CASE LapseRow
  <2>1. row # None /\ row' \in Row /\ row'.fence = row.fence /\ row'.owner = row.owner
    BY <1>1, <1>4 DEF LapseRow, LeaseTypeOK, Row
  <2>2. LeaseTypeOK'
    BY <1>1, <1>4, <2>1 DEF LapseRow, local, LeaseTypeOK
  <2>3. ASSUME NEW p \in Proc PROVE Lasting(p)'
    BY <1>1, <1>2, <1>4, <2>1 DEF LapseRow, local, Lasting, OwnLock, OwnRow, Engaged, Same
  <2> QED BY <1>4, <2>1, <2>2, <2>3 DEF LapseRow, LastInv
<1> QED BY <1>3, <1>4

LEMMA LastingActor ==
    ASSUME LastInv, NEW a \in alive, Acquiring(a) \/ Holding(a) \/ Recovering(a)
    PROVE  LastInv' /\ Apart(a)
BY LastingQuiet, LastingForget, LastingClaim, LastingCreate, LastingDisplace,
   LastingFillNew, LastingTruncate, LastingFill DEF Acquiring, Holding, Recovering

LEMMA LastingNext == LastInv /\ [Next]_vars => LastInv'
<1> SUFFICES ASSUME LastInv, [Next]_vars PROVE LastInv'
  OBVIOUS
<1>1. CASE UNCHANGED vars
  BY <1>1 DEF vars, LastInv, LeaseTypeOK, Lasting, OwnLock, OwnRow, Engaged, Same, OnDisk
<1> QED BY <1>1, LastingActor, LastingDie, LastingWorld DEF Next

LEMMA LastInvariance == Spec => []LastInv
<1>1. Init => LastInv
  <2> SUFFICES ASSUME Init PROVE LastInv
    OBVIOUS
  <2>1. LeaseTypeOK
    <3>1. 0 \in 0 .. MaxFence /\ 0 \in 0 .. 0 /\ "renew" \in Job /\ "idle" \in Place
      BY RepositoryLeaseAssumption DEF Job, Place
    <3> QED BY <3>1 DEF Init, LeaseTypeOK
  <2>2. ASSUME NEW p \in Proc PROVE Lasting(p)
    BY RepositoryLeaseAssumption
       DEF Init, Lasting, OwnLock, OwnRow, Judging, Lockers, Rewriting, OnDisk
  <2> QED BY <2>1, <2>2 DEF Init, LastInv
<1> QED BY <1>1, LastingNext, PTL DEF Spec

\* Rows, locks and what controllers remember of them have the types of the code's
\* records, and no token is above the last one issued.
THEOREM LeaseTypesCorrect == Spec => []LeaseTypeOK
<1>1. LastInv => LeaseTypeOK
  BY DEF LastInv
<1> QED BY <1>1, LastInvariance, PTL

\* A live controller that is done with the repository leaves no lock and no row in
\* its name, even if a lock of it was taken away while it worked.
THEOREM NothingIsLeft == Spec => []DoneLeavesNothing
<1>1. LastInv => DoneLeavesNothing
  BY DEF LastInv, LeaseTypeOK, Lasting, OwnLock, OwnRow, Engaged, DoneLeavesNothing,
         Guarded, Lockers, Halfway
<1> QED BY <1>1, LastInvariance, PTL

\* What LiveRowIsKept says of one step.
RowKept ==
    row # None /\ row.owner \in alive /\ ~row.lapsed =>
        \/ row' # None /\ row'.fence = row.fence
        \/ pc[row.owner] = "dropping" /\ pc'[row.owner] = "idle"

LEMMA RowStep == LastInv /\ [Next]_vars => RowKept
<1> SUFFICES ASSUME LastInv, [Next]_vars, row # None, row.owner \in alive, ~row.lapsed
             PROVE  RowKept
  BY DEF RowKept
<1>1. LeaseTypeOK /\ row.owner \in Proc /\ OwnRow(row.owner)
  BY DEF LastInv, LeaseTypeOK, Lasting, Row
<1>2. ASSUME NEW a \in alive, Acquiring(a) \/ Holding(a) \/ Recovering(a)
      PROVE  RowKept
  <2>1. a \in Proc /\ OwnRow(a)
    BY <1>1 DEF LeaseTypeOK, LastInv, Lasting
  <2>2. CASE Drop(a)
    BY <1>1, <2>1, <2>2 DEF Drop, RowMine, Goto, RowKept, LeaseTypeOK
  <2>3. CASE DropOrphan(a)
    BY <1>1, <2>1, <2>3 DEF DropOrphan, OwnRow, Judging, RowKept
  <2>4. CASE Claim(a)
    BY <2>4 DEF Claim
  <2>5. CASE UNCHANGED row
    BY <2>5 DEF RowKept
  <2>6. \/ Drop(a) \/ DropOrphan(a) \/ Claim(a) \/ UNCHANGED row
    BY <1>2 DEF Acquiring, Holding, Recovering, Create, FillNew, Study, Prove, Displace,
                Renew, Check, Truncate, Fill, Spawn, Close, Release, Unlink, Inspect, Certify
  <2> QED BY <2>2, <2>3, <2>4, <2>5, <2>6
<1>3. CASE LapseRow
  <2>1. row' # None /\ row'.fence = row.fence
    BY <1>1, <1>3, RepositoryLeaseAssumption DEF LapseRow, LeaseTypeOK, Row
  <2> QED BY <2>1 DEF RowKept
<1>4. CASE UNCHANGED vars \/ (\E a \in alive : Die(a)) \/ (\E a \in Proc : ChildExits(a))
  BY <1>4 DEF vars, Die, ChildExits, RowKept
<1> QED BY <1>2, <1>3, <1>4 DEF Next

\* The row of a live controller is deleted by nobody else, and replaced only when it
\* has run out: what is dropped for a dead controller is told apart by its token.
THEOREM LiveRowsAreKept == Spec => LiveRowIsKept
<1>1. LastInv /\ [Next]_vars =>
      [row # None /\ row.owner \in alive /\ ~row.lapsed =>
          \/ row' # None /\ row'.fence = row.fence
          \/ pc[row.owner] = "dropping" /\ pc'[row.owner] = "idle"]_vars
  BY RowStep DEF RowKept
<1> QED BY <1>1, LastInvariance, PTL DEF Spec, LiveRowIsKept

-----------------------------------------------------------------------------
(* The locks of the others. *)

\* The ledger is ahead of the start of a command and behind its end.
Ledger(p) ==
    /\ child[p] => \/ pc[p] \in {"running", "dead"}
                   \/ pc[p] \in Rewriting /\ job[p] \in {"mark", "renewRunning"}
    /\ pc[p] \in {"running", "spawning"} => mem[p].child # "none"
    /\ pc[p] = "unlinking" => mem[p].child = "none"
    /\ pc[p] \in Rewriting /\ job[p] \in {"mark", "renewRunning"} => mem[p].child # "none"

\* Who takes the lock to be its own has it, unless it was robbed; who was robbed has
\* not yet given up.
HasLock(p) ==
    IF p \in robbed
    THEN p \in alive => pc[p] \in Lockers \cup Halfway \cup {"dropping"}
    ELSE /\ pc[p] \in Lockers => Same(OnDisk, mem[p])
         /\ pc[p] \in Halfway => p \in half
         /\ pc[p] = "held" => mem[p].child = "none"

SurePlace == {"proved", "certified"}

\* A lock is displaced for a dead controller whose command is gone.
Stale(p) ==
    /\ pc[p] \in SurePlace \cup {"proving"} => seen[p] # None
    /\ pc[p] \in SurePlace \cup {"proving", "inspected"} /\ seen[p] # None
          => seen[p].owner \notin alive
    /\ pc[p] \in SurePlace => ChildGone(p, seen[p])

Fine(p) == Ledger(p) /\ HasLock(p) /\ Stale(p)

\* The second inductive invariant.
LockInv ==
    /\ RunningChildIsGuarded
    /\ OnDisk # None => half \subseteq robbed
    /\ \A p, q \in Guarded : p \notin robbed => p = q
    /\ \A p \in Proc : Fine(p)

\* What LiveLockIsKept says of one step.
Kept ==
    \A p \in alive \ robbed :
        (p \in half \/ Same(OnDisk, mem[p])) /\ ~(p \in half' \/ Same(OnDisk, mem[p])')
        => \/ pc'[p] # pc[p]
           \/ \E q \in Late \cup (robbed \cap alive) : pc'[q] # pc[q]

\* Whom the file keeps nobody out for does not act as if it did, unless robbed.
LEMMA Outsider ==
    ASSUME LastInv, LockInv, NEW p \in Proc, p \notin robbed \cup Guarded
    PROVE  pc[p] \notin Lockers \cup Halfway /\ ~child[p]
<1>1. Fine(p) /\ OwnLock(p)
  BY DEF LockInv, LastInv, Lasting
<1>2. pc[p] \notin Lockers \cup Halfway
  BY <1>1 DEF Fine, HasLock, OwnLock, Same, Guarded
<1>3. ~child[p]
  BY DEF LockInv, RunningChildIsGuarded, Guarded
<1> QED BY <1>2, <1>3

\* A step that leaves the lock file and the commands alone keeps the locks if it leaves
\* its own controller fine.
LEMMA QuietStep ==
    ASSUME LastInv, LockInv, NEW a \in alive, Apart(a),
           UNCHANGED <<file, half, child>>,
           robbed' = robbed \/ (robbed' = robbed \ {a} /\ ~child[a] /\ a \notin Guarded),
           mem' = mem \/ pc'[a] # pc[a],
           Fine(a)'
    PROVE  LockInv' /\ Kept
<1>1. OnDisk' = OnDisk /\ Guarded' = Guarded
  BY DEF OnDisk, Guarded
<1>2. ASSUME NEW p \in Proc PROVE Fine(p)'
  <2>1. CASE p # a
    <3>1. /\ pc'[p] = pc[p] /\ mem'[p] = mem[p] /\ seen'[p] = seen[p] /\ job'[p] = job[p]
          /\ alive' = alive /\ child' = child
      BY <2>1 DEF Apart
    <3>2. p \in robbed' <=> p \in robbed
      BY <2>1
    <3>3. Fine(p)
      BY DEF LockInv
    <3> QED BY <1>1, <3>1, <3>2, <3>3 DEF Fine, Ledger, HasLock, Stale, Same, ChildGone
  <2> QED BY <2>1
<1>3. RunningChildIsGuarded'
  BY <1>1 DEF LockInv, RunningChildIsGuarded
<1>4. OnDisk' # None => half' \subseteq robbed'
  BY <1>1 DEF LockInv, Guarded
<1>5. \A p, q \in Guarded' : p \notin robbed' => p = q
  BY <1>1 DEF LockInv
<1>6. Kept
  BY <1>1 DEF Kept, Same, Apart, LastInv, LeaseTypeOK
<1> QED BY <1>2, <1>3, <1>4, <1>5, <1>6 DEF LockInv

\* A step on the lock file robs whom the file kept the others out for, unless it is the
\* one who takes the step, or a dead one whose command is gone.
LEMMA TouchStep ==
    ASSUME LastInv, LastInv', LockInv, NEW a \in alive, Apart(a), child' = child,
           robbed \subseteq robbed', robbed' \subseteq robbed \cup Guarded,
           \A p \in Guarded \ robbed' : p = a \/ (p \notin alive /\ ~child[p]),
           OnDisk' # None => half' \subseteq robbed',
           \A p, q \in Guarded' : p \notin robbed' => p = q,
           a \notin robbed' /\ child[a]
              => a \in half' \/ (OnDisk # None /\ OnDisk.owner = a /\ OnDisk.child # "none")',
           Fine(a)',
           pc'[a] # pc[a],
           a \in Late \cup robbed \/ Guarded \cap alive \subseteq {a} \cup robbed
    PROVE  LockInv' /\ Kept
<1>1. ASSUME NEW p \in Proc, p # a, p \notin robbed'
      PROVE  pc[p] \notin Lockers \cup Halfway /\ ~child[p]
  <2>1. CASE p \in Guarded
    <3>1. p \notin alive /\ ~child[p] /\ pc[p] = "dead"
      BY <1>1, <2>1 DEF LastInv, Lasting
    <3> QED BY <3>1 DEF Lockers, Halfway
  <2>2. CASE p \notin Guarded
    BY <1>1, <2>2, Outsider
  <2> QED BY <2>1, <2>2
<1>2. ASSUME NEW p \in Proc PROVE Fine(p)'
  <2>1. CASE p # a
    <3>1. /\ pc'[p] = pc[p] /\ mem'[p] = mem[p] /\ seen'[p] = seen[p] /\ job'[p] = job[p]
          /\ alive' = alive /\ child' = child
      BY <2>1 DEF Apart
    <3>2. Fine(p) /\ OwnLock(p)
      BY DEF LockInv, LastInv, Lasting
    <3>3. HasLock(p)'
      <4>1. CASE p \in robbed
        BY <3>1, <3>2, <4>1 DEF Fine, HasLock
      <4>2. CASE p \in robbed' /\ p \notin robbed
        <5>1. p \in alive => pc[p] \in Lockers \cup Halfway
          BY <3>2, <4>2 DEF Guarded, OwnLock
        <5> QED BY <3>1, <4>2, <5>1 DEF HasLock
      <4>3. CASE p \notin robbed'
        BY <1>1, <2>1, <3>1, <4>3 DEF HasLock, Lockers
      <4> QED BY <4>1, <4>2, <4>3
    <3>4. Ledger(p)' /\ Stale(p)'
      BY <3>1, <3>2 DEF Fine, Ledger, Stale, ChildGone
    <3> QED BY <3>3, <3>4 DEF Fine
  <2> QED BY <2>1
<1>3. RunningChildIsGuarded'
  BY <1>1 DEF RunningChildIsGuarded
<1>4. Kept
  <2>1. ASSUME NEW p \in alive \ robbed, p \in half \/ Same(OnDisk, mem[p]),
               p # a, a \notin Late \cup (robbed \cap alive)
        PROVE  FALSE
    <3>1. p \in Proc /\ OwnLock(p) /\ LeaseTypeOK
      BY DEF LastInv, LeaseTypeOK, Lasting
    <3>2. p \in Guarded
      BY <2>1, <3>1 DEF OwnLock, Same, Guarded
    <3> QED BY <2>1, <3>2
  <2> QED BY <2>1 DEF Kept
<1> QED BY <1>2, <1>3, <1>4 DEF LockInv

\* Whoever has the lock and was not robbed is the only one the file keeps others out for.
LEMMA OnlyOne ==
    ASSUME LastInv, LockInv, NEW a \in alive \ robbed, pc[a] \in Lockers \cup Halfway
    PROVE  Guarded = {a}
<1>1. a \in Guarded
  BY Outsider DEF LastInv, LeaseTypeOK
<1> QED BY <1>1 DEF LockInv

LEMMA QuietKeeps ==
    ASSUME LastInv, LockInv, NEW a \in alive,
           \/ Claim(a) \/ Study(a) \/ Prove(a) \/ Drop(a) \/ Check(a) \/ Close(a)
           \/ Release(a) \/ Inspect(a) \/ Certify(a) \/ DropOrphan(a)
           \/ \E j \in Job : Renew(a, j)
    PROVE  LockInv' /\ Kept
<1>1. Fine(a) /\ a \in Proc /\ LeaseTypeOK /\ OwnLock(a) /\ pc[a] # "dead"
  BY DEF LockInv, LastInv, LeaseTypeOK, Lasting
<1>2. Apart(a)
  BY LastingQuiet, LastingForget, LastingClaim
<1>3. UNCHANGED <<file, half, child, alive>>
  BY DEF Claim, Study, Prove, Drop, Check, Close, Release, Inspect, Certify, DropOrphan, Renew
<1>4. OnDisk' = OnDisk
  BY <1>3 DEF OnDisk
<1>5. robbed' = robbed \/ (robbed' = robbed \ {a} /\ ~child[a] /\ a \notin Guarded)
  <2>1. CASE Drop(a)
    BY <1>1, <2>1 DEF Drop, Fine, Ledger, OwnLock, Guarded, Lockers, Halfway, Rewriting
  <2>2. CASE ~Drop(a)
    BY <2>2 DEF Claim, Study, Prove, Check, Close, Release, Inspect, Certify, DropOrphan, Renew
  <2> QED BY <2>1, <2>2
<1>6. mem' = mem \/ pc'[a] # pc[a]
  BY <1>1 DEF Claim, Study, Prove, Drop, Check, Close, Release, Inspect, Certify, DropOrphan,
              Renew, Goto, LeaseTypeOK
<1>7. Fine(a)'
  <2> USE <1>1, <1>3, <1>4 DEF Goto, LeaseTypeOK, Fine, Ledger, HasLock, Stale, Same,
          Lockers, Halfway, SurePlace, Rewriting
  <2>1. CASE Claim(a)
    BY <2>1 DEF Claim
  <2>2. CASE Study(a)
    BY <2>2, ReadsLock DEF Study
  <2>3. CASE Prove(a)
    BY <2>3 DEF Prove, ChildGone
  <2>4. CASE Drop(a) \/ DropOrphan(a)
    BY <2>4 DEF Drop, DropOrphan, Forget
  <2>5. CASE Check(a)
    BY <2>5 DEF Check, Lose, Home, OwnLock, Clear, Job
  <2>6. CASE Close(a)
    BY <2>6 DEF Close
  <2>7. CASE Release(a)
    BY <2>7 DEF Release
  <2>8. CASE Inspect(a)
    BY <2>8 DEF Inspect, OnDisk
  <2>9. CASE Certify(a)
    BY <2>9 DEF Certify, Forget, ChildGone
  <2>10. ASSUME NEW j \in Job, Renew(a, j) PROVE Fine(a)'
    BY <2>10 DEF Renew, Current
  <2> QED BY <2>1, <2>2, <2>3, <2>4, <2>5, <2>6, <2>7, <2>8, <2>9, <2>10
<1> QED BY <1>2, <1>3, <1>5, <1>6, <1>7, QuietStep

LEMMA SpawnKeeps ==
    ASSUME LastInv, LockInv, NEW a \in alive, Spawn(a)
    PROVE  LockInv' /\ Kept
<1>1. Fine(a) /\ a \in Proc /\ LeaseTypeOK /\ OwnLock(a) /\ Apart(a)
  BY LastingQuiet DEF LockInv, LastInv, LeaseTypeOK, Lasting
<1>2. /\ UNCHANGED <<file, half, alive, mem, seen, robbed>>
      /\ pc[a] = "spawning" /\ pc'[a] = "checking"
      /\ \/ job'[a] = "mark"
         \/ job'[a] = "close" /\ child' = child
      /\ child' = child \/ child' = [child EXCEPT ![a] = TRUE]
  BY <1>1 DEF Spawn, Goto, LeaseTypeOK
<1>3. OnDisk' = OnDisk /\ Guarded' = Guarded
  BY <1>2 DEF OnDisk, Guarded
<1>4. Ledger(a)' /\ HasLock(a)'
  BY <1>1, <1>2, <1>3 DEF Fine, Ledger, HasLock, Same, Lockers, Halfway, Rewriting
<1>5. Stale(a)'
  BY <1>1, <1>2 DEF Stale, SurePlace
<1>6. ASSUME NEW p \in Proc, p # a PROVE Fine(p)'
  <2>1. /\ pc'[p] = pc[p] /\ mem'[p] = mem[p] /\ seen'[p] = seen[p] /\ job'[p] = job[p]
        /\ child'[p] = child[p] /\ Fine(p)
    BY <1>1, <1>6 DEF Apart, LockInv
  <2>2. Ledger(p)' /\ HasLock(p)'
    BY <1>2, <1>3, <2>1 DEF Fine, Ledger, HasLock, Same
  <2>3. Stale(p)'
    <3>1. ASSUME pc[p] \in SurePlace PROVE ChildGone(p, seen[p])'
      <4>1. seen[p] \in Lock /\ seen[p].owner \in Proc \ {a}
        BY <1>1, <2>1, <3>1 DEF Fine, Stale, LeaseTypeOK, Lock
      <4>2. child'[seen[p].owner] = child[seen[p].owner]
        BY <1>1, <4>1 DEF Apart
      <4> QED BY <2>1, <3>1, <4>2 DEF Fine, Stale, ChildGone
    <3> QED BY <1>2, <2>1, <3>1 DEF Fine, Stale
  <2> QED BY <2>2, <2>3 DEF Fine
<1>7. RunningChildIsGuarded'
  <2>1. a \notin robbed => OnDisk # None /\ OnDisk.owner = a /\ OnDisk.child # "none"
    BY <1>1, <1>2 DEF Fine, Ledger, HasLock, OwnLock, Same, Lockers
  <2> QED BY <1>1, <1>2, <1>3, <2>1 DEF LockInv, RunningChildIsGuarded, LeaseTypeOK
<1>8. Kept
  BY <1>2, <1>3 DEF Kept, Same
<1> QED BY <1>2, <1>3, <1>4, <1>5, <1>6, <1>7, <1>8 DEF LockInv, Fine

LEMMA CreateKeeps ==
    ASSUME LastInv, LockInv, NEW a \in alive, Create(a)
    PROVE  LockInv' /\ Kept
<1>1. Fine(a) /\ a \in Proc /\ LeaseTypeOK
  BY DEF LockInv, LastInv, LeaseTypeOK
<1>2. Apart(a) /\ LastInv' /\ UNCHANGED <<alive, mem, seen, job, child, robbed>>
  BY LastingCreate DEF Create
<1>3. CASE Exists
  <2>1. UNCHANGED <<file, half>>
    BY <1>3 DEF Create
  <2>2. Fine(a)'
    BY <1>1, <1>2, <1>3 DEF Create, Goto, LeaseTypeOK, Fine, HasLock, Ledger, Stale, Lockers,
                      Halfway, SurePlace, Rewriting
  <2> QED BY <1>2, <2>1, <2>2, QuietStep
<1>4. CASE ~Exists
  <2>1. /\ half' = {a} /\ file' = Torn /\ OnDisk = None /\ OnDisk' = None
        /\ pc[a] \in {"claimed", "displaced"} /\ pc'[a] = "creating"
        /\ Guarded = {} /\ Guarded' = {a}
    BY <1>1, <1>4 DEF Create, Broken, Exists, Goto, LeaseTypeOK, OnDisk, Guarded, LastInv
  <2>2. Fine(a)'
    BY <1>1, <1>2, <2>1 DEF Fine, HasLock, Ledger, Stale, Lockers, Halfway, SurePlace,
                            Rewriting
  <2> QED BY <1>1, <1>2, <2>1, <2>2, TouchStep
<1> QED BY <1>3, <1>4

LEMMA DisplaceKeeps ==
    ASSUME LastInv, LockInv, NEW a \in alive, Displace(a)
    PROVE  LockInv' /\ Kept
<1>1. Fine(a) /\ a \in Proc /\ LeaseTypeOK
  BY DEF LockInv, LastInv, LeaseTypeOK
<1>2. Apart(a) /\ LastInv' /\ UNCHANGED <<alive, mem, job, child>>
  BY LastingDisplace DEF Displace
<1>3. /\ file' = None /\ half' = {} /\ OnDisk' = None /\ Guarded' = {}
      /\ pc[a] \in SurePlace /\ pc'[a] \in {"displaced", "dropping", "orphan", "idle"}
  BY <1>1 DEF Displace, Unlinked, Goto, LeaseTypeOK, OnDisk, Guarded, SurePlace
<1>4. a \notin robbed
  BY <1>1, <1>3 DEF Fine, HasLock, SurePlace, Lockers, Halfway
<1>5. robbed \subseteq robbed' /\ robbed' \subseteq robbed \cup Guarded
  BY DEF Displace, RobAllBut
<1>6. ~child[a] /\ a \notin Guarded
  BY <1>1, <1>3 DEF Fine, Ledger, SurePlace, Rewriting, LastInv, Lasting, OwnLock, Guarded,
                    Lockers, Halfway
<1>7. Fine(a)'
  BY <1>1, <1>2, <1>3, <1>4, <1>5, <1>6
     DEF Fine, HasLock, Ledger, Stale, Lockers, Halfway, SurePlace, Rewriting
<1>8. CASE Same(OnDisk, seen[a])
  <2>1. /\ OnDisk # None /\ seen[a] = OnDisk /\ OnDisk.owner \in Proc \ alive
        /\ ChildGone(a, OnDisk)
    BY <1>1, <1>3, <1>8, ReadsLock DEF Fine, Stale, Same, Lock
  <2>2. robbed' = robbed \cup (Guarded \ {OnDisk.owner})
    BY <1>8, <2>1 DEF Displace, RobAllBut
  <2>3. ASSUME OnDisk.owner \notin robbed PROVE ~child[OnDisk.owner]
    <3>1. OnDisk.owner \notin half
      BY <2>1, <2>3 DEF LockInv
    <3> QED BY <2>1, <2>3, <3>1 DEF LockInv, RunningChildIsGuarded, ChildGone
  <2>4. \A p \in Guarded \ robbed' : p = a \/ (p \notin alive /\ ~child[p])
    BY <1>5, <2>1, <2>2, <2>3
  <2>5. Guarded \cap alive \subseteq {a} \cup robbed
    BY <2>1 DEF LockInv, Guarded
  <2> QED BY <1>2, <1>3, <1>5, <1>6, <1>7, <2>4, <2>5, TouchStep DEF SurePlace
<1>9. CASE ~Same(OnDisk, seen[a])
  <2>1. robbed' = robbed \cup Guarded
    BY <1>9 DEF Displace, RobAllBut
  <2>2. a \in Late
    BY <1>1, <1>3, <1>9 DEF Late, SurePlace
  <2> QED BY <1>2, <1>3, <1>5, <1>6, <1>7, <2>1, <2>2, TouchStep DEF SurePlace
<1> QED BY <1>8, <1>9

\* A step on the file by whoever has it, or was robbed of it.
LEMMA HolderStep ==
    ASSUME LastInv, LastInv', LockInv, NEW a \in alive, Apart(a), child' = child,
           RobAllBut({a}),
           pc[a] \in Lockers \cup Halfway, pc'[a] # pc[a],
           half' \subseteq half \cup {a},
           OnDisk' = None \/ (OnDisk'.owner = a /\ half' = half \ {a}),
           a \notin robbed /\ child[a]
              => a \in half' \/ (OnDisk # None /\ OnDisk.owner = a /\ OnDisk.child # "none")',
           Fine(a)'
    PROVE  LockInv' /\ Kept
<1>1. a \in Proc /\ LeaseTypeOK
  BY DEF LastInv, LeaseTypeOK
<1>2. robbed' = robbed \cup (Guarded \ {a})
  BY DEF RobAllBut
<1>3. Guarded' \subseteq Guarded \cup {a}
  BY DEF Guarded
<1>4. half \subseteq Guarded
  BY DEF Guarded
<1>5. CASE a \in robbed
  <2>1. \A p, q \in Guarded' : p \notin robbed' => p = q
    BY <1>2, <1>3, <1>5
  <2>2. OnDisk' # None => half' \subseteq robbed'
    BY <1>2, <1>4
  <2> QED BY <1>1, <1>2, <1>5, <2>1, <2>2, TouchStep
<1>6. CASE a \notin robbed
  <2>1. Guarded = {a} /\ robbed' = robbed
    BY <1>2, <1>6, OnlyOne
  <2>2. \A p, q \in Guarded' : p \notin robbed' => p = q
    BY <1>3, <2>1
  <2>3. OnDisk' # None => half' \subseteq robbed'
    BY <1>4, <2>1
  <2> QED BY <1>1, <2>1, <2>2, <2>3, TouchStep
<1> QED BY <1>5, <1>6

LEMMA TruncateKeeps ==
    ASSUME LastInv, LockInv, NEW a \in alive, Truncate(a) \/ Unlink(a)
    PROVE  LockInv' /\ Kept
<1>1. Fine(a) /\ a \in Proc /\ LeaseTypeOK
  BY DEF LockInv, LastInv, LeaseTypeOK
<1>2. /\ Apart(a) /\ LastInv' /\ UNCHANGED <<alive, mem, seen, job, child>> /\ RobAllBut({a})
      /\ a \in robbed' <=> a \in robbed
  BY LastingTruncate DEF Truncate, Unlink, RobAllBut
<1>3. /\ OnDisk' = None
      /\ \/ half' = half \cup {a} /\ pc[a] = "writing" /\ pc'[a] = "filling"
         \/ half' = {} /\ pc[a] = "unlinking" /\ pc'[a] = "dropping"
  BY <1>1, ReadsLock DEF Truncate, Unlink, Unlinked, Broken, OnDisk, Goto, LeaseTypeOK
<1>4. Fine(a)'
  BY <1>1, <1>2, <1>3 DEF Fine, HasLock, Ledger, Stale, Lockers, Halfway, SurePlace, Rewriting
<1>5. child[a] => a \in half'
  BY <1>1, <1>3 DEF Fine, Ledger, Rewriting
<1>6. pc[a] \in Lockers \cup Halfway /\ half' \subseteq half \cup {a} /\ pc'[a] # pc[a]
  BY <1>3 DEF Lockers
<1> QED BY <1>2, <1>3, <1>4, <1>5, <1>6, HolderStep

LEMMA FillNewKeeps ==
    ASSUME LastInv, LockInv, NEW a \in alive, FillNew(a)
    PROVE  LockInv' /\ Kept
<1>1. Fine(a) /\ a \in Proc /\ LeaseTypeOK /\ pc[a] = "creating" /\ pc'[a] = "held"
  BY NewLock DEF LockInv, LastInv, LeaseTypeOK
<1>2. Apart(a) /\ LastInv' /\ UNCHANGED <<alive, seen, job, child>>
  BY LastingFillNew DEF FillNew
<1>3. ~child[a]
  BY <1>1 DEF Fine, Ledger, Rewriting
<1>4. a \notin robbed => a \in half /\ OnDisk = None
  BY <1>1 DEF Fine, HasLock, Halfway, LockInv
<1>5. a \in robbed' <=> a \in robbed
  BY NewLock DEF RobAllBut
<1>6. Fine(a)'
  BY <1>1, <1>2, <1>3, <1>4, <1>5, NewLock
     DEF Fine, HasLock, Ledger, Stale, Same, Lockers, Halfway, SurePlace, Rewriting
<1>7. CASE a \in half
  BY <1>1, <1>2, <1>3, <1>6, <1>7, NewLock, HolderStep DEF Halfway
<1>8. CASE a \notin half
  BY <1>1, <1>2, <1>6, <1>8, NewLock, QuietStep
<1> QED BY <1>7, <1>8

LEMMA FillKeeps ==
    ASSUME LastInv, LockInv, NEW a \in alive, Fill(a)
    PROVE  LockInv' /\ Kept
<1>1. Fine(a) /\ a \in Proc /\ LeaseTypeOK /\ OwnLock(a) /\ pc[a] = "filling"
  BY FilledLock DEF LockInv, LastInv, LeaseTypeOK, Lasting
<1>2. Apart(a) /\ LastInv' /\ UNCHANGED <<alive, seen, child>>
  BY LastingFill DEF Fill
<1>3. a \notin robbed => a \in half /\ OnDisk = None
  BY <1>1 DEF Fine, HasLock, Halfway, LockInv
<1>4. a \in robbed' <=> a \in robbed
  BY FilledLock DEF RobAllBut
<1>5. /\ job[a] \in {"renewRunning", "mark", "spawn"} => ChildOf(a) # "none"
      /\ job[a] \in {"renew", "renewSpawn", "close"} => ChildOf(a) = "none"
      /\ child[a] => job[a] \in {"mark", "renewRunning"}
      /\ job[a] \in {"renewRunning", "mark"} => mem[a].child # "none"
  BY <1>1 DEF Fine, Ledger, OwnLock, Rewriting, Clear, ChildOf
<1>6. pc'[a] \in Lockers \ {"unlinking"}
  BY <1>1, FilledLock DEF Onward, Home, Lockers
<1>7. Fine(a)'
  <2>1. Ledger(a)'
    BY <1>1, <1>2, <1>5, FilledLock DEF Onward, Home, Ledger, Rewriting
  <2>2. HasLock(a)'
    BY <1>1, <1>2, <1>3, <1>4, <1>5, <1>6, FilledLock
       DEF Onward, Home, HasLock, Same, Lockers, Halfway
  <2>3. Stale(a)'
    BY <1>6 DEF Stale, SurePlace, Lockers
  <2> QED BY <2>1, <2>2, <2>3 DEF Fine
<1>8. CASE a \in half
  <2>1. RobAllBut({a}) /\ half' = half \ {a} /\ pc'[a] # pc[a] /\ pc[a] \in Halfway
    BY <1>1, <1>6, <1>8, FilledLock DEF Lockers, Halfway
  <2>2. OnDisk' = None \/ (OnDisk' # None /\ OnDisk'.owner = a /\ OnDisk'.child = ChildOf(a))
    BY <1>8, FilledLock
  <2>3. a \notin robbed => OnDisk' # None
    BY <1>3, <1>8, FilledLock
  <2> QED BY <1>2, <1>5, <1>7, <2>1, <2>2, <2>3, HolderStep
<1>9. CASE a \notin half
  BY <1>1, <1>2, <1>6, <1>7, <1>9, FilledLock, QuietStep
<1> QED BY <1>8, <1>9

-----------------------------------------------------------------------------
(* The guarantees. *)

LEMMA DieKeeps ==
    ASSUME LastInv, LockInv, NEW a \in alive, Die(a)
    PROVE  LockInv' /\ Kept
<1>1. a \in Proc /\ LeaseTypeOK
  BY DEF LastInv, LeaseTypeOK
<1>2. /\ UNCHANGED <<file, half, child, robbed>> /\ OnDisk' = OnDisk /\ Guarded' = Guarded
      /\ alive' = alive \ {a} /\ pc'[a] = "dead"
  BY <1>1 DEF Die, Goto, LeaseTypeOK, OnDisk, Guarded
<1>3. ASSUME NEW p \in Proc PROVE Fine(p)'
  <2>1. Fine(p)
    BY DEF LockInv
  <2>2. CASE p = a
    BY <1>2, <2>2 DEF Fine, HasLock, Ledger, Stale, Lockers, Halfway, SurePlace, Rewriting
  <2>3. CASE p # a
    <3>1. /\ pc'[p] = pc[p] /\ mem'[p] = mem[p] /\ seen'[p] = seen[p] /\ job'[p] = job[p]
      BY <1>1, <2>3 DEF Die, Forget, Goto, LeaseTypeOK
    <3> QED BY <1>2, <2>1, <2>3, <3>1 DEF Fine, HasLock, Ledger, Stale, Same, ChildGone
  <2> QED BY <2>2, <2>3
<1>4. pc[a] # "dead"
  BY <1>1 DEF LastInv, Lasting
<1>5. ASSUME NEW p \in alive, p # a PROVE mem'[p] = mem[p]
  BY <1>1, <1>5 DEF Die, Forget, LeaseTypeOK
<1>6. Kept
  BY <1>2, <1>4, <1>5 DEF Kept, Same
<1> QED BY <1>2, <1>3, <1>6 DEF LockInv, RunningChildIsGuarded

LEMMA WorldKeeps ==
    ASSUME LastInv, LockInv, (\E a \in Proc : ChildExits(a)) \/ LapseRow
    PROVE  LockInv' /\ Kept
<1>1. /\ UNCHANGED <<file, half, robbed, local>> /\ LeaseTypeOK
      /\ \A p \in Proc : child'[p] => child[p]
  BY DEF ChildExits, LapseRow, LastInv, LeaseTypeOK
<1>2. OnDisk' = OnDisk /\ Guarded' = Guarded
  BY <1>1 DEF OnDisk, Guarded
<1>3. ASSUME NEW p \in Proc PROVE Fine(p)'
  <2>1. Fine(p) /\ seen[p] \in Lock \cup {None}
    BY <1>1 DEF LockInv, LeaseTypeOK
  <2>2. HasLock(p)' /\ Ledger(p)'
    BY <1>1, <1>2, <2>1 DEF local, Fine, HasLock, Ledger, Same
  <2>3. ASSUME seen[p] # None, ChildGone(p, seen[p]) PROVE ChildGone(p, seen[p])'
    <3>1. seen[p].owner \in Proc
      BY <2>1, <2>3 DEF Lock
    <3> QED BY <1>1, <2>3, <3>1 DEF ChildGone, local
  <2>4. Stale(p)'
    BY <1>1, <2>1, <2>3 DEF local, Fine, Stale
  <2> QED BY <2>2, <2>4 DEF Fine
<1>4. Kept
  BY <1>1, <1>2 DEF Kept, Same, local
<1> QED BY <1>1, <1>2, <1>3, <1>4 DEF LockInv, RunningChildIsGuarded

LEMMA ActorKeeps ==
    ASSUME LastInv, LockInv, NEW a \in alive, Acquiring(a) \/ Holding(a) \/ Recovering(a)
    PROVE  LockInv' /\ Kept
BY QuietKeeps, SpawnKeeps, CreateKeeps, DisplaceKeeps, TruncateKeeps, FillNewKeeps, FillKeeps
   DEF Acquiring, Holding, Recovering

\* One step of any controller, of a command or of time.
LEMMA StepKeeps == LastInv /\ LockInv /\ [Next]_vars => LockInv' /\ Kept
<1> SUFFICES ASSUME LastInv, LockInv, [Next]_vars PROVE LockInv' /\ Kept
  OBVIOUS
<1>1. CASE UNCHANGED vars
  BY <1>1 DEF vars, LockInv, RunningChildIsGuarded, Fine, HasLock, Ledger, Stale, Same,
              ChildGone, OnDisk, Guarded, Kept
<1> QED BY <1>1, ActorKeeps, DieKeeps, WorldKeeps DEF Next

LEMMA LockInvariance == Spec => []LockInv
<1>1. Init => LockInv
  <2> SUFFICES ASSUME Init PROVE LockInv
    OBVIOUS
  <2>1. Guarded = {} /\ OnDisk = None
    BY RepositoryLeaseAssumption DEF Init, Guarded, OnDisk
  <2>2. ASSUME NEW p \in Proc PROVE Fine(p)
    BY DEF Init, Fine, HasLock, Ledger, Stale, Lockers, Halfway, SurePlace, Rewriting
  <2> QED BY <2>1, <2>2 DEF Init, LockInv, RunningChildIsGuarded
<1>2. LastInv /\ LockInv /\ [Next]_vars => LockInv'
  BY StepKeeps
<1> QED BY <1>1, <1>2, LastInvariance, PTL DEF Spec

\* A Git command that runs is on record in the lock file, whatever died, unless its
\* controller is rewriting the file or has been robbed of it.
THEOREM RunningChildrenAreGuarded == Spec => []RunningChildIsGuarded
<1>1. LockInv => RunningChildIsGuarded
  BY DEF LockInv
<1> QED BY <1>1, LockInvariance, PTL

\* No two Git commands run in the repository, those of dead controllers included,
\* unless one of the two controllers has been robbed of its lock.
THEOREM OneGitCommandAtATime == Spec => []OneGitChild
<1>1. LockInv => OneGitChild
  BY DEF LockInv, RunningChildIsGuarded, Guarded, OneGitChild
<1> QED BY <1>1, LockInvariance, PTL

\* The lock of a live controller goes only by its own doing, by a renaming that was
\* overtaken, or by one that was robbed, even after its lease has run out.
THEOREM LiveLocksAreKept == Spec => LiveLockIsKept
<1>1. LastInv /\ LockInv /\ [Next]_vars => [Kept]_vars
  BY StepKeeps
<1>2. [Kept]_vars =>
      [\A p \in alive \ robbed :
          (p \in half \/ Same(OnDisk, mem[p])) /\ ~(p \in half' \/ Same(OnDisk, mem[p])')
          => \/ pc'[p] # pc[p]
             \/ \E q \in Late \cup (robbed \cap alive) : pc'[q] # pc[q]]_vars
  BY DEF Kept
<1> QED BY <1>1, <1>2, LastInvariance, LockInvariance, PTL DEF Spec, LiveLockIsKept

-----------------------------------------------------------------------------
(* The turns: the lock implements GitTurn. *)

\* The variables of GitTurn.
turnView == <<Guarded \ robbed, Working \ robbed, Running \ robbed, Proc \ alive, Sure, Late,
              robbed>>

\* What counts for the turn is inside the lock file, and only one controller's.
LEMMA InTurn ==
    ASSUME LastInv, LockInv
    PROVE  /\ Working \ robbed \subseteq Guarded /\ Running \ robbed \subseteq Guarded
           /\ \A p, q \in Guarded \ robbed : p = q
           /\ Working \subseteq alive
<1>1. ASSUME NEW p \in Proc, p \notin robbed \cup Guarded
      PROVE  pc[p] \notin Lockers \cup Halfway /\ ~child[p]
  BY <1>1, Outsider
<1>2. \A p \in Proc : pc[p] \in Lockers \cup Halfway => p \in alive
  BY DEF LastInv, Lasting, Lockers, Halfway
<1>3. \A p, q \in Guarded \ robbed : p = q
  BY DEF LockInv
<1> QED BY <1>1, <1>2, <1>3 DEF Working, Running

\* The same of the next state.
LEMMA InTurnThen == (LastInv /\ LockInv => Working \ robbed \subseteq Guarded)'
<1>1. LastInv /\ LockInv => Working \ robbed \subseteq Guarded
  BY InTurn
<1> QED BY <1>1, PTL

\* A judgement about a lock in place is right: its controller is dead and runs nothing.
LEMMA Judged ==
    ASSUME LastInv, LockInv, NEW a \in Proc, OnDisk # None, OnDisk.owner \notin alive,
           ChildGone(a, OnDisk)
    PROVE  /\ Guarded \ robbed \subseteq {OnDisk.owner}
           /\ Guarded \ robbed \subseteq Proc \ alive
           /\ Running \ robbed = {} /\ Working \ robbed = {}
<1>1. Guarded \ robbed \subseteq {OnDisk.owner} /\ Guarded \subseteq Proc
  BY DEF LockInv, Guarded, LastInv, LeaseTypeOK
<1>2. ASSUME OnDisk.owner \notin robbed, OnDisk.owner \in Proc PROVE ~child[OnDisk.owner]
  <2>1. OnDisk.owner \notin half
    BY <1>2 DEF LockInv
  <2> QED BY <1>2, <2>1 DEF LockInv, RunningChildIsGuarded, ChildGone
<1>3. Running \ robbed = {}
  BY <1>1, <1>2, InTurn DEF Running
<1>4. Working \ robbed = {}
  BY <1>1, InTurn
<1> QED BY <1>1, <1>3, <1>4

\* Where the file is nobody's or a live controller's, every judgement is overtaken.
LEMMA AllLate ==
    ASSUME LastInv, LockInv, OnDisk = None \/ OnDisk.owner \in alive
    PROVE  Late = Sure
BY DEF LockInv, Fine, Stale, SurePlace, Late, Sure, Same

LEMMA AllLateThen ==
    ASSUME LastInv', LockInv', OnDisk' = None \/ OnDisk'.owner \in alive'
    PROVE  Late' = Sure'
BY DEF LockInv, Fine, Stale, SurePlace, Late, Sure, Same

\* Steps that change nothing a turn is made of.
LEMMA QuietTurns ==
    ASSUME LastInv, LockInv, NEW a \in alive,
           \/ Claim(a) \/ Study(a) \/ Check(a) \/ Close(a) \/ Release(a) \/ Inspect(a)
           \/ DropOrphan(a) \/ \E j \in Job : Renew(a, j)
    PROVE  UNCHANGED turnView
<1>1. Fine(a) /\ a \in Proc /\ LeaseTypeOK
  BY DEF LockInv, LastInv, LeaseTypeOK
<1>2. UNCHANGED <<file, half, child, alive, robbed>>
  BY DEF Claim, Study, Check, Close, Release, Inspect, DropOrphan, Renew
<1>3. OnDisk' = OnDisk /\ Guarded' = Guarded /\ Running' = Running
  BY <1>2 DEF OnDisk, Guarded, Running
<1>4. Apart(a)
  BY LastingQuiet, LastingForget, LastingClaim
<1>5. pc[a] \notin SurePlace /\ pc'[a] \notin SurePlace
  BY <1>1 DEF Claim, Study, Check, Lose, Home, Close, Release, Inspect, DropOrphan, Renew,
              Goto, LeaseTypeOK, SurePlace
<1>6. Sure' = Sure /\ Late' = Late
  BY <1>3, <1>4, <1>5 DEF Apart, Sure, Late, Same, SurePlace
<1>7. a \in robbed \/ (pc'[a] \in Lockers \cup Halfway <=> pc[a] \in Lockers \cup Halfway)
  <2>1. CASE Release(a)
    BY <1>1, <2>1 DEF Release, Fine, HasLock, Goto, LeaseTypeOK, Lockers, Halfway
  <2>2. CASE ~Release(a)
    BY <1>1, <2>2 DEF Claim, Study, Check, Lose, Home, Close, Inspect, DropOrphan, Renew,
                      Goto, LeaseTypeOK, Lockers, Halfway
  <2> QED BY <2>1, <2>2
<1>8. (Working \ robbed)' = Working \ robbed
  BY <1>2, <1>4, <1>7 DEF Apart, Working
<1> QED BY <1>2, <1>3, <1>6, <1>8 DEF turnView

\* The end of a proof that a dead controller's turn is over.
LEMMA JudgingTurns ==
    ASSUME LastInv, LockInv, NEW a \in alive, Prove(a) \/ Certify(a)
    PROVE  Turn!Judge(a) \/ UNCHANGED turnView
<1>1. Fine(a) /\ a \in Proc /\ LeaseTypeOK
  BY DEF LockInv, LastInv, LeaseTypeOK
<1>2. UNCHANGED <<file, half, child, alive, robbed>>
  BY DEF Prove, Certify
<1>3. OnDisk' = OnDisk /\ Guarded' = Guarded /\ Running' = Running
  BY <1>2 DEF OnDisk, Guarded, Running
<1>4. Apart(a)
  BY LastingQuiet, LastingForget
<1>5. /\ pc[a] \in {"proving", "inspected"}
      /\ pc'[a] \in SurePlace \cup {"dropping", "orphan", "idle"}
  BY <1>1 DEF Prove, Certify, Goto, LeaseTypeOK, SurePlace
<1>6. Working' = Working
  BY <1>4, <1>5 DEF Apart, Working, Lockers, Halfway, SurePlace
<1>7. CASE pc'[a] \in SurePlace
  <2>1. /\ Same(OnDisk, seen[a]) /\ ChildGone(a, OnDisk) /\ seen[a] # None /\ seen' = seen
        /\ OnDisk = seen[a] /\ OnDisk # None
    BY <1>1, <1>7 DEF Prove, Certify, Goto, LeaseTypeOK, SurePlace, Same
  <2>2. OnDisk.owner \notin alive
    BY <1>1, <1>5, <2>1 DEF Fine, Stale
  <2>3. Guarded \ robbed \subseteq Proc \ alive /\ Running \ robbed = {}
    BY <1>1, <2>1, <2>2, Judged
  <2>4. Sure' = Sure \cup {a} /\ Late' = Late
    BY <1>1, <1>3, <1>4, <1>5, <1>7, <2>1 DEF Apart, Sure, Late, Same, SurePlace
  <2> QED BY <1>2, <1>3, <1>6, <2>3, <2>4 DEF Turn!Judge
<1>8. CASE pc'[a] \notin SurePlace
  <2>1. Sure' = Sure /\ Late' = Late
    BY <1>3, <1>4, <1>5, <1>8 DEF Apart, Sure, Late, Same, SurePlace
  <2> QED BY <1>2, <1>3, <1>6, <2>1 DEF turnView
<1> QED BY <1>7, <1>8

\* A controller that gave up notices that it was robbed, if it was.
LEMMA DropTurns ==
    ASSUME LastInv, LockInv, NEW a \in alive, Drop(a)
    PROVE  Turn!Notice(a)
<1>1. Fine(a) /\ a \in Proc /\ LeaseTypeOK /\ OwnLock(a)
  BY DEF LockInv, LastInv, LeaseTypeOK, Lasting
<1>2. /\ UNCHANGED <<file, half, child, alive>> /\ robbed' = robbed \ {a}
      /\ pc[a] = "dropping" /\ pc'[a] = "idle"
  BY <1>1 DEF Drop, Goto, LeaseTypeOK
<1>3. OnDisk' = OnDisk /\ Guarded' = Guarded /\ Running' = Running
  BY <1>2 DEF OnDisk, Guarded, Running
<1>4. Apart(a)
  BY LastingForget
<1>5. a \notin Guarded /\ a \notin Running
  BY <1>1, <1>2 DEF OwnLock, Fine, Ledger, Guarded, Running, Lockers, Halfway, Rewriting
<1>6. Working' = Working /\ a \notin Working
  BY <1>2, <1>4 DEF Apart, Working, Lockers, Halfway
<1>7. Sure' = Sure /\ Late' = Late
  BY <1>2, <1>3, <1>4 DEF Apart, Sure, Late, Same
<1> QED BY <1>2, <1>3, <1>5, <1>6, <1>7 DEF Turn!Notice

LEMMA CreateTurns ==
    ASSUME LastInv, LockInv, NEW a \in alive, Create(a)
    PROVE  Turn!Take(a) \/ UNCHANGED turnView
<1>1. Fine(a) /\ a \in Proc /\ LeaseTypeOK
  BY DEF LockInv, LastInv, LeaseTypeOK
<1>2. /\ UNCHANGED <<child, alive, robbed>> /\ Apart(a) /\ Running' = Running
      /\ pc[a] \in {"claimed", "displaced"}
  BY LastingCreate DEF Create, Running
<1>3. a \notin robbed
  BY <1>1, <1>2 DEF Fine, HasLock, Lockers, Halfway
<1>4. CASE Exists
  <2>1. UNCHANGED <<file, half>> /\ pc'[a] \in {"conflict", "dropping"}
    BY <1>1, <1>4 DEF Create, Goto, LeaseTypeOK
  <2>2. OnDisk' = OnDisk /\ Guarded' = Guarded
    BY <2>1 DEF OnDisk, Guarded
  <2>3. Working' = Working /\ Sure' = Sure /\ Late' = Late
    BY <1>2, <2>1, <2>2 DEF Apart, Working, Lockers, Halfway, Sure, Late, Same
  <2> QED BY <1>2, <2>2, <2>3 DEF turnView
<1>5. CASE ~Exists
  <2>1. /\ OnDisk = None /\ OnDisk' = None /\ pc'[a] = "creating"
        /\ Guarded = {} /\ Guarded' = {a}
    BY <1>1, <1>5 DEF Create, Broken, Exists, Goto, LeaseTypeOK, OnDisk, Guarded, LastInv
  <2>2. Working \ robbed = {}
    BY <2>1, InTurn
  <2>3. (Working \ robbed)' = {a}
    BY <1>1, <1>2, <1>3, <2>1, <2>2 DEF Apart, Working, Halfway
  <2>4. Late = Sure
    BY <2>1, AllLate
  <2>5. Sure' = Sure /\ Late' = Late
    BY <1>2, <2>1, <2>4 DEF Apart, Sure, Late, Same
  <2> QED BY <1>2, <1>3, <2>1, <2>2, <2>3, <2>4, <2>5 DEF Turn!Take
<1> QED BY <1>4, <1>5

\* What a renaming that comes too late, or the writing of one that was robbed, does.
LEMMA RobberyTurns ==
    ASSUME LastInv, LockInv, LastInv', LockInv', NEW a \in alive,
           alive' = alive, child' = child, Apart(a),
           a \in Late \cup robbed, RobAllBut({a}) \/ RobAllBut({}),
           a \notin robbed => a \notin Guarded /\ pc'[a] \notin Lockers \cup Halfway,
           Guarded' \subseteq Guarded \cup {a}, a \notin robbed => Guarded' = {}
    PROVE  Turn!Robbery
<1>1. robbed' = robbed \cup (Guarded \ robbed)
  BY DEF RobAllBut
<1>2. (Guarded \ robbed)' = {}
  BY <1>1
<1>3. (Running \ robbed)' = {}
  BY <1>1, InTurn DEF Running
<1>4. (Working \ robbed)' = {}
  <2>1. SUFFICES ASSUME NEW p \in Proc, pc'[p] \in Lockers \cup Halfway, p \notin robbed'
                 PROVE  FALSE
    BY DEF Working
  <2>2. p # a
    BY <1>1, <2>1
  <2>3. p \in Working \ robbed
    BY <1>1, <2>1, <2>2 DEF Apart, Working
  <2> QED BY <1>1, <2>1, <2>3, InTurn
<1> QED BY <1>1, <1>2, <1>3, <1>4 DEF Turn!Robbery

LEMMA DisplaceTurns ==
    ASSUME LastInv, LockInv, LastInv', LockInv', NEW a \in alive, Displace(a)
    PROVE  Turn!Clear(a) \/ Turn!ClearLate(a)
<1>1. Fine(a) /\ a \in Proc /\ LeaseTypeOK /\ OwnLock(a)
  BY DEF LockInv, LastInv, LeaseTypeOK, Lasting
<1>2. Apart(a) /\ UNCHANGED <<alive, child>> /\ Running' = Running
  BY LastingDisplace DEF Displace, Running
<1>3. /\ OnDisk' = None /\ Guarded' = {}
      /\ pc[a] \in SurePlace /\ pc'[a] \in {"displaced", "dropping", "orphan", "idle"}
  BY <1>1 DEF Displace, Unlinked, Goto, LeaseTypeOK, OnDisk, Guarded, SurePlace
<1>4. a \notin Guarded
  BY <1>1, <1>3 DEF OwnLock, Guarded, Lockers, Halfway, SurePlace
<1>5. Sure' = Sure \ {a} /\ a \in Sure /\ Working' = Working
  BY <1>1, <1>2, <1>3 DEF Apart, Sure, Working, Lockers, Halfway, SurePlace
<1>6. Late' = Sure'
  BY <1>3, AllLateThen
<1>7. CASE Same(OnDisk, seen[a])
  <2>1. /\ OnDisk # None /\ OnDisk.owner \notin alive /\ ChildGone(a, OnDisk)
        /\ seen[a] = OnDisk /\ a \notin Late
    BY <1>1, <1>3, <1>7 DEF Fine, Stale, Same, Late
  <2>2. robbed' = robbed \cup (Guarded \ {OnDisk.owner})
    BY <1>7, <2>1 DEF Displace, RobAllBut
  <2>3. /\ Guarded \ robbed \subseteq {OnDisk.owner} /\ Guarded \ robbed \subseteq Proc \ alive
        /\ Running \ robbed = {} /\ Working \ robbed = {}
    BY <1>1, <2>1, Judged
  <2>4. robbed' = robbed
    BY <2>2, <2>3
  <2> QED BY <1>2, <1>3, <1>5, <1>6, <2>1, <2>3, <2>4 DEF Turn!Clear
<1>8. CASE ~Same(OnDisk, seen[a])
  <2>1. a \in Late
    BY <1>1, <1>3, <1>8 DEF Late, SurePlace
  <2>2. RobAllBut({})
    BY <1>8 DEF Displace
  <2>3. Turn!Robbery
    BY <1>2, <1>3, <1>4, <2>1, <2>2, RobberyTurns DEF Lockers, Halfway
  <2> QED BY <1>5, <1>6, <2>1, <2>3 DEF Turn!ClearLate
<1> QED BY <1>7, <1>8

\* Writing the file by its holder leaves the turn, by one that was robbed it robs others.
LEMMA WritingTurns ==
    ASSUME LastInv, LockInv, LastInv', LockInv', NEW a \in alive,
           Truncate(a) \/ Fill(a) \/ FillNew(a)
    PROVE  Turn!Meddle(a) \/ UNCHANGED turnView
<1>1. Fine(a) /\ a \in Proc /\ LeaseTypeOK
  BY DEF LockInv, LastInv, LeaseTypeOK
<1>2. Apart(a) /\ UNCHANGED <<alive, child, seen>> /\ Running' = Running
  BY LastingTruncate, LastingFill, LastingFillNew DEF Truncate, Fill, FillNew, Running
<1>3. /\ pc[a] \in Lockers \cup Halfway /\ pc'[a] \in Lockers \cup Halfway
  <2>1. CASE Truncate(a)
    BY <1>1, <2>1 DEF Truncate, Goto, LeaseTypeOK, Lockers, Halfway
  <2>2. CASE FillNew(a)
    BY <2>2, NewLock DEF Lockers, Halfway
  <2>3. CASE Fill(a)
    <3>1. pc[a] = "filling" /\ (Onward(a) \/ pc'[a] = Home(job[a]))
      BY <2>3, FilledLock
    <3> QED BY <3>1 DEF Onward, Home, Lockers, Halfway
  <2> QED BY <2>1, <2>2, <2>3
<1>4. Sure' = Sure /\ Working' = Working
  BY <1>2, <1>3 DEF Apart, Sure, Working, Lockers, Halfway
<1>5. \/ /\ RobAllBut({a}) /\ Guarded' \subseteq Guarded \cup {a}
         /\ OnDisk' = None \/ OnDisk'.owner = a
      \/ UNCHANGED <<file, half, robbed>> /\ OnDisk' = OnDisk /\ a \in robbed
  <2>1. CASE Truncate(a)
    BY <2>1, ReadsLock, <1>1 DEF Truncate, Broken, OnDisk, Guarded
  <2>2. CASE FillNew(a) \/ Fill(a)
    <3>1. a \notin half => a \in robbed /\ UNCHANGED <<file, half, robbed>> /\ OnDisk' = OnDisk
      BY <1>1, <2>2, NewLock, FilledLock DEF Fine, HasLock, Halfway
    <3>2. a \in half => /\ RobAllBut({a}) /\ half' = half \ {a}
                        /\ OnDisk' = None \/ OnDisk'.owner = a
      BY <2>2, NewLock, FilledLock
    <3>3. a \in half => Guarded' \subseteq Guarded \cup {a}
      BY <3>2 DEF Guarded
    <3> QED BY <3>1, <3>2, <3>3
  <2> QED BY <2>1, <2>2
<1>6. CASE UNCHANGED <<file, half, robbed>> /\ OnDisk' = OnDisk
  <2>1. Guarded' = Guarded
    BY <1>6 DEF Guarded
  <2>2. Late' = Late
    BY <1>2, <1>3, <1>6 DEF Apart, Late, Lockers, Halfway
  <2> QED BY <1>2, <1>4, <1>6, <2>1, <2>2 DEF turnView
<1>7. CASE RobAllBut({a}) /\ Guarded' \subseteq Guarded \cup {a}
           /\ (OnDisk' = None \/ OnDisk'.owner = a)
  <2>1. Late' = Sure'
    BY <1>2, <1>7, AllLateThen
  <2>2. CASE a \in robbed
    <3>1. Turn!Robbery
      BY <1>2, <1>7, <2>2, RobberyTurns
    <3> QED BY <1>4, <2>1, <2>2, <3>1 DEF Turn!Meddle
  <2>3. CASE a \notin robbed
    <3>1. Guarded = {a} /\ robbed' = robbed
      BY <1>3, <1>7, <2>3, OnlyOne DEF RobAllBut
    <3>2. Guarded' = {a}
      <4>1. a \in Working' \ robbed'
        BY <1>1, <1>3, <2>3, <3>1 DEF Working
      <4>2. (Working \ robbed \subseteq Guarded)'
        BY InTurnThen
      <4> QED BY <1>7, <3>1, <4>1, <4>2
    <3>3. OnDisk = None \/ OnDisk.owner \in alive
      BY <1>1, <3>1, ReadsLock DEF Guarded, Lock
    <3>4. Late = Sure
      BY <3>3, AllLate
    <3> QED BY <1>2, <1>4, <2>1, <3>1, <3>2, <3>4 DEF turnView
  <2> QED BY <2>2, <2>3
<1> QED BY <1>5, <1>6, <1>7

LEMMA UnlinkTurns ==
    ASSUME LastInv, LockInv, LastInv', LockInv', NEW a \in alive, Unlink(a)
    PROVE  Turn!Meddle(a) \/ Turn!GiveBack(a)
<1>1. Fine(a) /\ a \in Proc /\ LeaseTypeOK
  BY DEF LockInv, LastInv, LeaseTypeOK
<1>2. Apart(a) /\ UNCHANGED <<alive, child, seen>> /\ Running' = Running
  BY LastingTruncate DEF Unlink, Running
<1>3. /\ pc[a] = "unlinking" /\ pc'[a] = "dropping" /\ RobAllBut({a})
      /\ OnDisk' = None /\ Guarded' = {}
  BY <1>1 DEF Unlink, Unlinked, Goto, LeaseTypeOK, OnDisk, Guarded
<1>4. Sure' = Sure /\ Late' = Sure'
  BY <1>2, <1>3, AllLateThen DEF Apart, Sure
<1>5. CASE a \in robbed
  <2>1. Turn!Robbery
    BY <1>2, <1>3, <1>5, RobberyTurns
  <2> QED BY <1>4, <1>5, <2>1 DEF Turn!Meddle
<1>6. CASE a \notin robbed
  <2>1. Guarded = {a} /\ robbed' = robbed
    BY <1>3, <1>6, OnlyOne DEF RobAllBut, Lockers
  <2>2. OnDisk = None \/ OnDisk.owner \in alive
    BY <1>1, <2>1, ReadsLock DEF Guarded, Lock
  <2>3. Late = Sure
    BY <2>2, AllLate
  <2>4. Working \ robbed = {a} /\ (Working \ robbed)' = {}
    <3>1. a \in Working /\ a \notin Working'
      BY <1>1, <1>3 DEF Working, Lockers, Halfway
    <3>2. Working' \subseteq Working
      BY <1>2, <3>1 DEF Apart, Working
    <3> QED BY <1>6, <2>1, <3>1, <3>2, InTurn
  <2>5. Running \ robbed = {}
    <3>1. ~child[a]
      BY <1>1, <1>3 DEF Fine, Ledger, Rewriting
    <3> QED BY <2>1, <3>1, InTurn DEF Running
  <2> QED BY <1>2, <1>3, <1>4, <2>1, <2>3, <2>4, <2>5 DEF Turn!GiveBack
<1> QED BY <1>5, <1>6

LEMMA SpawnTurns ==
    ASSUME LastInv, LockInv, NEW a \in alive, Spawn(a)
    PROVE  Turn!Start(a) \/ UNCHANGED turnView
<1>1. Fine(a) /\ a \in Proc /\ LeaseTypeOK
  BY DEF LockInv, LastInv, LeaseTypeOK
<1>2. /\ UNCHANGED <<file, half, alive, seen, robbed>> /\ Apart(a)
      /\ pc[a] = "spawning" /\ pc'[a] = "checking"
      /\ child' = child \/ child' = [child EXCEPT ![a] = TRUE]
  BY <1>1, LastingQuiet DEF Spawn, Goto, LeaseTypeOK
<1>3. OnDisk' = OnDisk /\ Guarded' = Guarded
  BY <1>2 DEF OnDisk, Guarded
<1>4. Working' = Working /\ Sure' = Sure /\ Late' = Late /\ a \in Working
  BY <1>1, <1>2, <1>3 DEF Apart, Working, Sure, Late, Lockers
<1>5. CASE child' = child
  BY <1>2, <1>3, <1>4, <1>5 DEF turnView, Running
<1>6. CASE child' = [child EXCEPT ![a] = TRUE]
  <2>1. Running' = Running \cup {a}
    BY <1>1, <1>6 DEF Running, LeaseTypeOK
  <2>2. CASE a \in robbed
    BY <1>2, <1>3, <1>4, <2>1, <2>2 DEF turnView
  <2>3. CASE a \notin robbed
    <3>1. Guarded = {a}
      BY <1>2, <2>3, OnlyOne DEF Lockers
    <3>2. Working \ robbed = {a}
      BY <1>4, <2>3, <3>1, InTurn
    <3>3. Running \ robbed = {}
      <4>1. ~child[a]
        BY <1>1, <1>2 DEF Fine, Ledger, Rewriting
      <4> QED BY <3>1, <4>1, InTurn DEF Running
    <3> QED BY <1>2, <1>3, <1>4, <2>1, <2>3, <3>2, <3>3 DEF Turn!Start
  <2> QED BY <2>2, <2>3
<1> QED BY <1>2, <1>5, <1>6

\* Commands exit, controllers die, time passes.
LEMMA WorldTurns ==
    ASSUME LastInv, LockInv, \/ \E a \in alive : Die(a)
                             \/ \E a \in Proc : ChildExits(a)
                             \/ LapseRow
    PROVE  Turn!Next \/ UNCHANGED turnView
<1>1. LeaseTypeOK /\ alive \subseteq Proc /\ OnDisk' = OnDisk
      /\ UNCHANGED <<half, robbed>>
  BY DEF LastInv, LeaseTypeOK, Die, ChildExits, LapseRow, OnDisk
<1>2. Guarded' = Guarded
  BY <1>1 DEF Guarded
<1>3. ASSUME NEW a \in alive, Die(a) PROVE Turn!Die(a) /\ a \in Proc
  <2>1. /\ (Proc \ alive)' = (Proc \ alive) \cup {a} /\ child' = child
        /\ pc'[a] = "dead" /\ \A p \in Proc : p # a => pc'[p] = pc[p] /\ seen'[p] = seen[p]
    BY <1>1, <1>3 DEF Die, Forget, Goto, LeaseTypeOK
  <2>2. Working' = Working \ {a} /\ Sure' = Sure \ {a} /\ Late' = Late \ {a}
    BY <1>1, <2>1 DEF Working, Lockers, Halfway, Sure, Late
  <2> QED BY <1>1, <1>2, <2>1, <2>2 DEF Turn!Die, Running
<1>4. ASSUME NEW a \in Proc, ChildExits(a) PROVE Turn!Exit \/ UNCHANGED turnView
  <2>1. Running' = Running \ {a} /\ a \in Running
    BY <1>1, <1>4 DEF ChildExits, Running, LeaseTypeOK
  <2>2. Working' = Working /\ Sure' = Sure /\ Late' = Late /\ alive' = alive
    BY <1>1, <1>4 DEF ChildExits, local, Working, Sure, Late
  <2>3. CASE a \in robbed
    BY <1>1, <1>2, <2>1, <2>2, <2>3 DEF turnView
  <2>4. CASE a \notin robbed
    <3>1. Running \ robbed \subseteq {a}
      BY <2>1, <2>4, InTurn
    <3> QED BY <1>1, <1>2, <2>1, <2>2, <3>1 DEF Turn!Exit
  <2> QED BY <2>3, <2>4
<1>5. CASE LapseRow
  <2>1. UNCHANGED <<pc, seen, alive, child>>
    BY <1>5 DEF LapseRow, local
  <2> QED BY <1>1, <1>2, <2>1 DEF turnView, Working, Running, Sure, Late
<1> QED BY <1>3, <1>4, <1>5 DEF Turn!Next

LEMMA ActorTurns ==
    ASSUME LastInv, LockInv, LastInv', LockInv', NEW a \in alive,
           Acquiring(a) \/ Holding(a) \/ Recovering(a)
    PROVE  Turn!Next \/ UNCHANGED turnView
<1>1. a \in Proc
  BY DEF LastInv, LeaseTypeOK
<1>2. \/ Turn!Judge(a) \/ Turn!Notice(a) \/ Turn!Take(a) \/ Turn!Clear(a) \/ Turn!ClearLate(a)
      \/ Turn!Meddle(a) \/ Turn!GiveBack(a) \/ Turn!Start(a) \/ UNCHANGED turnView
  BY QuietTurns, JudgingTurns, DropTurns, CreateTurns, DisplaceTurns, WritingTurns, UnlinkTurns,
     SpawnTurns DEF Acquiring, Holding, Recovering
<1> QED BY <1>1, <1>2 DEF Turn!Next

\* Every behaviour of the lease is one of controllers taking turns: only who has the turn
\* runs Git commands, and a turn is taken from a dead controller whose command has exited,
\* or by a judgement that was overtaken, or by one that was itself robbed of its turn.
THEOREM TakesTurns == Spec => ImplementsGitTurn
<1>1. Init => Turn!Init
  <2> SUFFICES ASSUME Init PROVE Turn!Init
    OBVIOUS
  <2>1. Guarded = {} /\ Working = {} /\ Running = {} /\ Sure = {} /\ Late = {}
    BY RepositoryLeaseAssumption
       DEF Init, Guarded, Working, Running, Sure, Late, Lockers, Halfway, OnDisk
  <2> QED BY <2>1 DEF Init, Turn!Init
<1>2. LastInv /\ LockInv /\ LastInv' /\ LockInv' /\ [Next]_vars => [Turn!Next]_(Turn!vars)
  <2> SUFFICES ASSUME LastInv, LockInv, LastInv', LockInv', [Next]_vars
               PROVE  [Turn!Next]_(Turn!vars)
    OBVIOUS
  <2>1. CASE UNCHANGED vars
    <3>1. UNCHANGED <<Guarded, Working, Running, Sure, Late, alive, robbed>>
      BY <2>1 DEF vars, Guarded, Working, Running, Sure, Late, OnDisk, Same
    <3> QED BY <3>1 DEF Turn!vars
  <2>2. Turn!Next \/ UNCHANGED turnView \/ UNCHANGED vars
    BY ActorTurns, WorldTurns DEF Next
  <2> QED BY <2>1, <2>2 DEF turnView, Turn!vars
<1> QED BY <1>1, <1>2, LastInvariance, LockInvariance, PTL DEF Spec, ImplementsGitTurn, Turn!Spec

\* In GitTurn, and so in whatever implements it, only who has the turn runs a command, a
\* live controller that acts as if it had the turn has it, and a judgement that was not
\* overtaken is true.
LEMMA TurnsAreKept == Turn!Spec => []Turn!TurnIsKept
<1>1. Turn!Init => Turn!TurnIsKept
  BY DEF Turn!Init, Turn!TurnIsKept
<1>2. Turn!TurnIsKept /\ [Turn!Next]_(Turn!vars) => Turn!TurnIsKept'
  <2> SUFFICES ASSUME Turn!TurnIsKept, [Turn!Next]_(Turn!vars) PROVE Turn!TurnIsKept'
    OBVIOUS
  <2>1. ASSUME NEW p \in Proc, Turn!Take(p) \/ Turn!Start(p) \/ Turn!GiveBack(p) \/ Turn!Die(p)
        PROVE  Turn!TurnIsKept'
    BY <2>1 DEF Turn!Take, Turn!Start, Turn!GiveBack, Turn!Die, Turn!TurnIsKept
  <2>2. ASSUME NEW p \in Proc, Turn!Judge(p) \/ Turn!Notice(p) \/ Turn!Clear(p)
        PROVE  Turn!TurnIsKept'
    BY <2>2 DEF Turn!Judge, Turn!Notice, Turn!Clear, Turn!TurnIsKept
  <2>3. ASSUME NEW p \in Proc, Turn!ClearLate(p) \/ Turn!Meddle(p)
        PROVE  Turn!TurnIsKept'
    BY <2>3 DEF Turn!ClearLate, Turn!Meddle, Turn!Robbery, Turn!TurnIsKept
  <2>4. CASE Turn!Exit \/ UNCHANGED Turn!vars
    BY <2>4 DEF Turn!Exit, Turn!vars, Turn!TurnIsKept
  <2> QED BY <2>1, <2>2, <2>3, <2>4 DEF Turn!Next
<1> QED BY <1>1, <1>2, PTL DEF Turn!Spec

\* Hence: but for the robbed, the lock file is at all times that of whoever works on it, a
\* command runs only in the turn of its controller, and a lock that is about to be renamed
\* by a judgement not overtaken is that of a dead controller without a command.
THEOREM WorkersHaveTheTurn == Spec => []Turn!TurnIsKept
BY TakesTurns, TurnsAreKept, PTL DEF ImplementsGitTurn

=============================================================================
