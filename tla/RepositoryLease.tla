----------------------------- MODULE RepositoryLease ----------------------------
(***************************************************************************)
(* Who may run Git commands in one managed repository: the classes         *)
(* RepositoryLeaseManager and RepositoryLease of                           *)
(* src/gateway/services/devbench/git-controller/lease.js, with the lease   *)
(* rows of src/gateway/db/sqlite.js.                                       *)
(*                                                                         *)
(* Two things guard a repository.  A row of the database grants a lease    *)
(* with a lifetime and a fencing token; a lock file names the controller   *)
(* process that holds it, with a revision that every rewrite raises and a  *)
(* ledger of the Git child that may be running.  A lease can run out under *)
(* a controller that is merely slow, so the lock of a live process is not  *)
(* to be taken by anybody; the lock of a dead one may be moved away once   *)
(* its child is proved gone.                                               *)
(*                                                                         *)
(* Every access to the database or to the file is one step: controllers    *)
(* interleave between them, and may die there.  Rewriting the file         *)
(* truncates it first, so that a death in between leaves half a file,      *)
(* which nobody can read; filling it and reading it back is one step.  A   *)
(* stale lock is renamed by its name, after it was read for the last time: *)
(* by then the name may be that of another lock.                           *)
(*                                                                         *)
(* Time is only whether an expiry has passed ("lapsed"); it may pass at    *)
(* any moment.  A controller runs one operation on the repository at a     *)
(* time: a second one of the same process meets what one of another live   *)
(* process meets.  A process that is restarted is another member of Proc.  *)
(* Definitions named Variant_... are not part of the system: each is a     *)
(* faulty form of the definition after it.                                 *)
(***************************************************************************)
EXTENDS Integers

CONSTANTS
    Proc,       \* controller processes, of one host
    Contained,  \* those whose process tree is contained by a guardian
    MaxFence,   \* bound on the fencing tokens issued
    MaxRevision,\* bound on the rewrites of a lock
    None,       \* no row, no lock
    Torn        \* a lock file that cannot be read

ChildState == {"none", "SPAWNING", "RUNNING"}

Row == [owner : Proc, fence : Nat, lapsed : BOOLEAN]

Lock == [owner : Proc, fence : Nat, rev : Nat, child : ChildState]

Place == {"idle", "claimed", "conflict", "proving", "proved", "displaced",
          "creating", "held", "checking", "writing", "filling", "spawning",
          "running", "unlinking", "dropping", "inspected", "certified",
          "orphan", "dead"}

\* What the lock is being rewritten for.
Job == {"renew", "renewRunning", "renewSpawn", "spawn", "mark", "close"}

ASSUME RepositoryLeaseAssumption ==
    /\ Contained \subseteq Proc
    /\ MaxFence \in Nat
    /\ MaxRevision \in Nat
    /\ None \notin Row \cup Lock
    /\ Torn \notin Lock \cup {None}

VARIABLES
    row,       \* the lease row of the repository
    lastFence, \* the last fencing token issued for it
    file,      \* the lock file
    expired,   \* whether the expiry in that file has passed
    half,      \* the processes that have truncated that file and not yet filled it
    alive,     \* the processes that are running
    pc,        \* where each of them is
    fence,     \* the token of its lease (in a recovery, of the row to release)
    mem,       \* the lock it last wrote
    seen,      \* the lock it means to displace
    job,       \* what it rewrites its lock for
    lost,      \* whether it has noticed that its lease is lost
    child,     \* whether a Git command it started is running
    robbed     \* history: who has had the lock, whole or half, and lost it to
               \* another since its operation began

local == <<alive, pc, fence, mem, seen, job, lost>>
vars == <<row, lastFence, file, expired, half, alive, pc, fence, mem, seen, job, lost, child,
          robbed>>

-----------------------------------------------------------------------------
Exists == file # None

\* What reading the lock file gives: nothing unless it is whole.
OnDisk == IF file = Torn THEN None ELSE file

\* The guarded comparison: lease, token, revision and ledger, not the expiry.
Same(l, m) == l # None /\ l = m

RowMine(p) == row # None /\ row.owner = p /\ row.fence = fence[p]

Current(p) == RowMine(p) /\ ~row.lapsed /\ Same(OnDisk, mem[p])

\* p proves that the command of a stale lock is gone.  Where containment is
\* concerned, the guardian vouches for the whole process tree, and both sides need
\* one; elsewhere a recorded command is never proved gone.
ChildGone(p, l) ==
    IF {p, l.owner} \cap Contained # {}
    THEN {p, l.owner} \subseteq Contained /\ l.child # "SPAWNING" /\ ~child[l.owner]
    ELSE l.child = "none"

\* The lock as p writes it.
Written(p, rev, ch) == [owner |-> p, fence |-> fence[p], rev |-> rev, child |-> ch]

\* The file is as p last wrote it; it expires with the lease of p.
Filled(p) == file' = mem'[p] /\ expired' = ~(RowMine(p) /\ ~row.lapsed)

\* The file is there, and cannot be read.
Broken == file' = Torn /\ expired' = FALSE

Goto(p, place) == pc' = [pc EXCEPT ![p] = place]

\* The path no longer names a file, whatever it named.
Unlinked == file' = None /\ half' = {} /\ expired' = FALSE

\* Whom the lock file keeps the others out for.
Guarded == half \cup {p \in Proc : OnDisk # None /\ OnDisk.owner = p}

\* The file goes to somebody, or away, and only the spared expect it.
RobAllBut(spared) == robbed' = robbed \cup (Guarded \ spared)

\* What p knew of its lock is gone.
Forget(p) ==
    /\ fence' = [fence EXCEPT ![p] = 0]
    /\ mem' = [mem EXCEPT ![p] = None]
    /\ seen' = [seen EXCEPT ![p] = None]
    /\ job' = [job EXCEPT ![p] = "renew"]
    /\ lost' = [lost EXCEPT ![p] = FALSE]

Init ==
    /\ row = None /\ lastFence = 0
    /\ file = None /\ expired = FALSE /\ half = {}
    /\ alive = Proc
    /\ pc = [p \in Proc |-> "idle"]
    /\ fence = [p \in Proc |-> 0]
    /\ mem = [p \in Proc |-> None]
    /\ seen = [p \in Proc |-> None]
    /\ job = [p \in Proc |-> "renew"]
    /\ lost = [p \in Proc |-> FALSE]
    /\ child = [p \in Proc |-> FALSE]
    /\ robbed = {}

-----------------------------------------------------------------------------
(* Acquiring. *)

\* The token is taken from the old row, and the last one issued is not recorded.
Variant_ClaimUnrecorded(p) ==
    /\ pc[p] = "idle"
    /\ row # None => row.lapsed
    /\ row' = [owner |-> p, lapsed |-> FALSE,
               fence |-> (IF row = None THEN 0 ELSE row.fence) + 1]
    /\ fence' = [fence EXCEPT ![p] = row'.fence]
    /\ lost' = [lost EXCEPT ![p] = FALSE]
    /\ Goto(p, "claimed")
    /\ UNCHANGED <<lastFence, file, expired, half, alive, mem, seen, job, child, robbed>>

\* The row is free, or its lease has run out.
Claim(p) ==
    /\ pc[p] = "idle"
    /\ row # None => row.lapsed
    /\ lastFence < MaxFence
    /\ lastFence' = lastFence + 1
    /\ row' = [owner |-> p, fence |-> lastFence + 1, lapsed |-> FALSE]
    /\ fence' = [fence EXCEPT ![p] = lastFence + 1]
    /\ lost' = [lost EXCEPT ![p] = FALSE]
    /\ Goto(p, "claimed")
    /\ UNCHANGED <<file, expired, half, alive, mem, seen, job, child, robbed>>

\* The file is created only if there is none; what is in the way the first time
\* may be a stale lock.
Create(p) ==
    /\ \/ pc[p] \in {"claimed", "displaced"} /\ ~Exists
          /\ Broken /\ half' = {p} /\ Goto(p, "creating")
       \/ pc[p] = "claimed" /\ Exists /\ Goto(p, "conflict")
          /\ UNCHANGED <<file, expired, half>>
       \/ pc[p] = "displaced" /\ Exists /\ Goto(p, "dropping")
          /\ UNCHANGED <<file, expired, half>>
    /\ UNCHANGED <<row, lastFence, alive, fence, mem, seen, job, lost, child, robbed>>

\* The file is filled through its descriptor, whatever the path names by now.  What
\* another has filled in meanwhile is overwritten, which may leave a mixture.
FillNew(p) ==
    /\ pc[p] = "creating"
    /\ mem' = [mem EXCEPT ![p] = Written(p, 1, "none")]
    /\ IF p \in half
       THEN /\ Filled(p) \/ (OnDisk # None /\ Broken)
            /\ half' = half \ {p}
            /\ RobAllBut({p})
       ELSE UNCHANGED <<file, expired, half, robbed>>
    /\ Goto(p, "held")
    /\ UNCHANGED <<row, lastFence, alive, fence, seen, job, lost, child>>

\* A lock that has run out is stale, whoever holds it.
Variant_StudyLive(p) ==
    /\ pc[p] = "conflict"
    /\ \/ /\ OnDisk # None
          /\ expired
          /\ OnDisk.fence < fence[p]
          /\ seen' = [seen EXCEPT ![p] = OnDisk]
          /\ Goto(p, "proving")
       \/ Goto(p, "dropping") /\ UNCHANGED seen
    /\ UNCHANGED <<row, lastFence, file, expired, half, alive, fence, mem, job,
                   lost, child, robbed>>

\* The lock in the way is stale when it has run out, its token is older, and its
\* process is dead; a dead process may also be impossible to tell from a live
\* one, and is then left alone.
Study(p) ==
    /\ pc[p] = "conflict"
    /\ \/ /\ OnDisk # None
          /\ expired
          /\ OnDisk.fence < fence[p]
          /\ OnDisk.owner \notin alive
          /\ seen' = [seen EXCEPT ![p] = OnDisk]
          /\ Goto(p, "proving")
       \/ Goto(p, "dropping") /\ UNCHANGED seen
    /\ UNCHANGED <<row, lastFence, file, expired, half, alive, fence, mem, job,
                   lost, child, robbed>>

\* The ledger of the stale lock is not looked at.
Variant_ProveWithoutLedger(p) ==
    /\ pc[p] = "proving"
    /\ \/ Same(OnDisk, seen[p]) /\ Goto(p, "proved")
       \/ Goto(p, "dropping")
    /\ UNCHANGED <<row, lastFence, file, expired, half, alive, fence, mem, seen,
                   job, lost, child, robbed>>

\* The children are proved gone, and the lock is read once more.
Prove(p) ==
    /\ pc[p] = "proving"
    /\ \/ ChildGone(p, seen[p]) /\ Same(OnDisk, seen[p]) /\ Goto(p, "proved")
       \/ Goto(p, "dropping")
    /\ UNCHANGED <<row, lastFence, file, expired, half, alive, fence, mem, seen,
                   job, lost, child, robbed>>

\* The stale lock is renamed: whatever has its name by now.  Nobody expects the lock
\* that was proved stale.
Displace(p) ==
    /\ \/ pc[p] = "proved" /\ Exists /\ Goto(p, "displaced")
       \/ pc[p] = "proved" /\ ~Exists /\ Goto(p, "dropping")
       \/ pc[p] = "certified" /\ Exists /\ Goto(p, "orphan")
       \/ pc[p] = "certified" /\ ~Exists /\ Goto(p, "idle")
    /\ Unlinked
    /\ RobAllBut(IF Same(OnDisk, seen[p]) THEN {seen[p].owner} ELSE {})
    /\ seen' = [seen EXCEPT ![p] = None]
    /\ fence' = [fence EXCEPT ![p] = IF pc'[p] = "idle" THEN 0 ELSE fence[p]]
    /\ UNCHANGED <<row, lastFence, alive, mem, job, lost, child>>

\* The row is given back, after a release and after an acquisition that failed.
Drop(p) ==
    /\ pc[p] = "dropping"
    /\ row' = IF RowMine(p) THEN None ELSE row
    /\ robbed' = robbed \ {p}
    /\ Goto(p, "idle") /\ Forget(p)
    /\ UNCHANGED <<lastFence, file, expired, half, alive, child>>

-----------------------------------------------------------------------------
(* Holding. *)

\* A heartbeat begins: by the timer, also under a running command, or before a
\* command is started.
Renew(p, j) ==
    /\ \/ j = "renew" /\ pc[p] = "held"
       \/ j = "renewRunning" /\ pc[p] = "running"
       \/ j = "renewSpawn" /\ pc[p] = "held" /\ mem[p].child = "none"
    /\ ~lost[p]
    /\ mem[p].rev < MaxRevision
    /\ IF Current(p)
       THEN /\ job' = [job EXCEPT ![p] = j]
            /\ Goto(p, "checking")
            /\ UNCHANGED lost
       ELSE /\ lost' = [lost EXCEPT ![p] = TRUE]
            /\ UNCHANGED <<pc, job>>
    /\ UNCHANGED <<row, lastFence, file, expired, half, alive, fence, mem, seen,
                   child, robbed>>

\* Where p is when a rewriting has ended, well or badly.
Home(j) == IF j \in {"renewRunning", "mark"} THEN "running" ELSE "held"

\* The rewritten ledger.
ChildOf(p) ==
    CASE job[p] = "spawn" -> "SPAWNING"
      [] job[p] = "mark" -> "RUNNING"
      [] job[p] = "close" -> "none"
      [] OTHER -> mem[p].child

Lose(p) == lost' = [lost EXCEPT ![p] = TRUE] /\ Goto(p, Home(job[p])) /\ UNCHANGED job

Check(p) ==
    /\ pc[p] = "checking"
    /\ IF Same(OnDisk, mem[p])
       THEN Goto(p, "writing") /\ UNCHANGED <<lost, job>>
       ELSE Lose(p)
    /\ UNCHANGED <<row, lastFence, file, expired, half, alive, fence, mem, seen,
                   child, robbed>>

\* The file is opened by its name, and created if there is none.
Truncate(p) ==
    /\ pc[p] = "writing"
    /\ Broken /\ half' = half \cup {p}
    /\ RobAllBut({p})
    /\ Goto(p, "filling")
    /\ UNCHANGED <<row, lastFence, alive, fence, mem, seen, job, lost, child>>

\* The new lock is in the file and could be read back.
Rewritten(p) ==
    /\ mem' = [mem EXCEPT ![p] = Written(p, mem[p].rev + 1, ChildOf(p))]
    /\ Filled(p)
    /\ UNCHANGED lost
    /\ IF job[p] = "renewSpawn"
       THEN job' = [job EXCEPT ![p] = "spawn"] /\ Goto(p, "checking")
       ELSE /\ UNCHANGED job
            /\ Goto(p, IF job[p] = "spawn" THEN "spawning" ELSE Home(job[p]))

\* Filling the file, and reading it back by its name.
Fill(p) ==
    /\ pc[p] = "filling"
    /\ IF p \in half
       THEN /\ \/ Rewritten(p)
               \/ OnDisk # None /\ Broken /\ UNCHANGED mem /\ Lose(p)
            /\ half' = half \ {p}
            /\ RobAllBut({p})
       ELSE Lose(p) /\ UNCHANGED <<file, expired, half, mem, robbed>>
    /\ UNCHANGED <<row, lastFence, alive, fence, seen, child>>

\* The command is started, or fails to; the ledger is then brought up to date.
Spawn(p) ==
    /\ pc[p] = "spawning"
    /\ \/ /\ child' = [child EXCEPT ![p] = TRUE]
          /\ job' = [job EXCEPT ![p] = "mark"]
       \/ job' = [job EXCEPT ![p] = "close"] /\ UNCHANGED child
    /\ Goto(p, "checking")
    /\ UNCHANGED <<row, lastFence, file, expired, half, alive, fence, mem, seen,
                   lost, robbed>>

\* The ledger is cleared when the operation goes on, not when the child has exited.
Variant_CloseEarly(p) ==
    /\ pc[p] = "running"
    /\ job' = [job EXCEPT ![p] = "close"]
    /\ Goto(p, "checking")
    /\ UNCHANGED <<row, lastFence, file, expired, half, alive, fence, mem, seen,
                   lost, child, robbed>>

\* The command has exited; this is recorded even if the lease is lost.
Close(p) ==
    /\ pc[p] = "running"
    /\ ~child[p]
    /\ job' = [job EXCEPT ![p] = "close"]
    /\ Goto(p, "checking")
    /\ UNCHANGED <<row, lastFence, file, expired, half, alive, fence, mem, seen,
                   lost, child, robbed>>

\* Only a lease that is still current removes its lock.
Variant_ReleaseCurrent(p) ==
    /\ pc[p] = "held"
    /\ Goto(p, IF Current(p) /\ mem[p].child = "none" THEN "unlinking" ELSE "dropping")
    /\ UNCHANGED <<row, lastFence, file, expired, half, alive, fence, mem, seen,
                   job, lost, child, robbed>>

\* The operation ends: the lock is removed, unless it is not the one p wrote or
\* its ledger is not clear.
Release(p) ==
    /\ pc[p] = "held"
    /\ Goto(p, IF Same(OnDisk, mem[p]) /\ mem[p].child = "none"
               THEN "unlinking" ELSE "dropping")
    /\ UNCHANGED <<row, lastFence, file, expired, half, alive, fence, mem, seen,
                   job, lost, child, robbed>>

\* The file is removed by its name.
Unlink(p) ==
    /\ pc[p] = "unlinking"
    /\ Unlinked
    /\ RobAllBut({p})
    /\ Goto(p, "dropping")
    /\ UNCHANGED <<row, lastFence, alive, fence, mem, seen, job, lost, child>>

-----------------------------------------------------------------------------
(* Recovering the operation of a dead controller, at the start of another. *)

\* The row and the lock, if there are any, are those of one dead process.
Inspect(p) ==
    /\ pc[p] = "idle"
    /\ file # Torn
    /\ ~(row = None /\ file = None)
    /\ \E o \in Proc \ alive :
          /\ row # None => row.owner = o
          /\ file # None => file.owner = o
    /\ row # None /\ file # None => file.fence = row.fence
    /\ seen' = [seen EXCEPT ![p] = file]
    /\ fence' = [fence EXCEPT ![p] = IF row # None THEN row.fence ELSE 0]
    /\ Goto(p, "inspected")
    /\ UNCHANGED <<row, lastFence, file, expired, half, alive, mem, job, lost,
                   child, robbed>>

\* The operation is taken to have ended with its controller.
Variant_CertifyUnproved(p) ==
    /\ pc[p] = "inspected"
    /\ \/ seen[p] = None /\ Goto(p, "orphan") /\ UNCHANGED <<fence, mem, seen, job, lost>>
       \/ seen[p] # None /\ Same(OnDisk, seen[p]) /\ Goto(p, "certified")
          /\ UNCHANGED <<fence, mem, seen, job, lost>>
       \/ seen[p] # None /\ Goto(p, "idle") /\ Forget(p)
    /\ UNCHANGED <<row, lastFence, file, expired, half, alive, child, robbed>>

\* As in Prove; there may be no lock to prove anything of.
Certify(p) ==
    /\ pc[p] = "inspected"
    /\ \/ seen[p] = None /\ Goto(p, "orphan") /\ UNCHANGED <<fence, mem, seen, job, lost>>
       \/ /\ seen[p] # None
          /\ ChildGone(p, seen[p])
          /\ Same(OnDisk, seen[p])
          /\ Goto(p, "certified")
          /\ UNCHANGED <<fence, mem, seen, job, lost>>
       \/ seen[p] # None /\ Goto(p, "idle") /\ Forget(p)
    /\ UNCHANGED <<row, lastFence, file, expired, half, alive, child, robbed>>

\* The row is deleted, whosever it is by now.
Variant_DropAnyOrphan(p) ==
    /\ pc[p] = "orphan"
    /\ row' = None
    /\ Goto(p, "idle") /\ Forget(p)
    /\ UNCHANGED <<lastFence, file, expired, half, alive, child, robbed>>

\* The row is deleted if it is still the one that was inspected.
DropOrphan(p) ==
    /\ pc[p] = "orphan"
    /\ row' = IF row # None /\ row.fence = fence[p] THEN None ELSE row
    /\ Goto(p, "idle") /\ Forget(p)
    /\ UNCHANGED <<lastFence, file, expired, half, alive, child, robbed>>

-----------------------------------------------------------------------------
(* What happens to the controllers. *)

ChildExits(p) ==
    /\ child[p]
    /\ child' = [child EXCEPT ![p] = FALSE]
    /\ UNCHANGED <<row, lastFence, file, expired, half, local, robbed>>

\* A controller dies where it is; a command it started may outlive it.
Die(p) ==
    /\ alive' = alive \ {p}
    /\ Goto(p, "dead") /\ Forget(p)
    /\ UNCHANGED <<row, lastFence, file, expired, half, child, robbed>>

\* The lock of the lease, if it is there, runs out with it: a lease renewed before
\* its lock looks no different, because the expiry of a lock is only looked at
\* under a newer lease.  No lock outlasts its lease: one that is written later
\* has the expiry of the lease.
LapseRow ==
    /\ row # None
    /\ ~row.lapsed
    /\ row' = [row EXCEPT !.lapsed = TRUE]
    /\ expired' = (expired \/ (OnDisk # None /\ OnDisk.fence = row.fence))
    /\ UNCHANGED <<lastFence, file, half, local, child, robbed>>

Acquiring(p) ==
    Claim(p) \/ Create(p) \/ FillNew(p) \/ Study(p) \/ Prove(p) \/ Displace(p) \/ Drop(p)

Holding(p) ==
    \/ \E j \in Job : Renew(p, j)
    \/ Check(p) \/ Truncate(p) \/ Fill(p) \/ Spawn(p) \/ Close(p)
    \/ Release(p) \/ Unlink(p)

Recovering(p) == Inspect(p) \/ Certify(p) \/ DropOrphan(p)

Next ==
    \/ \E p \in alive : Acquiring(p) \/ Holding(p) \/ Recovering(p)
    \/ \E p \in alive : Die(p)
    \/ \E p \in Proc : ChildExits(p)
    \/ LapseRow

Spec == Init /\ [][Next]_vars

-----------------------------------------------------------------------------
(* Properties. *)

\* Where a controller takes the whole lock to be its own.
Lockers == {"held", "checking", "writing", "spawning", "running", "unlinking"}

\* Where it has created or truncated it.
Halfway == {"creating", "filling"}

LeaseTypeOK ==
    /\ row \in Row \cup {None}
    /\ lastFence \in 0 .. MaxFence
    /\ file \in Lock \cup {None, Torn}
    /\ expired \in BOOLEAN
    /\ half \subseteq Proc
    /\ alive \subseteq Proc
    /\ pc \in [Proc -> Place]
    /\ fence \in [Proc -> 0 .. lastFence]
    /\ mem \in [Proc -> Lock \cup {None}]
    /\ seen \in [Proc -> Lock \cup {None}]
    /\ job \in [Proc -> Job]
    /\ lost \in [Proc -> BOOLEAN]
    /\ child \in [Proc -> BOOLEAN]
    /\ robbed \subseteq Proc

\* No two controllers have a Git command running in the repository, whatever
\* died, stalled or ran out of its lease in between, unless one of them has been
\* robbed of its lock; the command of a dead controller counts.
OneGitChild ==
    \A p, q \in Proc : child[p] /\ child[q] => p = q \/ {p, q} \cap robbed # {}

\* A running Git command is on record in the lock file, also after the controller
\* that started it has died, unless that one is rewriting the file, died at it, or
\* has been robbed of it; this is what keeps the next controller out.
RunningChildIsGuarded ==
    \A p \in Proc \ robbed :
        child[p] => \/ p \in half
                    \/ OnDisk # None /\ OnDisk.owner = p /\ OnDisk.child # "none"

\* Who has proved a lock stale that is no longer the one in place, but is still going
\* to rename it.
Late == {q \in Proc : pc[q] \in {"proved", "certified"} /\ ~Same(OnDisk, seen[q])}

\* The lock of a live controller goes, even when its lease has run out, only by
\* its own doing, by a renaming that comes too late, or by one that was
\* robbed before and does not know.
LiveLockIsKept ==
    [][\A p \in alive \ robbed :
          (p \in half \/ Same(OnDisk, mem[p])) /\ ~(p \in half' \/ Same(OnDisk, mem[p])')
          => \/ pc'[p] # pc[p]
             \/ \E q \in Late \cup (robbed \cap alive) : pc'[q] # pc[q]]_vars

\* The lock of a live controller stands as long as that one relies on it.
LiveLockStands ==
    \A p \in alive : pc[p] \in Lockers => Same(OnDisk, mem[p])

\* A live controller that is done leaves neither a lock nor a row behind: as long
\* as it lives, nobody could remove the lock, and the row would keep others out
\* for its lifetime.
DoneLeavesNothing ==
    \A p \in alive :
        pc[p] = "idle" => /\ p \notin Guarded
                          /\ row # None => row.owner # p

\* The row of a live controller is deleted by nobody else, and replaced only when
\* it has run out, however many controllers recover or release at the same time.
LiveRowIsKept ==
    [][row # None /\ row.owner \in alive /\ ~row.lapsed =>
          \/ row' # None /\ row'.fence = row.fence
          \/ pc[row.owner] = "dropping" /\ pc'[row.owner] = "idle"]_vars

-----------------------------------------------------------------------------
(* What the lease is for. *)

\* Who takes the lock to be its own, whose Git command runs, and who is about to
\* rename a lock.
Working == {p \in Proc : pc[p] \in Lockers \cup Halfway}
Running == {p \in Proc : child[p]}
Sure == {p \in Proc : pc[p] \in {"proved", "certified"}}

Turn == INSTANCE GitTurn WITH
    Controller <- Proc,
    turn <- Guarded \ robbed,
    working <- Working \ robbed,
    running <- Running \ robbed,
    gone <- Proc \ alive,
    judges <- Sure,
    late <- Late

\* Row, lock file and ledger together give controllers turns: but for the robbed, the
\* file is at all times the lock of whoever believes to have it, a command runs only
\* under the lock of its controller, and a lock changes hands only over a dead
\* controller whose command has exited, or by a judgement that has been overtaken.
ImplementsGitTurn == Turn!Spec

=============================================================================
