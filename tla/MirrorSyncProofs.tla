---------------------------- MODULE MirrorSyncProofs ----------------------------
(***************************************************************************)
(* What holds of the mirror for any number of operations, commits, faults  *)
(* and deaths of the controller, proved of MirrorSync!Spec.                *)
(*                                                                         *)
(* The argument.  Who is between its first and its last Git command has    *)
(* the lease, so that nobody else touches the refs and the row: what it    *)
(* has read stays true (Holds).  A commit in the line is tied to the       *)
(* generation its operation was previewed for (Tied), so an operation has  *)
(* at most one, and none while the row is what it was previewed as         *)
(* (Answered).  While the accepted ref is ahead of the row, some operation *)
(* that cannot end well or ill before it is recovered says so, and the     *)
(* commit is kept already (Ahead).  MirrorLine is implemented, and what    *)
(* holds of it is carried over (AnswersAreTrue); and the operations that a *)
(* start does not recognise are told exactly (MissedIsOvertaken).          *)
(***************************************************************************)
EXTENDS MirrorSync, TLAPS

Holding == {"held", "fetch", "publish", "retain", "verify", "move", "swap", "accepted",
            "maintain", "closing", "finish", "undo", "assess"}

\* o is about to be recorded as failed.
Failing(o) ==
    \/ run[o].at = "fail" /\ ~run[o].bad
    \/ run[o].at = "ending" /\ op[o].phase = "FAILED"

\* How the place of a handler and the record of its operation go together.
Agrees(o) ==
    /\ op[o].status \in {"NONE", "ACTIVE"} => run[o].at = "idle" /\ ~op[o].sealed
    /\ op[o].status # "NONE" => op[o].candidate \in Sha /\ op[o].gen < MaxGeneration
    /\ run[o].at \notin {"idle", "release"} => Unended(o)
    /\ run[o].at \in {"begun", "held", "fetch", "publish"} => ~op[o].sealed
    /\ run[o].at \in {"retain", "verify", "move", "swap", "accepted", "maintain",
                      "closing", "finish"} => op[o].sealed
    /\ run[o].at \in {"move", "swap", "assess"} => Publishing(o)
    /\ run[o].at = "ending" => op[o].phase \in {"FAILED", "RECOVERY_REQUIRED"}
    /\ run[o].at \in Holding => lease.holder = o
    /\ o \in ctl.todo => Unended(o) \/ run[o].at = "release"

\* What the handler knows of the refs and of the row.
Holds(o) ==
    /\ run[o].at \in {"retain", "verify", "move"} => AtBaseline(o)
    /\ run[o].at \in {"verify", "move", "swap"} => Kept(o) = op[o].candidate
    /\ run[o].at = "swap" =>
           ref = op[o].candidate /\ StateSha = op[o].expected /\ Generation = op[o].gen
    /\ run[o].at \in {"accepted", "maintain", "closing", "finish"} => Committed(o)

\* Every accepted commit is the candidate of its operation, at its generation.
Tied ==
    \A n \in DOMAIN accepted :
        /\ op[accepted[n].op].gen + 1 = n
        /\ op[accepted[n].op].candidate = accepted[n].sha
        /\ op[accepted[n].op].sealed

Answered(o) ==
    /\ Failing(o) \/ op[o].status = "FAILED" => ~Published(o)
    /\ op[o].status = "SUCCEEDED" => Published(o)

Halfway(o) ==
    /\ Unended(o) /\ ~Failing(o) /\ op[o].sealed /\ Publishing(o)
    /\ ref = op[o].candidate /\ Kept(o) = ref
    /\ StateSha = op[o].expected /\ Generation = op[o].gen

Ahead == ref # StateSha => \E o \in Op : Halfway(o)

IInv ==
    /\ MirrorTypeOK
    /\ Generation <= MaxGeneration
    /\ \A o \in Op : Agrees(o) /\ Holds(o) /\ Answered(o)
    /\ Tied
    /\ AcceptedIsRetained
    /\ Ahead

USE MirrorAssumption
-----------------------------------------------------------------------------
(* What a step does to the handlers and to the records. *)

RunType == [Op -> [at : Place, bad : BOOLEAN]]

\* Only the handler of o moves.
OnlyRun(o) == \A p \in Op \ {o} : run'[p] = run[p]
OnlyOp(o) == \A p \in Op \ {o} : op'[p] = op[p]

\* What o is bound to does not change.
SameBinding(o) ==
    /\ op'[o].expected = op[o].expected
    /\ op'[o].candidate = op[o].candidate
    /\ op'[o].gen = op[o].gen

LEMMA ToEffect ==
    ASSUME run \in RunType, NEW o \in Op, NEW place \in Place, To(o, place)
    PROVE  /\ run' \in RunType
           /\ run'[o].at = place /\ run'[o].bad = run[o].bad
           /\ OnlyRun(o)
<1>1. [run[o] EXCEPT !.at = place] \in [at : Place, bad : BOOLEAN]
  BY DEF RunType
<1>. QED BY <1>1 DEF RunType, To, OnlyRun

LEMMA FailEffect ==
    ASSUME run \in RunType, NEW o \in Op, NEW badly \in BOOLEAN, Fail(o, badly)
    PROVE  /\ run' \in RunType
           /\ run'[o].at = "fail" /\ run'[o].bad = badly
           /\ OnlyRun(o)
BY DEF RunType, Fail, Place, OnlyRun

LEMMA EnterEffect ==
    ASSUME op \in [Op -> Record], NEW o \in Op, NEW phase \in Phase, Enter(o, phase)
    PROVE  /\ op' \in [Op -> Record]
           /\ op'[o].phase = phase /\ op'[o].status = op[o].status
           /\ op'[o].sealed = op[o].sealed
           /\ SameBinding(o) /\ OnlyOp(o)
<1>1. [op[o] EXCEPT !.phase = phase] \in Record
  BY DEF Record
<1>. QED BY <1>1 DEF Enter, Record, SameBinding, OnlyOp

\* Where an error takes the handler.
LEMMA ErrorEffect ==
    ASSUME run \in RunType, NEW o \in Op, OnError(o),
           run[o].at \notin {"idle", "begun", "release"}
    PROVE  /\ run' \in RunType
           /\ OnlyRun(o)
           /\ \/ /\ run[o].at \in {"held", "fetch", "publish", "retain"}
                 /\ run'[o].at = "fail" /\ ~run'[o].bad
              \/ run[o].at \in {"verify", "move", "swap"} /\ run'[o].at = "undo"
              \/ /\ run[o].at \in {"undo", "assess", "accepted", "maintain", "closing",
                                   "finish", "fail", "ending"}
                 /\ run'[o].at = "fail" /\ run'[o].bad
              \/ run[o].at \in {"fail", "ending"} /\ run'[o].at = "release"
<1>0. run[o].at \in Place
  BY DEF RunType
<1>1. CASE run[o].at \in {"held", "fetch", "publish", "retain"}
  <2>1. Fail(o, FALSE)
    BY <1>1 DEF OnError
  <2>. QED BY <1>1, <2>1, FailEffect
<1>2. CASE run[o].at \in {"verify", "move", "swap"}
  <2>1. To(o, "undo")
    BY <1>2 DEF OnError
  <2>. QED BY <1>2, <2>1, ToEffect DEF Place
<1>3. CASE run[o].at \in {"undo", "assess", "accepted", "maintain", "closing", "finish"}
  <2>1. Fail(o, TRUE)
    BY <1>3 DEF OnError
  <2>. QED BY <1>3, <2>1, FailEffect
<1>4. CASE run[o].at \in {"fail", "ending"}
  <2>1. Fail(o, TRUE) \/ To(o, "release")
    BY <1>4 DEF OnError, Unrecorded
  <2>. QED BY <1>4, <2>1, FailEffect, ToEffect DEF Place
<1>. QED BY <1>0, <1>1, <1>2, <1>3, <1>4 DEF Place

-----------------------------------------------------------------------------
(* Who is in the line. *)

LEMMA Accepted ==
    ASSUME MirrorTypeOK
    PROVE  /\ Generation \in Nat /\ DOMAIN accepted = 1 .. Generation
           /\ \A n \in DOMAIN accepted : accepted[n] \in [sha : Sha, op : Op]
           /\ StateSha \in Sha \cup {None}
<1> DEFINE S == [sha : Sha, op : Op]
<1>1. accepted \in Seq(S)
  BY DEF MirrorTypeOK
<1> HIDE DEF S
<1>2. /\ Generation \in Nat /\ DOMAIN accepted = 1 .. Generation
      /\ \A n \in DOMAIN accepted : accepted[n] \in S
  BY <1>1 DEF Generation
<1>3. CASE accepted = <<>>
  BY <1>2, <1>3 DEF StateSha, S
<1>4. CASE accepted # <<>>
  <2>1. Generation \in DOMAIN accepted
    BY <1>1, <1>2, <1>4 DEF Generation
  <2>. QED BY <1>2, <1>4, <2>1 DEF StateSha, S
<1>. QED BY <1>2, <1>3, <1>4 DEF S

LEMMA OfRecord ==
    ASSUME MirrorTypeOK, NEW o \in Op
    PROVE  /\ op[o].status \in {"NONE", "ACTIVE", "RUNNING", "SUCCEEDED", "FAILED",
                                "RECOVERY_REQUIRED"}
           /\ op[o].phase \in Phase /\ op[o].sealed \in BOOLEAN
           /\ op[o].expected \in Sha \cup {None}
           /\ op[o].candidate \in Sha \cup {None} /\ op[o].gen \in Nat
           /\ run \in RunType /\ run[o].at \in Place /\ run[o].bad \in BOOLEAN
BY DEF MirrorTypeOK, Record, RunType

LEMMA PublishedFacts ==
    ASSUME MirrorTypeOK, Tied, NEW o \in Op, Published(o)
    PROVE  op[o].sealed /\ op[o].gen + 1 <= Generation
BY Accepted DEF Tied, Published

-----------------------------------------------------------------------------
(* Steps that touch neither the refs nor the row. *)

\* Such a step of o keeps the invariant if it keeps what is said of o.
LEMMA QuietStep ==
    ASSUME IInv, MirrorTypeOK', NEW o \in Op, UNCHANGED <<git, accepted>>,
           OnlyRun(o), OnlyOp(o), SameBinding(o) \/ ~op[o].sealed,
           op[o].sealed => op'[o].sealed,
           \A p \in Op \ {o} : run[p].at \in Holding => lease'.holder = p,
           ctl'.todo \subseteq ctl.todo, Agrees(o)', Holds(o)', Answered(o)',
           ref # StateSha /\ Halfway(o) => Halfway(o)'
    PROVE  IInv'
<1>. USE DEF IInv, git
<1>1. \A p \in Op \ {o} : Agrees(p)' /\ Holds(p)' /\ Answered(p)'
  BY DEF OnlyRun, OnlyOp, Agrees, Holds, Answered, Unended, AtBaseline, Kept, Committed,
         StateSha, Generation, Failing, Published, Publishing
<1>2. Tied'
  <2>1. ASSUME NEW n \in DOMAIN accepted
        PROVE  /\ op'[accepted[n].op].gen + 1 = n
               /\ op'[accepted[n].op].candidate = accepted[n].sha
               /\ op'[accepted[n].op].sealed
    <3>1. accepted[n].op \in Op
      BY Accepted
    <3>2. CASE accepted[n].op = o
      BY <3>2 DEF Tied, SameBinding
    <3>3. CASE accepted[n].op # o
      BY <3>1, <3>3 DEF Tied, OnlyOp
    <3>. QED BY <3>2, <3>3
  <2>. QED BY <2>1 DEF Tied
<1>3. Ahead'
  <2>1. \A p \in Op \ {o} : Halfway(p) => Halfway(p)'
    BY DEF OnlyRun, OnlyOp, Halfway, Unended, Failing, Kept, StateSha, Generation,
           Publishing
  <2>. QED BY <2>1 DEF Ahead, StateSha, Generation
<1>. QED BY <1>1, <1>2, <1>3 DEF Generation, AcceptedIsRetained

LEMMA PreviewStep ==
    ASSUME IInv, NEW o \in Op, Preview(o) PROVE IInv'
<1>. USE DEF IInv
<1>1. /\ run[o].at = "idle" /\ ~op[o].sealed /\ op[o].status = "NONE"
      /\ o \notin ctl.todo
  BY DEF Preview, Agrees, Unended
<1>2. /\ op' \in [Op -> Record] /\ OnlyOp(o)
      /\ op'[o].status = "ACTIVE" /\ ~op'[o].sealed
      /\ op'[o].candidate = remote /\ op'[o].gen = Generation
  <2>1. [op[o] EXCEPT !.status = "ACTIVE", !.expected = ref, !.candidate = remote,
                      !.gen = Generation] \in Record
    <3>1. op[o] \in Record
      BY DEF MirrorTypeOK
    <3>. QED BY <3>1, Accepted DEF MirrorTypeOK, Record
  <2>. QED BY <1>1, <2>1, OfRecord, Accepted DEF Preview, MirrorTypeOK, OnlyOp, Record
<1>3. MirrorTypeOK'
  BY <1>2 DEF Preview, MirrorTypeOK, git
<1>4. Agrees(o)' /\ Holds(o)' /\ Answered(o)'
  BY <1>1, <1>2 DEF Preview, MirrorTypeOK, Agrees, Holds, Answered, Holding, Failing
<1>5. \A p \in Op \ {o} : run[p].at \in Holding => lease'.holder = p
  BY DEF Preview, Agrees
<1>. QED BY <1>1, <1>2, <1>3, <1>4, <1>5, QuietStep DEF Preview, OnlyRun, Halfway

LEMMA BeginStep ==
    ASSUME IInv, NEW o \in Op, Begin(o) PROVE IInv'
<1>. USE DEF IInv
<1>1. run[o].at = "idle" /\ ~op[o].sealed /\ op[o].status = "ACTIVE" /\ run \in RunType
  BY OfRecord DEF Begin, Agrees
<1>2. /\ op' \in [Op -> Record] /\ OnlyOp(o) /\ SameBinding(o)
      /\ op'[o].status = "RUNNING" /\ op'[o].phase = "PREVIEWED" /\ ~op'[o].sealed
  <2>1. [op[o] EXCEPT !.status = "RUNNING", !.phase = "PREVIEWED"] \in Record
    <3>1. op[o] \in Record
      BY DEF MirrorTypeOK
    <3>. QED BY <3>1 DEF Record, Phase
  <2>. QED BY <1>1, <2>1, OfRecord DEF Begin, MirrorTypeOK, OnlyOp, Record, SameBinding
<1>3. run' \in RunType /\ run'[o].at = "begun" /\ OnlyRun(o)
  BY <1>1, ToEffect DEF Begin, Place
<1>4. MirrorTypeOK'
  BY <1>2, <1>3 DEF Begin, MirrorTypeOK, git, RunType
<1>5. Agrees(o)' /\ Holds(o)' /\ Answered(o)'
  BY <1>1, <1>2, <1>3
     DEF Begin, Agrees, Holds, Answered, Holding, Failing, Unended, SameBinding
<1>6. \A p \in Op \ {o} : run[p].at \in Holding => lease'.holder = p
  BY DEF Begin, Agrees
<1>. QED BY <1>1, <1>2, <1>3, <1>4, <1>5, <1>6, QuietStep DEF Begin, Halfway

LEMMA AcquireStep ==
    ASSUME IInv, NEW o \in Op, Acquire(o) PROVE IInv'
<1>. USE DEF IInv
<1>1. run \in RunType /\ run[o].at = "begun" /\ ~op[o].sealed /\ Unended(o)
  BY OfRecord DEF Acquire, Agrees
<1>2. /\ run' \in RunType /\ OnlyRun(o) /\ run'[o].at \in {"held", "fail"}
      /\ lease' \in [holder : Op \cup {None}, lapsed : BOOLEAN]
      /\ run'[o].at = "held" => lease'.holder = o
      /\ \A p \in Op \ {o} : run[p].at \in Holding => lease'.holder = p
  <2>1. CASE Free /\ lease' = [holder |-> o, lapsed |-> FALSE] /\ To(o, "held")
    <3>1. run' \in RunType /\ run'[o].at = "held" /\ OnlyRun(o)
      BY <1>1, <2>1, ToEffect DEF Place
    <3>2. \A p \in Op \ {o} : run[p].at \notin Holding
      BY <2>1, MirrorAssumption DEF Agrees, Free, Holding
    <3>. QED BY <2>1, <3>1, <3>2
  <2>2. CASE Fail(o, FALSE) /\ UNCHANGED lease
    <3>1. run' \in RunType /\ run'[o].at = "fail" /\ OnlyRun(o)
      BY <1>1, <2>2, FailEffect
    <3>. QED BY <2>2, <3>1 DEF Agrees, MirrorTypeOK
  <2>. QED BY <2>1, <2>2 DEF Acquire
<1>3. MirrorTypeOK'
  BY <1>2 DEF Acquire, MirrorTypeOK, git, RunType
<1>4. Agrees(o)' /\ Holds(o)'
  BY <1>1, <1>2 DEF Acquire, Agrees, Holds, Holding, Unended
<1>5. Answered(o)'
  BY <1>1, <1>2, PublishedFacts DEF Acquire, Answered, Failing, Published, Unended
<1>. QED BY <1>1, <1>2, <1>3, <1>4, <1>5, QuietStep
         DEF Acquire, OnlyOp, SameBinding, Halfway

LEMMA CheckFreshStep ==
    ASSUME IInv, NEW o \in Op, CheckFresh(o) PROVE IInv'
<1>. USE DEF IInv
<1>1. /\ run \in RunType /\ run[o].at = "held" /\ ~op[o].sealed /\ Unended(o)
      /\ lease.holder = o
  BY OfRecord DEF CheckFresh, Agrees, Holding
<1>2. /\ run' \in RunType /\ OnlyRun(o) /\ run'[o].at \in {"fetch", "fail"}
      /\ op' \in [Op -> Record] /\ OnlyOp(o) /\ SameBinding(o)
      /\ op'[o].status = op[o].status /\ op'[o].sealed = op[o].sealed
  <2>1. CASE Enter(o, "FETCHING") /\ To(o, "fetch")
    BY <1>1, <2>1, ToEffect, EnterEffect DEF Place, Phase, MirrorTypeOK
  <2>2. CASE Fail(o, FALSE) /\ UNCHANGED op
    BY <1>1, <2>2, FailEffect DEF MirrorTypeOK, OnlyOp, SameBinding
  <2>. QED BY <2>1, <2>2 DEF CheckFresh
<1>3. MirrorTypeOK'
  BY <1>2 DEF CheckFresh, MirrorTypeOK, git, RunType
<1>4. Agrees(o)' /\ Holds(o)'
  BY <1>1, <1>2 DEF CheckFresh, Agrees, Holds, Holding, Unended, SameBinding
<1>5. Answered(o)'
  BY <1>1, <1>2, PublishedFacts DEF CheckFresh, Answered, Failing, Published, Unended
<1>6. \A p \in Op \ {o} : run[p].at \in Holding => lease'.holder = p
  BY DEF CheckFresh, Agrees
<1>. QED BY <1>1, <1>2, <1>3, <1>4, <1>5, <1>6, QuietStep DEF CheckFresh, Halfway

LEMMA FetchStep ==
    ASSUME IInv, NEW o \in Op, Fetch(o) PROVE IInv'
<1>. USE DEF IInv
<1>1. /\ run \in RunType /\ run[o].at = "fetch" /\ ~op[o].sealed /\ Unended(o)
      /\ lease.holder = o
  BY OfRecord DEF Fetch, Agrees, Holding
<1>2. run' \in RunType /\ OnlyRun(o) /\ run'[o].at \in {"publish", "fail"}
  BY <1>1, ToEffect, FailEffect DEF Fetch, Place
<1>3. MirrorTypeOK'
  BY <1>2 DEF Fetch, MirrorTypeOK, git, RunType
<1>4. Agrees(o)' /\ Holds(o)'
  BY <1>1, <1>2 DEF Fetch, Agrees, Holds, Holding, Unended
<1>5. Answered(o)'
  BY <1>1, <1>2, PublishedFacts DEF Fetch, Answered, Failing, Published, Unended
<1>6. \A p \in Op \ {o} : run[p].at \in Holding => lease'.holder = p
  BY DEF Fetch, Agrees
<1>. QED BY <1>1, <1>2, <1>3, <1>4, <1>5, <1>6, QuietStep
         DEF Fetch, OnlyOp, SameBinding, Halfway

LEMMA PublishStep ==
    ASSUME IInv, NEW o \in Op, Publish(o) PROVE IInv'
<1>. USE DEF IInv
<1>1. /\ run \in RunType /\ run[o].at = "publish" /\ ~op[o].sealed /\ Unended(o)
      /\ lease.holder = o
  BY OfRecord DEF Publish, Agrees, Holding
<1>2. /\ run' \in RunType /\ OnlyRun(o)
      /\ op' \in [Op -> Record] /\ OnlyOp(o) /\ SameBinding(o)
      /\ op'[o].status = op[o].status
      /\ \/ run'[o].at = "retain" /\ AtBaseline(o) /\ op'[o].sealed
         \/ run'[o].at = "fail"
  <2>1. CASE /\ AtBaseline(o) /\ To(o, "retain")
             /\ op' = [op EXCEPT ![o].phase = "PUBLISHING", ![o].sealed = TRUE]
    <3>1. [op[o] EXCEPT !.phase = "PUBLISHING", !.sealed = TRUE] \in Record
      <4>1. op[o] \in Record
        BY DEF MirrorTypeOK
      <4>. QED BY <4>1 DEF Record, Phase
    <3>2. /\ op' \in [Op -> Record] /\ OnlyOp(o) /\ SameBinding(o)
          /\ op'[o].status = op[o].status /\ op'[o].sealed
      BY <2>1, <3>1 DEF MirrorTypeOK, Record, OnlyOp, SameBinding
    <3>. QED BY <1>1, <2>1, <3>2, ToEffect DEF Place
  <2>2. CASE Fail(o, FALSE) /\ UNCHANGED op
    BY <1>1, <2>2, FailEffect DEF MirrorTypeOK, OnlyOp, SameBinding
  <2>. QED BY <2>1, <2>2 DEF Publish
<1>3. MirrorTypeOK'
  BY <1>2 DEF Publish, MirrorTypeOK, git, RunType
<1>4. Agrees(o)'
  BY <1>1, <1>2 DEF Publish, Agrees, Holding, Unended, SameBinding
<1>5. Holds(o)'
  BY <1>1, <1>2
     DEF Publish, Holds, AtBaseline, SameBinding, git, StateSha, Generation
<1>6. Answered(o)'
  BY <1>1, <1>2, PublishedFacts DEF Publish, Answered, Failing, Published, Unended
<1>7. \A p \in Op \ {o} : run[p].at \in Holding => lease'.holder = p
  BY DEF Publish, Agrees
<1>. QED BY <1>1, <1>2, <1>3, <1>4, <1>5, <1>6, <1>7, QuietStep DEF Publish, Halfway

LEMMA VerifyStep ==
    ASSUME IInv, NEW o \in Op, Verify(o) PROVE IInv'
<1>. USE DEF IInv
<1>1. /\ run \in RunType /\ run[o].at = "verify" /\ op[o].sealed /\ Unended(o)
      /\ lease.holder = o /\ AtBaseline(o) /\ Kept(o) = op[o].candidate
  BY OfRecord DEF Verify, Agrees, Holding, Holds
<1>2. /\ run' \in RunType /\ OnlyRun(o) /\ run'[o].at = "move"
      /\ op' \in [Op -> Record] /\ OnlyOp(o) /\ SameBinding(o)
      /\ op'[o].status = op[o].status /\ op'[o].sealed
      /\ op'[o].phase = "RETENTION_VERIFIED"
  BY <1>1, ToEffect, EnterEffect DEF Verify, Place, Phase, MirrorTypeOK
<1>3. MirrorTypeOK'
  BY <1>2 DEF Verify, MirrorTypeOK, git, RunType
<1>4. Agrees(o)'
  BY <1>1, <1>2 DEF Verify, Agrees, Holding, Unended, SameBinding, Publishing
<1>5. Holds(o)'
  BY <1>1, <1>2
     DEF Verify, Holds, AtBaseline, Kept, SameBinding, git, StateSha, Generation
<1>6. Answered(o)'
  BY <1>1, <1>2 DEF Answered, Failing, Unended
<1>7. \A p \in Op \ {o} : run[p].at \in Holding => lease'.holder = p
  BY DEF Verify, Agrees
<1>8. ~(ref # StateSha)
  BY <1>1 DEF AtBaseline
<1>. QED BY <1>1, <1>2, <1>3, <1>4, <1>5, <1>6, <1>7, <1>8, QuietStep DEF Verify

LEMMA RecordAcceptedStep ==
    ASSUME IInv, NEW o \in Op, RecordAccepted(o) PROVE IInv'
<1>. USE DEF IInv
<1>1. /\ run \in RunType /\ run[o].at = "accepted" /\ op[o].sealed /\ Unended(o)
      /\ lease.holder = o /\ Committed(o)
  BY OfRecord DEF RecordAccepted, Agrees, Holding, Holds
<1>2. /\ run' \in RunType /\ OnlyRun(o) /\ run'[o].at = "maintain"
      /\ op' \in [Op -> Record] /\ OnlyOp(o) /\ SameBinding(o)
      /\ op'[o].status = op[o].status /\ op'[o].sealed
  BY <1>1, ToEffect, EnterEffect DEF RecordAccepted, Place, Phase, MirrorTypeOK
<1>3. MirrorTypeOK'
  BY <1>2 DEF RecordAccepted, MirrorTypeOK, git, RunType
<1>4. Agrees(o)'
  BY <1>1, <1>2 DEF RecordAccepted, Agrees, Holding, Unended, SameBinding
<1>5. Holds(o)'
  BY <1>1, <1>2
     DEF RecordAccepted, Holds, Committed, SameBinding, git, StateSha, Generation
<1>6. Answered(o)'
  BY <1>1, <1>2 DEF Answered, Failing, Unended
<1>7. \A p \in Op \ {o} : run[p].at \in Holding => lease'.holder = p
  BY DEF RecordAccepted, Agrees
<1>8. ~(ref # StateSha)
  BY <1>1 DEF Committed
<1>. QED BY <1>1, <1>2, <1>3, <1>4, <1>5, <1>6, <1>7, <1>8, QuietStep
         DEF RecordAccepted

LEMMA RecordEndStep ==
    ASSUME IInv, NEW o \in Op, RecordEnd(o) PROVE IInv'
<1>. USE DEF IInv
<1>1. /\ run \in RunType /\ run[o].at \in {"closing", "fail"} /\ Unended(o)
      /\ run[o].at = "closing" => /\ lease.holder = o /\ Committed(o) /\ op[o].sealed
      /\ run[o].bad \in BOOLEAN
  BY OfRecord DEF RecordEnd, Agrees, Holding, Holds
<1>2. /\ run' \in RunType /\ OnlyRun(o)
      /\ op' \in [Op -> Record] /\ OnlyOp(o) /\ SameBinding(o)
      /\ op'[o].status = op[o].status /\ op'[o].sealed = op[o].sealed
      /\ \/ run[o].at = "closing" /\ run'[o].at = "finish"
         \/ /\ run[o].at = "fail" /\ run'[o].at = "ending"
            /\ op'[o].phase = IF run[o].bad THEN "RECOVERY_REQUIRED" ELSE "FAILED"
  <2>1. CASE run[o].at = "closing"
    BY <1>1, <2>1, ToEffect, EnterEffect DEF RecordEnd, Place, Phase, MirrorTypeOK
  <2>2. CASE run[o].at = "fail"
    <3>1. (IF run[o].bad THEN "RECOVERY_REQUIRED" ELSE "FAILED") \in Phase
      BY DEF Phase
    <3>. QED BY <1>1, <2>2, <3>1, ToEffect, EnterEffect
             DEF RecordEnd, Place, MirrorTypeOK
  <2>. QED BY <1>1, <2>1, <2>2
<1>3. MirrorTypeOK'
  BY <1>2 DEF RecordEnd, MirrorTypeOK, git, RunType
<1>4. Agrees(o)'
  BY <1>1, <1>2 DEF RecordEnd, Agrees, Holding, Unended, SameBinding
<1>5. Holds(o)'
  BY <1>1, <1>2 DEF RecordEnd, Holds, Committed, SameBinding, git, StateSha, Generation
<1>6. Answered(o)'
  BY <1>1, <1>2 DEF RecordEnd, Answered, Failing, Unended, Published
<1>7. \A p \in Op \ {o} : run[p].at \in Holding => lease'.holder = p
  BY DEF RecordEnd, Agrees
<1>8. Halfway(o) => Halfway(o)'
  <2>1. CASE run[o].at = "closing"
    BY <1>1, <2>1, Accepted, OfRecord DEF Committed, Halfway
  <2>2. CASE run[o].at = "fail"
    BY <1>1, <1>2, <2>2 DEF RecordEnd, Halfway, Failing, Unended, Publishing, SameBinding,
                            Kept, git, StateSha, Generation
  <2>. QED BY <1>1, <2>1, <2>2
<1>. QED BY <1>1, <1>2, <1>3, <1>4, <1>5, <1>6, <1>7, <1>8, QuietStep DEF RecordEnd

LEMMA EndStep ==
    ASSUME IInv, NEW o \in Op, End(o) PROVE IInv'
<1>. USE DEF IInv
<1>1. /\ run \in RunType /\ run[o].at \in {"finish", "ending"} /\ Unended(o)
      /\ run[o].at = "finish" => Committed(o) /\ op[o].sealed
      /\ run[o].at = "ending" => op[o].phase \in {"FAILED", "RECOVERY_REQUIRED"}
  BY OfRecord DEF End, Agrees, Holds
<1>2. /\ run' \in RunType /\ OnlyRun(o) /\ run'[o].at = "release"
  BY <1>1, ToEffect DEF End, Place
<1>3. /\ op' \in [Op -> Record] /\ OnlyOp(o) /\ SameBinding(o)
      /\ op'[o].sealed = op[o].sealed
      /\ \/ run[o].at = "finish" /\ op'[o].status = "SUCCEEDED"
         \/ run[o].at = "ending" /\ op'[o].status = op[o].phase
  <2>. DEFINE s == IF run[o].at = "finish" THEN "SUCCEEDED" ELSE op[o].phase
  <2>1. s \in {"SUCCEEDED", "FAILED", "RECOVERY_REQUIRED"}
    BY <1>1
  <2>2. op' = [op EXCEPT ![o] = [op[o] EXCEPT !.status = s]]
    BY DEF End
  <2>. HIDE DEF s
  <2>3. op[o] \in Record
    BY DEF MirrorTypeOK
  <2>4. [op[o] EXCEPT !.status = s] \in Record
    BY <2>1, <2>3 DEF Record
  <2>5. /\ op' \in [Op -> Record] /\ OnlyOp(o) /\ SameBinding(o)
        /\ op'[o].sealed = op[o].sealed /\ op'[o].status = s
    BY <2>2, <2>3, <2>4 DEF MirrorTypeOK, Record, OnlyOp, SameBinding
  <2>. QED BY <1>1, <2>5 DEF s
<1>4. MirrorTypeOK'
  BY <1>2, <1>3 DEF End, MirrorTypeOK, git, RunType
<1>5. Agrees(o)' /\ Holds(o)'
  BY <1>1, <1>2, <1>3 DEF End, Agrees, Holds, Holding, Unended, SameBinding
<1>6. Answered(o)'
  <2>1. CASE run[o].at = "finish"
    <3>1. Published(o)
      BY <1>1, <2>1, Accepted, OfRecord DEF Committed, Published
    <3>. QED BY <1>2, <1>3, <2>1, <3>1 DEF End, Answered, Failing, Published
  <2>2. CASE run[o].at = "ending"
    BY <1>1, <1>2, <1>3, <2>2 DEF End, Answered, Failing, Published
  <2>. QED BY <1>1, <2>1, <2>2
<1>7. \A p \in Op \ {o} : run[p].at \in Holding => lease'.holder = p
  BY DEF End, Agrees
<1>8. ref # StateSha /\ Halfway(o) => Halfway(o)'
  <2>1. CASE run[o].at = "finish"
    BY <1>1, <2>1, Accepted, OfRecord DEF Committed, Halfway
  <2>2. CASE run[o].at = "ending"
    BY <1>1, <1>2, <1>3, <2>2 DEF End, Halfway, Failing, Unended, SameBinding, Kept, git,
                                  StateSha, Generation, Publishing
  <2>. QED BY <1>1, <2>1, <2>2
<1>. QED BY <1>1, <1>2, <1>3, <1>4, <1>5, <1>6, <1>7, <1>8, QuietStep DEF End

LEMMA ReleaseStep ==
    ASSUME IInv, NEW o \in Op, Release(o) PROVE IInv'
<1>. USE DEF IInv
<1>1. run \in RunType /\ run[o].at = "release"
  BY OfRecord DEF Release
<1>2. run' \in RunType /\ OnlyRun(o) /\ run'[o].at = "idle"
  BY <1>1 DEF Release, RunType, OnlyRun, Place
<1>3. /\ lease' \in [holder : Op \cup {None}, lapsed : BOOLEAN]
      /\ ctl' \in [mode : {"serving", "starting", "down"}, todo : SUBSET Op,
                   blocked : BOOLEAN]
      /\ \A p \in Op \ {o} : run[p].at \in Holding => lease'.holder = p
  BY OfRecord DEF Release, MirrorTypeOK, Agrees
<1>4. MirrorTypeOK'
  BY <1>2, <1>3 DEF Release, MirrorTypeOK, git, RunType
<1>5. Agrees(o)' /\ Holds(o)' /\ Answered(o)'
  BY <1>1, <1>2 DEF Release, Agrees, Holds, Holding, Unended, Answered, Failing, Published
<1>6. Halfway(o) => Halfway(o)'
  BY <1>1, <1>2 DEF Release, Halfway, Failing, Unended, Kept, git, StateSha, Generation,
                    Publishing
<1>. QED BY <1>1, <1>2, <1>3, <1>4, <1>5, <1>6, QuietStep
         DEF Release, OnlyOp, SameBinding

LEMMA AdoptStep ==
    ASSUME IInv, NEW o \in Op, Adopt(o) PROVE IInv'
<1>. USE DEF IInv
<1>1. run \in RunType /\ Unended(o) /\ \A p \in Op : run[p].at = "idle"
  BY OfRecord DEF Adopt, Agrees
<1>2. /\ run' \in RunType /\ OnlyRun(o) /\ run'[o].at \in {"assess", "undo"}
      /\ run'[o].at = "assess" => Publishing(o)
  BY <1>1, ToEffect DEF Adopt, Place
<1>3. MirrorTypeOK'
  BY <1>2 DEF Adopt, MirrorTypeOK, git, RunType
<1>4. Agrees(o)' /\ Holds(o)'
  BY <1>1, <1>2 DEF Adopt, Agrees, Holds, Holding, Unended, Publishing
<1>5. Answered(o)' /\ (Halfway(o) => Halfway(o)')
  BY <1>1, <1>2 DEF Adopt, Unended, Answered, Failing, Published, Halfway, Kept, git,
                    StateSha, Generation, Publishing
<1>6. \A p \in Op \ {o} : run[p].at \notin Holding
  BY <1>1 DEF Holding
<1>. QED BY <1>1, <1>2, <1>3, <1>4, <1>5, <1>6, QuietStep DEF Adopt, OnlyOp, SameBinding

LEMMA TroubleStep ==
    ASSUME IInv, NEW o \in Op, Trouble(o) PROVE IInv'
<1>. USE DEF IInv
<1>1. run \in RunType /\ Unended(o) /\ run[o].at \notin {"idle", "begun", "release"}
  BY OfRecord DEF Trouble, Agrees
<1>2. /\ run' \in RunType /\ OnlyRun(o)
      /\ \/ /\ run[o].at \in {"held", "fetch", "publish", "retain"}
            /\ run'[o].at = "fail" /\ ~run'[o].bad
         \/ run[o].at \in {"verify", "move", "swap"} /\ run'[o].at = "undo"
         \/ run'[o].at = "fail" /\ run'[o].bad
         \/ run'[o].at = "release"
  BY <1>1, ErrorEffect DEF Trouble
<1>3. MirrorTypeOK'
  <2>1. faults' \in Nat
    BY DEF Trouble, Fault, MirrorTypeOK
  <2>. QED BY <1>2, <2>1 DEF Trouble, MirrorTypeOK, git, RunType
<1>4. Agrees(o)' /\ Holds(o)'
  BY <1>1, <1>2 DEF Trouble, Agrees, Holds, Holding, Unended
<1>5. Answered(o)' /\ (ref # StateSha /\ Halfway(o) => Halfway(o)')
  <2>1. CASE run[o].at \in {"held", "fetch", "publish", "retain"}
    <3>1. ~Published(o)
      BY <2>1, PublishedFacts, OfRecord, Accepted DEF Agrees, Holds, AtBaseline
    <3>2. ~Halfway(o) \/ ref = StateSha
      BY <2>1 DEF Halfway, Agrees, Holds, AtBaseline
    <3>. QED BY <1>1, <3>1, <3>2 DEF Trouble, Answered, Failing, Published, Unended
  <2>2. CASE run[o].at \notin {"held", "fetch", "publish", "retain"}
    BY <1>1, <1>2, <2>2 DEF Trouble, Unended, Answered, Failing, Published, Halfway, Kept,
                            git, StateSha, Generation, Publishing
  <2>. QED BY <2>1, <2>2
<1>6. \A p \in Op \ {o} : run[p].at \in Holding => lease'.holder = p
  BY DEF Trouble, Agrees
<1>. QED BY <1>1, <1>2, <1>3, <1>4, <1>5, <1>6, QuietStep
         DEF Trouble, OnlyOp, SameBinding

-----------------------------------------------------------------------------
(* Steps that nobody in particular takes. *)

LEMMA CommonStep ==
    ASSUME IInv, Start \/ Ready \/ (\E sha \in Sha : Push(sha)) \/ Lapse PROVE IInv'
<1>. USE DEF IInv
<1>1. /\ UNCHANGED <<git, accepted, op, run>> /\ lease'.holder = lease.holder
      /\ \A o \in ctl'.todo : o \in ctl.todo \/ Unended(o)
      /\ MirrorTypeOK'
  <2>1. CASE Start
    BY <2>1 DEF Start, MirrorTypeOK, git
  <2>2. CASE Ready
    BY <2>2 DEF Ready, MirrorTypeOK, git
  <2>3. CASE \E sha \in Sha : Push(sha)
    BY <2>3 DEF Push, MirrorTypeOK, git
  <2>4. CASE Lapse
    <3>1. /\ lease' \in [holder : Op \cup {None}, lapsed : BOOLEAN]
          /\ lease'.holder = lease.holder
      BY <2>4 DEF Lapse, MirrorTypeOK
    <3>2. faults' \in Nat
      BY <2>4 DEF Lapse, Fault, MirrorTypeOK
    <3>. QED BY <2>4, <3>1, <3>2 DEF Lapse, MirrorTypeOK, git
  <2>. QED BY <2>1, <2>2, <2>3, <2>4
<1>2. \A o \in Op : Agrees(o)' /\ Holds(o)' /\ Answered(o)'
  BY <1>1 DEF git, Agrees, Holds, Answered, Unended, AtBaseline, Kept, Committed,
              StateSha, Generation, Failing, Published, Publishing
<1>3. Tied' /\ AcceptedIsRetained'
  BY <1>1 DEF git, Tied, AcceptedIsRetained
<1>4. Ahead'
  BY <1>1 DEF git, Ahead, Halfway, Unended, Failing, Kept, StateSha, Generation,
              Publishing
<1>. QED BY <1>1, <1>2, <1>3, <1>4 DEF Generation

LEMMA CrashStep ==
    ASSUME IInv, Crash PROVE IInv'
<1>. USE DEF IInv
<1>1. UNCHANGED <<git, accepted, op>> /\ run' \in RunType /\ MirrorTypeOK'
  BY DEF Crash, MirrorTypeOK, RunType, git, Place
<1>2. (\A o \in Op : run'[o].at = "idle") /\ ctl'.todo = {}
  BY DEF Crash
<1>3. \A o \in Op : Agrees(o)' /\ Holds(o)' /\ Answered(o)'
  BY <1>1, <1>2 DEF git, Agrees, Holds, Holding, Answered, Unended, Failing, Published
<1>4. Tied' /\ AcceptedIsRetained'
  BY <1>1 DEF git, Tied, AcceptedIsRetained
<1>5. Ahead'
  BY <1>1, <1>2 DEF git, Ahead, Halfway, Unended, Failing, Kept, StateSha, Generation,
                    Publishing
<1>. QED BY <1>1, <1>3, <1>4, <1>5 DEF Generation

-----------------------------------------------------------------------------
(* Steps of the holder of the lease on the refs and the row. *)

\* Nobody else is about to touch them, so that it is enough to look at the holder.
LEMMA HolderStep ==
    ASSUME IInv, MirrorTypeOK', NEW o \in Op, run[o].at \in Holding,
           UNCHANGED <<lease, ctl>>, OnlyRun(o), OnlyOp(o), SameBinding(o),
           op'[o].sealed = op[o].sealed,
           \/ accepted' = accepted
           \/ Accepts(o) /\ op[o].sealed /\ Generation = op[o].gen /\ Unended(o),
           Agrees(o)', Holds(o)', Answered(o)', AcceptedIsRetained', Ahead'
    PROVE  IInv'
<1>. USE DEF IInv
<1>1. \A p \in Op \ {o} : run[p].at \notin Holding
  BY DEF Agrees
<1>2. CASE accepted' = accepted
  <2>1. \A p \in Op \ {o} : Agrees(p)' /\ Holds(p)' /\ Answered(p)'
    BY <1>1, <1>2 DEF OnlyRun, OnlyOp, Agrees, Holds, Holding, Answered, Unended, Failing,
                      Published
  <2>2. Tied'
    <3>1. ASSUME NEW n \in DOMAIN accepted
          PROVE  /\ op'[accepted[n].op].gen + 1 = n
                 /\ op'[accepted[n].op].candidate = accepted[n].sha
                 /\ op'[accepted[n].op].sealed
      <4>1. accepted[n].op \in Op
        BY Accepted
      <4>. QED BY <4>1 DEF Tied, SameBinding, OnlyOp
    <3>. QED BY <1>2, <3>1 DEF Tied
  <2>. QED BY <1>2, <2>1, <2>2 DEF Generation
<1>3. CASE Accepts(o) /\ op[o].sealed /\ Generation = op[o].gen /\ Unended(o)
  <2>1. /\ DOMAIN accepted = 1 .. Generation /\ DOMAIN accepted' = 1 .. Generation + 1
        /\ Generation' = Generation + 1
        /\ \A n \in DOMAIN accepted : accepted'[n] = accepted[n]
        /\ accepted'[Generation + 1] = [sha |-> op[o].candidate, op |-> o]
    BY <1>3, Accepted DEF Accepts, Generation, MirrorTypeOK
  <2>2. Generation' <= MaxGeneration
    BY <1>3, <2>1, OfRecord, MirrorAssumption DEF Agrees, Unended
  <2>3. \A p \in Op \ {o} : Published(p)' <=> Published(p)
    BY <2>1, Accepted DEF Published
  <2>4. \A p \in Op \ {o} : Agrees(p)' /\ Holds(p)' /\ Answered(p)'
    BY <1>1, <2>3 DEF OnlyRun, OnlyOp, Agrees, Holds, Holding, Answered, Unended, Failing
  <2>5. Tied'
    <3>1. ASSUME NEW n \in DOMAIN accepted
          PROVE  /\ op'[accepted[n].op].gen + 1 = n
                 /\ op'[accepted[n].op].candidate = accepted[n].sha
                 /\ op'[accepted[n].op].sealed
      <4>1. accepted[n].op \in Op
        BY Accepted
      <4>. QED BY <4>1 DEF Tied, SameBinding, OnlyOp
    <3>2. /\ op'[o].gen + 1 = Generation + 1
          /\ op'[o].candidate = op[o].candidate /\ op'[o].sealed
      BY <1>3 DEF SameBinding
    <3>3. \A n \in DOMAIN accepted' : n \in DOMAIN accepted \/ n = Generation + 1
      BY <2>1, Accepted
    <3>. QED BY <2>1, <3>1, <3>2, <3>3 DEF Tied
  <2>. QED BY <2>2, <2>4, <2>5
<1>. QED BY <1>2, <1>3

\* While the row is what o was previewed as, o is not in the line, and what o keeps
\* is not for a generation that is in the line.
LEMMA BaselineFacts ==
    ASSUME IInv, NEW o \in Op, Unended(o), AtBaseline(o)
    PROVE  /\ ~Published(o) /\ ref = StateSha
           /\ op[o].gen + 1 \in 1 .. MaxGeneration
           /\ op[o].gen + 1 \notin DOMAIN accepted
<1>. USE DEF IInv
<1>1. op[o].gen < MaxGeneration
  BY DEF Agrees, Unended
<1>. QED BY <1>1, PublishedFacts, Accepted, OfRecord, MirrorAssumption DEF AtBaseline

LEMMA KeepEffect ==
    ASSUME IInv, NEW o \in Op, NEW sha \in Sha \cup {None}, Unended(o), AtBaseline(o),
           Keep(o, sha), accepted' = accepted
    PROVE  /\ history' \in [1 .. MaxGeneration -> Sha \cup {None}]
           /\ history'[op[o].gen + 1] = sha
           /\ AcceptedIsRetained'
<1>. USE DEF IInv
<1>1. history' \in [1 .. MaxGeneration -> Sha \cup {None}]
  BY DEF Keep, MirrorTypeOK
<1>2. history'[op[o].gen + 1] = sha
  BY BaselineFacts DEF Keep, MirrorTypeOK
<1>3. \A n \in DOMAIN accepted : history'[n] = history[n]
  BY BaselineFacts, Accepted, MirrorAssumption DEF Keep, MirrorTypeOK
<1>. QED BY <1>1, <1>2, <1>3 DEF AcceptedIsRetained

LEMMA RetainStep ==
    ASSUME IInv, NEW o \in Op, Retain(o) PROVE IInv'
<1>. USE DEF IInv
<1>1. /\ run \in RunType /\ run[o].at = "retain" /\ op[o].sealed /\ Unended(o)
      /\ lease.holder = o /\ AtBaseline(o) /\ op[o].candidate \in Sha
  BY OfRecord DEF Retain, Agrees, Holding, Holds, Unended
<1>2. ~Published(o) /\ ref = StateSha
  BY <1>1, BaselineFacts
<1>3. CASE Fail(o, FALSE) /\ UNCHANGED <<history, faults>>
  <2>1. run' \in RunType /\ run'[o].at = "fail" /\ OnlyRun(o)
    BY <1>1, <1>3, FailEffect
  <2>2. MirrorTypeOK'
    BY <1>3, <2>1 DEF Retain, MirrorTypeOK, RunType
  <2>3. Agrees(o)' /\ Holds(o)' /\ Answered(o)'
    BY <1>1, <1>2, <2>1
       DEF Retain, Agrees, Holds, Holding, Unended, Answered, Failing, Published
  <2>4. \A p \in Op \ {o} : run[p].at \in Holding => lease'.holder = p
    BY DEF Retain, Agrees
  <2>. QED BY <1>2, <1>3, <2>1, <2>2, <2>3, <2>4, QuietStep
           DEF Retain, OnlyOp, SameBinding, git
<1>4. CASE /\ Keep(o, op[o].candidate)
           /\ \/ To(o, "verify") /\ NoFault
              \/ OnError(o) /\ Fault
  <2>1. /\ run' \in RunType /\ OnlyRun(o)
        /\ run'[o].at \in {"verify", "fail"}
    BY <1>1, <1>4, ToEffect, ErrorEffect DEF Place
  <2>2. /\ history' \in [1 .. MaxGeneration -> Sha \cup {None}]
        /\ history'[op[o].gen + 1] = op[o].candidate /\ AcceptedIsRetained'
    BY <1>1, <1>4, KeepEffect DEF Retain
  <2>3. faults' \in Nat
    BY <1>4 DEF NoFault, Fault, MirrorTypeOK
  <2>4. MirrorTypeOK'
    BY <2>1, <2>2, <2>3 DEF Retain, MirrorTypeOK, RunType
  <2>5. Agrees(o)' /\ Holds(o)' /\ Answered(o)'
    BY <1>1, <1>2, <2>1, <2>2
       DEF Retain, Agrees, Holds, Holding, Unended, Answered, Failing, Published,
           AtBaseline, Kept, StateSha, Generation
  <2>6. Ahead'
    BY <1>2 DEF Retain, Ahead, StateSha, Generation
  <2>. QED BY <1>1, <2>1, <2>2, <2>4, <2>5, <2>6, HolderStep
           DEF Retain, OnlyOp, SameBinding, Holding
<1>. QED BY <1>3, <1>4 DEF Retain

LEMMA MoveStep ==
    ASSUME IInv, NEW o \in Op, Move(o) PROVE IInv'
<1>. USE DEF IInv
<1>1. /\ run \in RunType /\ run[o].at = "move" /\ op[o].sealed /\ Unended(o)
      /\ lease.holder = o /\ AtBaseline(o) /\ op[o].candidate \in Sha
      /\ Kept(o) = op[o].candidate /\ Publishing(o)
  BY OfRecord DEF Move, Agrees, Holding, Holds, Unended
<1>2. ref = StateSha
  BY <1>1, BaselineFacts
<1>3. CASE To(o, "undo") /\ UNCHANGED <<ref, faults>>
  <2>1. run' \in RunType /\ run'[o].at = "undo" /\ OnlyRun(o)
    BY <1>1, <1>3, ToEffect DEF Place
  <2>2. MirrorTypeOK'
    BY <1>3, <2>1 DEF Move, MirrorTypeOK, RunType
  <2>3. Agrees(o)' /\ Holds(o)' /\ Answered(o)'
    BY <1>1, <2>1 DEF Move, Agrees, Holds, Holding, Unended, Answered, Failing
  <2>4. \A p \in Op \ {o} : run[p].at \in Holding => lease'.holder = p
    BY DEF Move, Agrees
  <2>. QED BY <1>2, <1>3, <2>1, <2>2, <2>3, <2>4, QuietStep
           DEF Move, OnlyOp, SameBinding, git
<1>4. CASE /\ ref' = op[o].candidate
           /\ \/ To(o, "swap") /\ NoFault
              \/ OnError(o) /\ Fault
  <2>1. run' \in RunType /\ OnlyRun(o) /\ run'[o].at \in {"swap", "undo"}
    BY <1>1, <1>4, ToEffect, ErrorEffect DEF Place
  <2>2. faults' \in Nat
    BY <1>4 DEF NoFault, Fault, MirrorTypeOK
  <2>3. MirrorTypeOK'
    BY <1>1, <1>4, <2>1, <2>2 DEF Move, MirrorTypeOK, RunType
  <2>4. Agrees(o)' /\ Holds(o)' /\ Answered(o)'
    BY <1>1, <1>4, <2>1
       DEF Move, Agrees, Holds, Holding, Unended, Answered, Failing, AtBaseline, Kept,
           StateSha, Generation, Publishing
  <2>5. Halfway(o)'
    BY <1>1, <1>4, <2>1
       DEF Move, Halfway, Unended, Failing, AtBaseline, Kept, StateSha, Generation,
           Publishing
  <2>6. AcceptedIsRetained' /\ Ahead'
    BY <2>5 DEF Move, AcceptedIsRetained, Ahead
  <2>. QED BY <1>1, <2>1, <2>3, <2>4, <2>6, HolderStep
           DEF Move, OnlyOp, SameBinding, Holding
<1>. QED BY <1>3, <1>4 DEF Move

\* A row that is written leaves the line kept and the ref where the row is.
LEMMA AcceptEffect ==
    ASSUME IInv, NEW o \in Op, Accepts(o), UNCHANGED <<ref, history, op>>,
           Unended(o), Generation = op[o].gen,
           ref = op[o].candidate, Kept(o) = op[o].candidate
    PROVE  /\ accepted' \in Seq([sha : Sha, op : Op])
           /\ Committed(o)' /\ AcceptedIsRetained' /\ Ahead' /\ Published(o)'
<1>. USE DEF IInv
<1>1. op[o].candidate \in Sha
  BY DEF Agrees, Unended
<1>2. /\ accepted' \in Seq([sha : Sha, op : Op])
      /\ DOMAIN accepted = 1 .. Generation /\ DOMAIN accepted' = 1 .. Generation + 1
      /\ Generation' = Generation + 1 /\ accepted' # <<>>
      /\ \A n \in DOMAIN accepted : accepted'[n] = accepted[n]
      /\ accepted'[Generation + 1] = [sha |-> op[o].candidate, op |-> o]
  BY <1>1, Accepted DEF Accepts, Generation, MirrorTypeOK
<1>3. StateSha' = op[o].candidate
  BY <1>2 DEF StateSha
<1>4. Committed(o)'
  BY <1>2, <1>3 DEF Committed
<1>5. AcceptedIsRetained'
  <2>1. \A n \in DOMAIN accepted' : n \in DOMAIN accepted \/ n = Generation + 1
    BY <1>2, Accepted
  <2>. QED BY <1>2, <2>1 DEF AcceptedIsRetained, Kept
<1>6. Ahead'
  BY <1>3 DEF Ahead
<1>7. Published(o)'
  BY <1>2, Accepted DEF Published
<1>. QED BY <1>2, <1>4, <1>5, <1>6, <1>7

LEMMA SwapStep ==
    ASSUME IInv, NEW o \in Op, Swap(o) PROVE IInv'
<1>. USE DEF IInv
<1>1. /\ run \in RunType /\ run[o].at = "swap" /\ op[o].sealed /\ Unended(o)
      /\ lease.holder = o /\ Kept(o) = op[o].candidate
      /\ ref = op[o].candidate /\ StateSha = op[o].expected /\ Generation = op[o].gen
      /\ Publishing(o)
  BY OfRecord DEF Swap, Agrees, Holding, Holds
<1>2. CASE Accepts(o) /\ To(o, "accepted") /\ UNCHANGED ref
  <2>1. run' \in RunType /\ run'[o].at = "accepted" /\ OnlyRun(o)
    BY <1>1, <1>2, ToEffect DEF Place
  <2>2. /\ accepted' \in Seq([sha : Sha, op : Op])
        /\ Committed(o)' /\ AcceptedIsRetained' /\ Ahead'
    BY <1>1, <1>2, AcceptEffect DEF Swap
  <2>3. MirrorTypeOK'
    BY <1>2, <2>1, <2>2 DEF Swap, MirrorTypeOK, RunType
  <2>4. Agrees(o)' /\ Holds(o)' /\ Answered(o)'
    BY <1>1, <2>1, <2>2 DEF Swap, Agrees, Holds, Holding, Unended, Answered, Failing
  <2>. QED BY <1>1, <1>2, <2>1, <2>2, <2>3, <2>4, HolderStep
           DEF Swap, OnlyOp, SameBinding, Holding
<1>3. CASE Fail(o, TRUE) /\ UNCHANGED <<accepted, ref>>
  <2>1. run' \in RunType /\ run'[o].at = "fail" /\ run'[o].bad /\ OnlyRun(o)
    BY <1>1, <1>3, FailEffect
  <2>2. MirrorTypeOK'
    BY <1>3, <2>1 DEF Swap, MirrorTypeOK, RunType
  <2>3. Agrees(o)' /\ Holds(o)' /\ Answered(o)'
    BY <1>1, <2>1 DEF Swap, Agrees, Holds, Holding, Unended, Answered, Failing
  <2>4. Halfway(o)'
    BY <1>1, <1>3, <2>1 DEF Swap, Halfway, Unended, Failing, Kept, StateSha, Generation,
                            Publishing
  <2>5. \A p \in Op \ {o} : run[p].at \in Holding => lease'.holder = p
    BY DEF Swap, Agrees
  <2>. QED BY <1>3, <2>1, <2>2, <2>3, <2>4, <2>5, QuietStep
           DEF Swap, OnlyOp, SameBinding, git
<1>. QED BY <1>1, <1>2, <1>3 DEF Swap, MaySwap

LEMMA MaintainStep ==
    ASSUME IInv, NEW o \in Op, Maintain(o) PROVE IInv'
<1>. USE DEF IInv
<1>1. /\ run \in RunType /\ run[o].at = "maintain" /\ op[o].sealed /\ Unended(o)
      /\ lease.holder = o /\ Committed(o) /\ op[o].candidate \in Sha
  BY OfRecord DEF Maintain, Agrees, Holding, Holds, Unended
<1>2. ref = StateSha /\ Generation \in DOMAIN accepted
  BY <1>1, Accepted, OfRecord DEF Committed
<1>3. CASE Fail(o, TRUE) /\ UNCHANGED <<history, op, faults>>
  <2>1. run' \in RunType /\ run'[o].at = "fail" /\ run'[o].bad /\ OnlyRun(o)
    BY <1>1, <1>3, FailEffect
  <2>2. MirrorTypeOK'
    BY <1>3, <2>1 DEF Maintain, MirrorTypeOK, RunType
  <2>3. Agrees(o)' /\ Holds(o)' /\ Answered(o)'
    BY <1>1, <1>3, <2>1 DEF Maintain, Agrees, Holds, Holding, Unended, Answered, Failing
  <2>4. \A p \in Op \ {o} : run[p].at \in Holding => lease'.holder = p
    BY DEF Maintain, Agrees
  <2>. QED BY <1>2, <1>3, <2>1, <2>2, <2>3, <2>4, QuietStep
           DEF Maintain, OnlyOp, SameBinding, git
<1>4. CASE /\ history' = [history EXCEPT ![Generation] = op[o].candidate]
           /\ Enter(o, "MAINTENANCE")
           /\ \/ To(o, "closing") /\ NoFault
              \/ OnError(o) /\ Fault
  <2>1. /\ run' \in RunType /\ OnlyRun(o)
        /\ run'[o].at = "closing" \/ (run'[o].at = "fail" /\ run'[o].bad)
    BY <1>1, <1>4, ToEffect, ErrorEffect DEF Place
  <2>2. /\ op' \in [Op -> Record] /\ OnlyOp(o) /\ SameBinding(o)
        /\ op'[o].status = op[o].status /\ op'[o].sealed = op[o].sealed
    BY <1>4, EnterEffect DEF Phase, MirrorTypeOK
  <2>3. faults' \in Nat
    BY <1>4 DEF NoFault, Fault, MirrorTypeOK
  <2>4. history' = history
    <3>1. history[Generation] = op[o].candidate
      BY <1>1, <1>2 DEF AcceptedIsRetained, Committed, StateSha
    <3>. QED BY <1>4, <3>1 DEF MirrorTypeOK
  <2>5. MirrorTypeOK'
    BY <2>1, <2>2, <2>3, <2>4 DEF Maintain, MirrorTypeOK, RunType
  <2>6. Agrees(o)' /\ Holds(o)' /\ Answered(o)'
    BY <1>1, <2>1, <2>2
       DEF Maintain, Agrees, Holds, Holding, Unended, Answered, Failing, Committed,
           SameBinding, StateSha, Generation
  <2>7. \A p \in Op \ {o} : run[p].at \in Holding => lease'.holder = p
    BY DEF Maintain, Agrees
  <2>. QED BY <1>2, <2>1, <2>2, <2>4, <2>5, <2>6, <2>7, QuietStep DEF Maintain, git
<1>. QED BY <1>3, <1>4 DEF Maintain

LEMMA UndoStep ==
    ASSUME IInv, NEW o \in Op, Undo(o) PROVE IInv'
<1>. USE DEF IInv
<1>1. /\ run \in RunType /\ run[o].at = "undo" /\ Unended(o) /\ lease.holder = o
  BY OfRecord DEF Undo, Agrees, Holding
<1>2. CASE Fail(o, TRUE) /\ UNCHANGED <<history, faults>>
  <2>1. run' \in RunType /\ run'[o].at = "fail" /\ run'[o].bad /\ OnlyRun(o)
    BY <1>1, <1>2, FailEffect
  <2>2. MirrorTypeOK'
    BY <1>2, <2>1 DEF Undo, MirrorTypeOK, RunType
  <2>3. Agrees(o)' /\ Holds(o)' /\ Answered(o)'
    BY <1>1, <2>1 DEF Undo, Agrees, Holds, Holding, Unended, Answered, Failing
  <2>4. Halfway(o) => Halfway(o)'
    BY <1>2, <2>1 DEF Undo, Halfway, Unended, Failing, Kept, StateSha, Generation,
                      Publishing
  <2>5. \A p \in Op \ {o} : run[p].at \in Holding => lease'.holder = p
    BY DEF Undo, Agrees
  <2>. QED BY <1>2, <2>1, <2>2, <2>3, <2>4, <2>5, QuietStep
           DEF Undo, OnlyOp, SameBinding, git
<1>3. CASE /\ MayUndo(o) /\ Keep(o, None)
           /\ \/ Fail(o, FALSE) /\ NoFault
              \/ OnError(o) /\ Fault
  <2>1. AtBaseline(o) /\ ~Published(o) /\ ref = StateSha
    BY <1>1, <1>3, BaselineFacts DEF MayUndo
  <2>2. run' \in RunType /\ OnlyRun(o) /\ run'[o].at = "fail"
    BY <1>1, <1>3, FailEffect, ErrorEffect
  <2>3. history' \in [1 .. MaxGeneration -> Sha \cup {None}] /\ AcceptedIsRetained'
    BY <1>1, <1>3, <2>1, KeepEffect DEF Undo
  <2>4. faults' \in Nat
    <3>1. NoFault \/ Fault
      BY <1>3
    <3>. QED BY <3>1 DEF NoFault, Fault, MirrorTypeOK
  <2>5. MirrorTypeOK'
    BY <2>2, <2>3, <2>4 DEF Undo, MirrorTypeOK, RunType
  <2>6. Agrees(o)' /\ Holds(o)' /\ Answered(o)'
    BY <1>1, <2>1, <2>2
       DEF Undo, Agrees, Holds, Holding, Unended, Answered, Failing, Published
  <2>7. Ahead'
    BY <2>1 DEF Undo, Ahead, StateSha, Generation
  <2>. QED BY <1>1, <2>2, <2>3, <2>5, <2>6, <2>7, HolderStep
           DEF Undo, OnlyOp, SameBinding, Holding
<1>. QED BY <1>2, <1>3 DEF Undo

LEMMA AssessStep ==
    ASSUME IInv, NEW o \in Op, Assess(o) PROVE IInv'
<1>. USE DEF IInv
<1>1. /\ run \in RunType /\ run[o].at = "assess" /\ Unended(o) /\ lease.holder = o
  BY OfRecord DEF Assess, Agrees, Holding
<1>2. CASE /\ UNCHANGED accepted
           /\ \/ op[o].sealed /\ Committed(o) /\ To(o, "accepted")
              \/ op[o].sealed /\ AtBaseline(o) /\ To(o, "undo")
              \/ Fail(o, TRUE)
  <2>1. /\ run' \in RunType /\ OnlyRun(o)
        /\ \/ run'[o].at = "accepted" /\ op[o].sealed /\ Committed(o)
           \/ run'[o].at = "undo"
           \/ run'[o].at = "fail" /\ run'[o].bad
    BY <1>1, <1>2, ToEffect, FailEffect DEF Place
  <2>2. MirrorTypeOK'
    BY <1>2, <2>1 DEF Assess, MirrorTypeOK, RunType, git
  <2>3. Agrees(o)' /\ Holds(o)' /\ Answered(o)'
    BY <1>1, <1>2, <2>1 DEF Assess, Agrees, Holds, Holding, Unended, Answered, Failing,
                            Committed, git, StateSha, Generation
  <2>4. Halfway(o) => Halfway(o)'
    BY <1>2, <2>1 DEF Assess, Halfway, Unended, Failing, Kept, git, StateSha, Generation,
                      Publishing
  <2>5. \A p \in Op \ {o} : run[p].at \in Holding => lease'.holder = p
    BY DEF Assess, Agrees
  <2>. QED BY <1>2, <2>1, <2>2, <2>3, <2>4, <2>5, QuietStep
           DEF Assess, OnlyOp, SameBinding, git
<1>3. CASE /\ op[o].sealed /\ ~AtBaseline(o) /\ ref = op[o].candidate /\ MaySwap(o)
           /\ Accepts(o) /\ To(o, "accepted")
  <2>1. run' \in RunType /\ run'[o].at = "accepted" /\ OnlyRun(o)
    BY <1>1, <1>3, ToEffect DEF Place
  <2>2. PICK w \in Op : Halfway(w)
    BY <1>3 DEF Ahead, AtBaseline, MaySwap
  <2>3. Generation = op[o].gen /\ Kept(o) = op[o].candidate
    BY <1>3, <2>2 DEF MaySwap, Halfway, Kept
  <2>4. /\ accepted' \in Seq([sha : Sha, op : Op])
        /\ Committed(o)' /\ AcceptedIsRetained' /\ Ahead'
    BY <1>1, <1>3, <2>3, AcceptEffect DEF Assess, git
  <2>5. MirrorTypeOK'
    BY <2>1, <2>4 DEF Assess, MirrorTypeOK, RunType, git
  <2>6. Agrees(o)' /\ Holds(o)' /\ Answered(o)'
    BY <1>1, <1>3, <2>1, <2>4
       DEF Assess, Agrees, Holds, Holding, Unended, Answered, Failing
  <2>. QED BY <1>1, <1>3, <2>1, <2>3, <2>4, <2>5, <2>6, HolderStep
           DEF Assess, OnlyOp, SameBinding, Holding
<1>. QED BY <1>2, <1>3 DEF Assess

-----------------------------------------------------------------------------
(* The invariant, and what follows from it. *)

LEMMA Initial == ASSUME Init PROVE IInv
<1>1. MirrorTypeOK
  BY MirrorAssumption DEF Init, MirrorTypeOK, Record, Phase, Place
<1>2. Generation = 0 /\ StateSha = None /\ DOMAIN accepted = {}
  BY DEF Init, Generation, StateSha
<1>3. \A o \in Op : Agrees(o) /\ Holds(o) /\ Answered(o)
  BY DEF Init, Agrees, Holds, Holding, Answered, Failing
<1>. QED BY <1>1, <1>2, <1>3, MirrorAssumption
         DEF Init, IInv, Tied, AcceptedIsRetained, Ahead

LEMMA Inductive == ASSUME IInv, [Next]_vars PROVE IInv'
<1>1. CASE UNCHANGED vars
  BY <1>1 DEF vars, git, IInv, MirrorTypeOK, Generation, StateSha, Agrees, Holds,
              Answered, Tied, AcceptedIsRetained, Ahead, Halfway, Unended, Failing,
              Published, AtBaseline, Committed, Kept, Publishing
<1>2. ASSUME NEW o \in Op, Preview(o) \/ Begin(o) \/ Work(o) \/ Trouble(o) PROVE IInv'
  BY <1>2, PreviewStep, BeginStep, TroubleStep, AcquireStep, CheckFreshStep, FetchStep,
     PublishStep, RetainStep, VerifyStep, MoveStep, SwapStep, RecordAcceptedStep,
     MaintainStep, RecordEndStep, EndStep, ReleaseStep, UndoStep, AdoptStep, AssessStep
     DEF Work
<1>3. CASE Start \/ Ready \/ (\E sha \in Sha : Push(sha)) \/ Lapse
  BY <1>3, CommonStep
<1>4. CASE Crash
  BY <1>4, CrashStep
<1>. QED BY <1>1, <1>2, <1>3, <1>4 DEF Next

LEMMA Invariant == Spec => []IInv
<1>. QED BY Initial, Inductive, PTL DEF Spec

\* The variables have their types.
THEOREM TypeCorrect == Spec => []MirrorTypeOK
<1>1. IInv => MirrorTypeOK
  BY DEF IInv
<1>. QED BY <1>1, Invariant, PTL

\* No commit that was accepted is lost: the ref that keeps it is neither moved nor
\* deleted by what is undone, recovered or collected later
\* (cleanupUnpublishedAcceptedHistory, ensureImmutableRetentionRef).
THEOREM AcceptedStays == Spec => []AcceptedIsRetained
<1>1. IInv => AcceptedIsRetained
  BY DEF IInv
<1>. QED BY <1>1, Invariant, PTL

\* Whenever the accepted ref and the row differ, wherever the controller died and
\* whatever failed, an unended operation says how to bring them together
\* (MIRROR_PUBLISHING, recover).
THEOREM NeverAstray == Spec => []RefAndStateAgree
<1>1. IInv => RefAndStateAgree
  BY DEF IInv, Ahead, Halfway, RefAndStateAgree
<1>. QED BY <1>1, Invariant, PTL

-----------------------------------------------------------------------------
(* The line. *)

LineView == <<accepted, Shown, Outcome>>

LEMMA SameOutcome ==
    ASSUME \A p \in Op : op'[p].status = op[p].status PROVE Outcome' = Outcome
BY DEF Outcome

LEMMA SameShown ==
    ASSUME \A p \in Op : /\ op'[p].status = "NONE" <=> op[p].status = "NONE"
                         /\ op'[p].gen = op[p].gen
    PROVE  Shown' = Shown
BY DEF Shown

\* Most steps neither write the row nor end an operation.
LEMMA LineStutter ==
    ASSUME MirrorTypeOK, NEW o \in Op,
           \/ Acquire(o) \/ CheckFresh(o) \/ Fetch(o) \/ Publish(o) \/ Retain(o)
           \/ Verify(o) \/ Move(o) \/ RecordAccepted(o) \/ Maintain(o) \/ RecordEnd(o)
           \/ Release(o) \/ Undo(o) \/ Adopt(o) \/ Trouble(o)
    PROVE  UNCHANGED LineView
<1>1. accepted' = accepted
  BY DEF Acquire, CheckFresh, Fetch, Publish, Retain, Verify, Move, RecordAccepted,
         Maintain, RecordEnd, Release, Undo, Adopt, Trouble
<1>2. \/ op' = op
      \/ \E phase \in {"FETCHING", "RETENTION_VERIFIED", "ACCEPTED", "MAINTENANCE",
                      "VERIFIED", "RECOVERY_REQUIRED", "FAILED"} : Enter(o, phase)
      \/ op' = [op EXCEPT ![o].phase = "PUBLISHING", ![o].sealed = TRUE]
  BY DEF Acquire, CheckFresh, Fetch, Publish, Retain, Verify, Move, RecordAccepted,
         Maintain, RecordEnd, Release, Undo, Adopt, Trouble
<1>3. op \in [Op -> Record]
  BY DEF MirrorTypeOK
<1>4. \A p \in Op : op'[p].status = op[p].status /\ op'[p].gen = op[p].gen
  <2>1. CASE \E phase \in {"FETCHING", "RETENTION_VERIFIED", "ACCEPTED", "MAINTENANCE",
                          "VERIFIED", "RECOVERY_REQUIRED", "FAILED"} : Enter(o, phase)
    BY <1>3, <2>1, EnterEffect DEF Phase, OnlyOp, SameBinding
  <2>2. CASE op' = [op EXCEPT ![o].phase = "PUBLISHING", ![o].sealed = TRUE]
    BY <1>3, <2>2 DEF Record
  <2>. QED BY <1>2, <2>1, <2>2
<1>. QED BY <1>1, <1>4, SameOutcome, SameShown DEF LineView

LEMMA Acceptance ==
    ASSUME IInv, NEW o \in Op, Unended(o), Accepts(o), Generation = op[o].gen,
           UNCHANGED op
    PROVE  Line!LineNext
<1>. USE DEF IInv
<1>1. Outcome[o] = "open" /\ Shown[o] = {Len(accepted)}
  BY DEF Unended, Outcome, Shown, Generation
<1>2. op[o].candidate \in Sha
  BY DEF Agrees, Unended
<1>3. Line!Accept(o, op[o].candidate)
  BY <1>1, SameOutcome, SameShown DEF Line!Accept, Accepts
<1>. QED BY <1>2, <1>3 DEF Line!LineNext

LEMMA Ending ==
    ASSUME IInv, NEW o \in Op, End(o)
    PROVE  Line!LineNext \/ UNCHANGED LineView
<1>. USE DEF IInv
<1>1. /\ Unended(o) /\ accepted' = accepted
      /\ op' = [op EXCEPT ![o].status =
                   IF run[o].at = "finish" THEN "SUCCEEDED" ELSE op[o].phase]
      /\ run[o].at \in {"finish", "ending"}
  BY DEF End, Agrees
<1>2. Outcome[o] = "open"
  BY <1>1 DEF Unended, Outcome
<1>. DEFINE s == IF run[o].at = "finish" THEN "SUCCEEDED" ELSE op[o].phase
<1>3. op \in [Op -> Record] /\ op' = [op EXCEPT ![o].status = s]
  BY <1>1 DEF MirrorTypeOK
<1>4. /\ op'[o].status = s /\ \A p \in Op \ {o} : op'[p].status = op[p].status
      /\ \A p \in Op : op'[p].gen = op[p].gen
  <2>. HIDE DEF s
  <2>. QED BY <1>3 DEF Record
<1>5. Shown' = Shown
  <2>1. s # "NONE" /\ op[o].status # "NONE"
    BY <1>1 DEF Agrees, Unended
  <2>. HIDE DEF s
  <2>. QED BY <1>4, <2>1, SameShown
<1>6. CASE run[o].at = "finish"
  <2>1. Line!InLine(o)
    BY <1>6, Accepted, OfRecord DEF Holds, Committed, Line!InLine
  <2>2. Outcome' = [Outcome EXCEPT ![o] = "yes"]
    BY <1>4, <1>6 DEF Outcome
  <2>3. Line!Answer(o)
    BY <1>1, <1>2, <1>5, <2>1, <2>2 DEF Line!Answer
  <2>. QED BY <2>3 DEF Line!LineNext
<1>7. CASE run[o].at = "ending" /\ op[o].phase = "FAILED"
  <2>1. ~Line!InLine(o)
    BY <1>7 DEF Answered, Failing, Published, Line!InLine
  <2>2. Outcome' = [Outcome EXCEPT ![o] = "no"]
    BY <1>4, <1>7 DEF Outcome
  <2>3. Line!Answer(o)
    BY <1>1, <1>2, <1>5, <2>1, <2>2 DEF Line!Answer
  <2>. QED BY <2>3 DEF Line!LineNext
<1>8. CASE run[o].at = "ending" /\ op[o].phase = "RECOVERY_REQUIRED"
  <2>1. Outcome' = Outcome
    BY <1>1, <1>8, <1>4 DEF Outcome, Unended
  <2>. QED BY <1>1, <1>5, <2>1 DEF LineView
<1>. QED BY <1>1, <1>6, <1>7, <1>8 DEF Agrees

LEMMA Previewing ==
    ASSUME IInv, NEW o \in Op, Preview(o)
    PROVE  Line!Show(o)
<1>. USE DEF IInv
<1>1. op \in [Op -> Record] /\ Generation \in Nat
  BY Accepted DEF MirrorTypeOK
<1>2. /\ op[o].status = "NONE" /\ op'[o].status = "ACTIVE"
      /\ op'[o].gen = Len(accepted) /\ OnlyOp(o) /\ accepted' = accepted
  BY <1>1 DEF Preview, Record, OnlyOp, Generation
<1>3. Outcome' = Outcome
  BY <1>2 DEF Outcome, OnlyOp
<1>4. Shown[o] = {} /\ Shown' = [Shown EXCEPT ![o] = {Len(accepted)}]
  BY <1>2 DEF Shown, OnlyOp
<1>. QED BY <1>2, <1>3, <1>4 DEF Line!Show

LEMMA LineStep ==
    ASSUME IInv, [Next]_vars PROVE [Line!LineNext]_LineView
<1>. USE DEF IInv
<1>1. CASE UNCHANGED vars
  BY <1>1 DEF vars, Outcome, Shown, LineView
<1>2. ASSUME NEW o \in Op, Preview(o) PROVE Line!LineNext
  BY <1>2, Previewing DEF Line!LineNext
<1>3. ASSUME NEW o \in Op, Begin(o) PROVE UNCHANGED LineView
  <2>1. op \in [Op -> Record]
    BY DEF MirrorTypeOK
  <2>2. /\ op[o].status = "ACTIVE" /\ op'[o].status = "RUNNING"
        /\ op'[o].gen = op[o].gen /\ OnlyOp(o) /\ accepted' = accepted
    BY <1>3, <2>1 DEF Begin, Record, OnlyOp
  <2>3. Outcome' = Outcome
    BY <2>2 DEF Outcome, OnlyOp
  <2>. QED BY <2>2, <2>3, SameShown DEF OnlyOp, LineView
<1>4. ASSUME NEW o \in Op, Work(o) \/ Trouble(o)
      PROVE  [Line!LineNext]_LineView
  <2>1. CASE End(o)
    BY <2>1, Ending
  <2>2. CASE Swap(o)
    <3>1. CASE Accepts(o)
      BY <2>2, <3>1, Acceptance DEF Swap, Agrees, Holds
    <3>2. CASE UNCHANGED accepted
      BY <2>2, <3>2, SameOutcome, SameShown DEF Swap, LineView
    <3>. QED BY <2>2, <3>1, <3>2 DEF Swap
  <2>3. CASE Assess(o)
    <3>1. CASE ~AtBaseline(o) /\ ref = op[o].candidate /\ MaySwap(o) /\ Accepts(o)
      BY <2>3, <3>1, Acceptance DEF Assess, Agrees, MaySwap
    <3>2. CASE UNCHANGED accepted
      BY <2>3, <3>2, SameOutcome, SameShown DEF Assess, LineView
    <3>. QED BY <2>3, <3>1, <3>2 DEF Assess
  <2>. QED BY <1>4, <2>1, <2>2, <2>3, LineStutter DEF Work
<1>5. CASE Start \/ Ready \/ (\E sha \in Sha : Push(sha)) \/ Lapse \/ Crash
  <2>1. UNCHANGED <<accepted, op>>
    BY <1>5 DEF Start, Ready, Push, Lapse, Crash
  <2>. QED BY <2>1, SameOutcome, SameShown DEF LineView
<1>. QED BY <1>1, <1>2, <1>3, <1>4, <1>5 DEF Next

\* The mirror keeps the promises of MirrorLine: the line of accepted commits only
\* grows, an operation adds a commit only while the line is the one it was shown,
\* and the status under which it ends, executed or recovered, says truly whether it
\* did.
THEOREM Refines == Spec => ImplementsMirrorLine
<1>1. Init => Line!LineInit
  BY DEF Init, Line!LineInit, Outcome, Shown
<1>2. IInv /\ [Next]_vars => [Line!LineNext]_(Line!lineVars)
  BY LineStep DEF LineView, Line!lineVars
<1>. QED BY <1>1, <1>2, Invariant, PTL DEF Spec, ImplementsMirrorLine, Line!LineSpec

\* Each commit was made for the line it stands on, so that an operation has at most
\* one; and who ends as executed has his commit in the line, who ends as failed has
\* none there, and neither changes afterwards (journal.succeed, journal.fail, recover).
THEOREM AnswersAreTrue == Spec => []Line!LineIsTrue
<1>1. ASSUME IInv PROVE Line!LineIsTrue
  <2>. USE <1>1 DEF IInv
  <2>1. ASSUME NEW n \in DOMAIN accepted PROVE Shown[accepted[n].op] = {n - 1}
    <3>1. accepted[n].op \in Op /\ n \in Nat
      BY Accepted
    <3>2. op[accepted[n].op].gen + 1 = n /\ op[accepted[n].op].sealed
      BY DEF Tied
    <3>3. op[accepted[n].op].status # "NONE" /\ op[accepted[n].op].gen \in Nat
      BY <3>1, <3>2, OfRecord DEF Agrees
    <3>4. op[accepted[n].op].gen = n - 1
      BY <3>1, <3>2, <3>3
    <3>. QED
      <4>. DEFINE q == accepted[n].op
      <4>1. q \in Op /\ op[q].status # "NONE" /\ op[q].gen = n - 1
        BY <3>1, <3>3, <3>4
      <4>. HIDE DEF q
      <4>2. Shown[q] = {n - 1}
        BY <4>1 DEF Shown
      <4>. QED BY <4>2 DEF q
  <2>2. ASSUME NEW o \in Op
        PROVE  /\ Outcome[o] = "yes" => Line!InLine(o)
               /\ Outcome[o] = "no" => ~Line!InLine(o)
    <3>1. /\ Outcome[o] = "yes" => op[o].status = "SUCCEEDED"
          /\ Outcome[o] = "no" => op[o].status = "FAILED"
      BY DEF Outcome
    <3>. QED BY <3>1 DEF Answered, Published, Line!InLine
  <2>. QED BY <2>1, <2>2 DEF Line!LineIsTrue
<1>. QED BY <1>1, Invariant, PTL

-----------------------------------------------------------------------------
(* What a start does not recognise. *)

\* Others have built on what o published, or one of them has moved the ref and is to
\* be recovered itself.
Overtaken(o) ==
    \/ Generation > op[o].gen + 1
    \/ \E p \in Op \ {o} : /\ Unended(p) /\ op[p].sealed
                           /\ op[p].gen = op[o].gen + 1
                           /\ ref = op[p].candidate

\* An unended operation whose commit is in the line is recognised by the next start
\* (PublishedIsRecognised) as long as nobody publishes after it: a start misses it
\* only when another operation overtook it before it was recovered.
UnrecognisedIsOvertaken ==
    \A o \in Op : Unended(o) /\ Published(o) => Committed(o) \/ Overtaken(o)

LEMMA LastIsCommitted ==
    ASSUME IInv, NEW o \in Op, Published(o), Generation <= op[o].gen + 1, ref = StateSha
    PROVE  Committed(o)
<1>. USE DEF IInv
<1>1. PICK n \in DOMAIN accepted : accepted[n].op = o
  BY DEF Published
<1>2. n = op[o].gen + 1 /\ accepted[n].sha = op[o].candidate /\ op[o].gen \in Nat
  BY <1>1, OfRecord DEF Tied
<1>3. n = Generation /\ n >= 1
  BY <1>1, <1>2, Accepted
<1>4. StateSha = accepted[n].sha
  BY <1>3, Accepted DEF StateSha, Generation
<1>. QED BY <1>1, <1>2, <1>3, <1>4 DEF Committed

\* What the start does not recognise (recover, durablePublicationCommitted) was overtaken:
\* if every operation is recovered before the next one publishes, none is missed.
THEOREM MissedIsOvertaken == Spec => []UnrecognisedIsOvertaken
<1>1. ASSUME IInv, NEW o \in Op, Published(o), Generation <= op[o].gen + 1
      PROVE  Committed(o) \/ Overtaken(o)
  <2>. USE <1>1 DEF IInv
  <2>1. CASE ref = StateSha
    BY <2>1, LastIsCommitted
  <2>2. CASE ref # StateSha
    <3>1. PICK p \in Op : Halfway(p)
      BY <2>2 DEF Ahead
    <3>2. op[o].gen + 1 <= Generation
      BY PublishedFacts
    <3>3. op[p].gen = op[o].gen + 1 /\ op[o].gen \in Nat
      BY <3>1, <3>2, Accepted, OfRecord DEF Halfway
    <3>. QED BY <3>1, <3>3 DEF Halfway, Overtaken
  <2>. QED BY <2>1, <2>2
<1>2. ASSUME IInv PROVE UnrecognisedIsOvertaken
  <2>. SUFFICES ASSUME NEW o \in Op, Published(o) PROVE Committed(o) \/ Overtaken(o)
    BY DEF UnrecognisedIsOvertaken
  <2>1. Generation \in Nat /\ op[o].gen \in Nat
    BY <1>2, Accepted, OfRecord DEF IInv
  <2>2. Generation <= op[o].gen + 1 \/ Generation > op[o].gen + 1
    BY <2>1
  <2>. QED BY <1>1, <1>2, <2>2 DEF Overtaken
<1>. QED BY <1>2, Invariant, PTL

-----------------------------------------------------------------------------
(* Why a start is refused. *)

\* What a row says of the operations that were previewed for it.
Bound(o) ==
    op[o].status # "NONE" =>
        /\ op[o].gen <= Generation
        /\ Generation = op[o].gen => StateSha = op[o].expected

\* Where a handler of a start can be.
Recovering == {"assess", "undo", "accepted", "maintain", "closing", "finish", "fail",
               "ending", "release"}

\* A start handles what it found; it undoes only what did not publish, or has left
\* everything as it was; and what is known of an operation from its phase.
Settling(o) ==
    /\ ctl.mode = "down" => run[o].at = "idle"
    /\ ctl.mode = "starting" /\ run[o].at # "idle" =>
           /\ run[o].at \in Recovering /\ o \in ctl.todo
           /\ run[o].at = "undo" /\ Publishing(o) => AtBaseline(o)
    /\ op[o].sealed \/ op[o].phase \in {"NONE", "PREVIEWED", "FETCHING", "FAILED",
                                        "RECOVERY_REQUIRED"}
    /\ op[o].sealed => op[o].phase \notin {"NONE", "PREVIEWED", "FETCHING"}
    /\ Unended(o) /\ op[o].phase = "FAILED" =>
           /\ ~Published(o)
           /\ run[o].at \in {"idle", "undo", "fail", "ending", "release"}

\* What a handler does, for those that look on.
LEMMA StepOfOne ==
    ASSUME IInv, NEW o \in Op, Preview(o) \/ Begin(o) \/ Work(o) \/ Trouble(o)
    PROVE  /\ OnlyRun(o) /\ OnlyOp(o)
           /\ ctl'.mode = ctl.mode /\ ctl'.todo \subseteq ctl.todo
           /\ \A p \in Op \ {o} : p \in ctl.todo => p \in ctl'.todo
           /\ accepted' # accepted => /\ Accepts(o) /\ op' = op
                                      /\ Generation = op[o].gen
           /\ UNCHANGED <<ref, accepted>> \/ run[o].at \in Holding
<1>. USE DEF IInv
<1>1. OnlyRun(o)
  <2>1. run \in [Op -> [at : Place, bad : BOOLEAN]]
    BY DEF MirrorTypeOK
  <2>2. \A place : To(o, place) => OnlyRun(o)
    BY <2>1 DEF To, OnlyRun
  <2>3. \A badly : Fail(o, badly) => OnlyRun(o)
    BY <2>1 DEF Fail, OnlyRun
  <2>4. CASE OnError(o) /\ run[o].at \notin {"idle", "begun", "release"}
    BY <2>4, ErrorEffect, OfRecord
  <2>5. CASE UNCHANGED run
    BY <2>5 DEF OnlyRun
  <2>6. CASE Release(o)
    BY <2>1, <2>6 DEF Release, OnlyRun
  <2>7. CASE Trouble(o)
    BY <2>4, <2>7 DEF Trouble
  <2>8. CASE Work(o) /\ ~Release(o)
    BY <2>2, <2>3, <2>4, <2>8
       DEF Work, Acquire, CheckFresh, Fetch, Publish, Retain, Verify, Move, Swap,
           RecordAccepted, Maintain, RecordEnd, End, Undo, Adopt, Assess
  <2>. QED BY <2>2, <2>5, <2>6, <2>7, <2>8 DEF Preview, Begin
<1>2. OnlyOp(o)
  <2>1. op \in [Op -> Record]
    BY DEF MirrorTypeOK
  <2>2. \A phase : Enter(o, phase) => OnlyOp(o)
    BY <2>1 DEF Enter, OnlyOp
  <2>3. CASE UNCHANGED op
    BY <2>3 DEF OnlyOp
  <2>4. CASE Preview(o) \/ Begin(o) \/ End(o) \/ Publish(o)
    BY <2>1, <2>4 DEF Preview, Begin, End, Publish, OnlyOp
  <2>5. CASE (Work(o) \/ Trouble(o)) /\ ~(End(o) \/ Publish(o))
    BY <2>2, <2>3, <2>5
       DEF Work, Trouble, Acquire, CheckFresh, Fetch, Retain, Verify, Move, Swap,
           RecordAccepted, Maintain, RecordEnd, Release, Undo, Adopt, Assess
  <2>. QED BY <2>4, <2>5
<1>3. /\ ctl'.mode = ctl.mode /\ ctl'.todo \subseteq ctl.todo
      /\ \A p \in Op \ {o} : p \in ctl.todo => p \in ctl'.todo
  <2>1. CASE Release(o)
    BY <2>1 DEF Release, MirrorTypeOK
  <2>2. CASE ~Release(o)
    BY <2>2 DEF Preview, Begin, Work, Trouble, Acquire, CheckFresh, Fetch, Publish, Retain,
                Verify, Move, Swap, RecordAccepted, Maintain, RecordEnd, End, Undo, Adopt,
                Assess
  <2>. QED BY <2>1, <2>2
<1>4. accepted' # accepted => Accepts(o) /\ op' = op /\ Generation = op[o].gen
  BY DEF Preview, Begin, Work, Trouble, Acquire, CheckFresh, Fetch, Publish, Retain,
         Verify, Move, Swap, RecordAccepted, Maintain, RecordEnd, End, Release, Undo,
         Adopt, Assess, MaySwap
<1>5. UNCHANGED <<ref, accepted>> \/ run[o].at \in Holding
  BY DEF Preview, Begin, Work, Trouble, Acquire, CheckFresh, Fetch, Publish, Retain,
         Verify, Move, Swap, RecordAccepted, Maintain, RecordEnd, End, Release, Undo,
         Adopt, Assess, git, Holding
<1>. QED BY <1>1, <1>2, <1>3, <1>4, <1>5

\* A row that is written is longer, and says of nobody else that he is in the line.
LEMMA LongerLine ==
    ASSUME IInv, NEW o \in Op, Accepts(o)
    PROVE  /\ Generation' = Generation + 1
           /\ \A p \in Op \ {o} : Published(p)' <=> Published(p)
<1>1. /\ DOMAIN accepted = 1 .. Generation /\ DOMAIN accepted' = 1 .. Generation + 1
      /\ Generation' = Generation + 1
      /\ \A n \in DOMAIN accepted : accepted'[n] = accepted[n]
      /\ accepted'[Generation + 1] = [sha |-> op[o].candidate, op |-> o]
  BY Accepted DEF Accepts, Generation, MirrorTypeOK, IInv
<1>. QED BY <1>1, Accepted DEF Published, IInv

LEMMA OthersSettling ==
    ASSUME IInv, NEW o \in Op, Preview(o) \/ Begin(o) \/ Work(o) \/ Trouble(o),
           NEW p \in Op \ {o}, Settling(p)
    PROVE  Settling(p)'
<1>1. /\ run'[p] = run[p] /\ op'[p] = op[p] /\ ctl'.mode = ctl.mode
      /\ p \in ctl.todo => p \in ctl'.todo
      /\ UNCHANGED <<ref, accepted>> \/ run[p].at # "undo"
  <2>1. run[o].at \in Holding => run[p].at \notin Holding
    BY DEF IInv, Agrees
  <2>. QED BY <2>1, StepOfOne DEF OnlyRun, OnlyOp, Holding
<1>2. Published(p)' <=> Published(p)
  BY StepOfOne, LongerLine DEF Published
<1>3. run[p].at = "undo" => (AtBaseline(p)' <=> AtBaseline(p))
  BY <1>1 DEF AtBaseline, StateSha, Generation
<1>. QED BY <1>1, <1>2, <1>3 DEF Settling, Publishing, Unended

\* What a handler leaves of its own operation.
LEMMA OwnSettling ==
    ASSUME IInv, NEW o \in Op, Preview(o) \/ Begin(o) \/ Work(o) \/ Trouble(o), Settling(o)
    PROVE  Settling(o)'
<1>. USE DEF IInv
<1>0. /\ run \in RunType /\ run[o].at \in Place /\ run[o].bad \in BOOLEAN
      /\ op \in [Op -> Record] /\ op[o].phase \in Phase /\ op[o].sealed \in BOOLEAN
  BY OfRecord DEF MirrorTypeOK
<1>1. CASE Preview(o)
  <2>1. /\ op[o].status = "NONE" /\ op'[o].status = "ACTIVE"
        /\ op'[o].phase = op[o].phase /\ op'[o].sealed = op[o].sealed
        /\ run' = run /\ ctl' = ctl
    BY <1>0, <1>1 DEF Preview, Record
  <2>2. ctl.mode = "serving"
    BY <1>1 DEF Preview
  <2>. QED BY <2>1, <2>2 DEF Settling, Unended
<1>2. CASE Begin(o)
  <2>1. /\ op'[o].phase = "PREVIEWED" /\ ctl' = ctl /\ ctl.mode = "serving"
        /\ ~op'[o].sealed
    BY <1>0, <1>2 DEF Begin, Record, Agrees
  <2>. QED BY <2>1 DEF Settling
<1>3. CASE run[o].at \in {"begun", "held", "fetch", "publish", "retain", "verify", "move",
                          "swap"}
  <2>1. /\ ctl.mode \notin {"down", "starting"} /\ ctl'.mode = ctl.mode
        /\ Unended(o) /\ op[o].phase # "FAILED"
    BY <1>3, StepOfOne DEF Settling, Recovering, Agrees
  <2>2. \/ op'[o].phase = op[o].phase /\ op'[o].sealed = op[o].sealed
        \/ op'[o].phase = "FETCHING" /\ ~op'[o].sealed
        \/ op'[o].phase = "PUBLISHING" /\ op'[o].sealed
        \/ op'[o].phase = "RETENTION_VERIFIED" /\ op'[o].sealed
    <3>1. CASE CheckFresh(o) \/ Verify(o)
      BY <1>0, <3>1, EnterEffect DEF CheckFresh, Verify, Agrees, Phase
    <3>2. CASE Publish(o)
      BY <1>0, <3>2 DEF Publish, Record
    <3>3. CASE ~(CheckFresh(o) \/ Verify(o) \/ Publish(o))
      <4>1. op' = op
        BY <1>1, <1>2, <1>3, <3>3
           DEF Preview, Begin, Work, Trouble, Acquire, Fetch, Retain, Move, Swap,
               RecordAccepted, Maintain, RecordEnd, End, Release, Undo, Adopt, Assess,
               Agrees
      <4>. QED BY <4>1
    <3>. QED BY <3>1, <3>2, <3>3
  <2>. QED BY <2>1, <2>2 DEF Settling
<1>4. CASE Adopt(o)
  <2>1. /\ op' = op /\ accepted' = accepted /\ ctl' = ctl
        /\ ctl.mode = "starting" /\ o \in ctl.todo
        /\ run'[o].at = IF Publishing(o) THEN "assess" ELSE "undo"
    BY <1>0, <1>4, ToEffect DEF Adopt, Place
  <2>. QED BY <2>1 DEF Settling, Recovering, Publishing, Unended, Published
<1>5. CASE Assess(o)
  <2>1. /\ op' = op /\ ctl' = ctl /\ run[o].at = "assess" /\ Publishing(o)
        /\ op[o].phase # "FAILED"
    BY <1>5 DEF Assess, Agrees, Publishing
  <2>2. \/ run'[o].at \in {"accepted", "fail"}
        \/ run'[o].at = "undo" /\ AtBaseline(o)'
    BY <1>0, <1>5, ToEffect, FailEffect
       DEF Assess, Place, AtBaseline, git, StateSha, Generation
  <2>. QED BY <2>1, <2>2 DEF Settling, Recovering, Unended
<1>6. CASE run[o].at \in {"accepted", "maintain", "closing", "finish", "undo", "fail",
                          "ending"}
           /\ Work(o)
  <2>1. /\ ctl' = ctl /\ accepted' = accepted /\ ctl.mode # "down"
        /\ run'[o].at \in {"maintain", "closing", "finish", "fail", "ending", "release"}
        /\ run[o].at = "undo" => run'[o].at = "fail"
        /\ run[o].at = "fail" => run'[o].at = "ending"
        /\ run[o].at = "ending" => run'[o].at = "release"
    BY <1>0, <1>6, ToEffect, FailEffect, ErrorEffect
       DEF Work, Acquire, CheckFresh, Fetch, Publish, Retain, Verify, Move, Swap,
           RecordAccepted, Maintain, RecordEnd, End, Release, Undo, Adopt, Assess, Place,
           Settling
  <2>2. \/ /\ op'[o].phase = op[o].phase /\ op'[o].sealed = op[o].sealed
           /\ op'[o].status = op[o].status \/ run'[o].at = "release"
        \/ op'[o].phase \in {"ACCEPTED", "MAINTENANCE", "VERIFIED"} /\ op'[o].sealed
        \/ op'[o].phase = "RECOVERY_REQUIRED"
        \/ op'[o].phase = "FAILED" /\ Failing(o) /\ run'[o].at = "ending"
    <3>1. CASE RecordAccepted(o) \/ Maintain(o)
      BY <1>0, <3>1, EnterEffect DEF RecordAccepted, Maintain, Agrees, Phase
    <3>2. CASE RecordEnd(o)
      BY <1>0, <3>2, EnterEffect, ToEffect DEF RecordEnd, Agrees, Phase, Failing, Place
    <3>3. CASE End(o)
      BY <1>0, <3>3, ToEffect DEF End, Record, Place
    <3>4. CASE Undo(o)
      BY <3>4 DEF Undo
    <3>. QED BY <1>6, <3>1, <3>2, <3>3, <3>4
             DEF Work, Acquire, CheckFresh, Fetch, Publish, Retain, Verify, Move, Swap,
                 Release, Adopt, Assess
  <2>3. op[o].phase = "FAILED" /\ Unended(o) => run'[o].at \in {"fail", "ending", "release"}
    BY <2>1, <1>6 DEF Settling
  <2>4. run'[o].at \in Recovering \ {"undo"}
    BY <2>1 DEF Recovering
  <2>5. /\ ctl'.mode = "down" => run'[o].at = "idle"
        /\ ctl'.mode = "starting" => o \in ctl'.todo
    BY <1>6, <2>1 DEF Settling
  <2>6. op'[o].sealed \/ op'[o].phase \in {"NONE", "PREVIEWED", "FETCHING", "FAILED",
                                          "RECOVERY_REQUIRED"}
    BY <2>2 DEF Settling
  <2>9. op'[o].sealed => op'[o].phase \notin {"NONE", "PREVIEWED", "FETCHING"}
    BY <2>2 DEF Settling
  <2>7. Published(o)' <=> Published(o)
    BY <2>1 DEF Published
  <2>8. Unended(o)' /\ op'[o].phase = "FAILED" =>
            /\ ~Published(o)
            /\ run'[o].at \in {"idle", "undo", "fail", "ending", "release"}
    <3>1. CASE op'[o].phase = op[o].phase
      <4>1. CASE Unended(o)
        BY <2>3, <3>1, <4>1 DEF Settling
      <4>. QED BY <1>6, <4>1 DEF Agrees
    <3>2. CASE Failing(o) /\ run'[o].at = "ending"
      BY <3>2 DEF Answered
    <3>. QED BY <2>2, <3>1, <3>2
  <2>. QED BY <2>4, <2>5, <2>6, <2>7, <2>8, <2>9 DEF Settling
<1>7. CASE Release(o)
  <2>1. /\ op' = op /\ accepted' = accepted /\ ctl'.mode = ctl.mode
        /\ run'[o].at = "idle"
    BY <1>0, <1>7 DEF Release, RunType, MirrorTypeOK
  <2>. QED BY <2>1 DEF Settling, Unended, Published
<1>8. CASE Trouble(o) /\ run[o].at \in Recovering
  <2>1. /\ op' = op /\ accepted' = accepted /\ ctl' = ctl
        /\ run'[o].at \in {"fail", "release"}
    BY <1>0, <1>8, ErrorEffect DEF Trouble, Recovering
  <2>. QED BY <1>8, <2>1 DEF Settling, Recovering, Unended, Published
<1>9. Work(o) => \/ run[o].at \in {"begun", "held", "fetch", "publish", "retain",
                                   "verify", "move", "swap"}
                 \/ Adopt(o) \/ Assess(o) \/ Release(o)
                 \/ run[o].at \in {"accepted", "maintain", "closing", "finish", "undo",
                                   "fail", "ending"}
  BY DEF Work, Acquire, CheckFresh, Fetch, Publish, Retain, Verify, Move, Swap,
         RecordAccepted, Maintain, RecordEnd, End, Undo
<1>10. Trouble(o) => \/ run[o].at \in {"held", "fetch", "publish", "retain", "verify",
                                       "move", "swap"}
                     \/ run[o].at \in Recovering
  BY <1>0 DEF Trouble, Recovering, Place
<1>. QED BY <1>1, <1>2, <1>3, <1>4, <1>5, <1>6, <1>7, <1>8, <1>9, <1>10

LEMMA SettlingKept ==
    ASSUME IInv, \A o \in Op : Settling(o), [Next]_vars
    PROVE  \A o \in Op : Settling(o)'
<1>1. CASE UNCHANGED vars
  BY <1>1 DEF vars, git, Settling, Unended, Published, Publishing, AtBaseline, StateSha,
              Generation
<1>2. ASSUME NEW o \in Op, Preview(o) \/ Begin(o) \/ Work(o) \/ Trouble(o)
      PROVE  \A p \in Op : Settling(p)'
  BY <1>2, OwnSettling, OthersSettling
<1>3. CASE Start \/ Ready \/ (\E sha \in Sha : Push(sha)) \/ Lapse \/ Crash
  <2>1. UNCHANGED <<ref, accepted, op>>
    BY <1>3 DEF Start, Ready, Push, Lapse, Crash, git
  <2>2. ASSUME NEW o \in Op
        PROVE  /\ run'[o].at = run[o].at \/ run'[o].at = "idle"
               /\ ctl'.mode = "down" => run'[o].at = "idle"
               /\ ctl'.mode = "starting" /\ run'[o].at # "idle" =>
                      ctl.mode = "starting" /\ ctl' = ctl
    BY <1>3 DEF Start, Ready, Push, Lapse, Crash, Settling
  <2>. QED BY <2>1, <2>2 DEF Settling, Unended, Published, Publishing, AtBaseline,
                             StateSha, Generation
<1>. QED BY <1>1, <1>2, <1>3 DEF Next

LEMMA BoundKept ==
    ASSUME IInv, \A o \in Op : Bound(o), [Next]_vars
    PROVE  \A o \in Op : Bound(o)'
<1>. SUFFICES ASSUME NEW p \in Op PROVE Bound(p)'
  OBVIOUS
<1>0. /\ op \in [Op -> Record] /\ Generation \in Nat /\ op[p].gen \in Nat
  BY Accepted, OfRecord DEF MirrorTypeOK, IInv
<1>1. CASE UNCHANGED <<accepted, op>>
  BY <1>1 DEF Bound, StateSha, Generation
<1>2. ASSUME NEW o \in Op, Preview(o) \/ Begin(o) \/ Work(o) \/ Trouble(o)
      PROVE  Bound(p)'
  <2>1. CASE accepted' # accepted
    <3>1. op' = op /\ Generation' = Generation + 1
      BY <1>2, <2>1, StepOfOne, LongerLine
    <3>. QED BY <1>0, <3>1 DEF Bound
  <2>2. CASE accepted' = accepted /\ Preview(o) /\ p = o
    <3>1. op'[o].gen = Generation /\ op'[o].expected = StateSha
      BY <1>0, <2>2 DEF Preview, Record
    <3>. QED BY <1>0, <2>2, <3>1 DEF Bound, StateSha, Generation
  <2>3. CASE accepted' = accepted /\ ~(Preview(o) /\ p = o)
    <3>1. SameBinding(p) /\ (op'[p].status # "NONE" => op[p].status # "NONE")
      <4>1. CASE p # o
        BY <1>2, <4>1, StepOfOne DEF OnlyOp, SameBinding
      <4>2. CASE p = o /\ (Begin(o) \/ End(o) \/ Publish(o))
        <5>1. op[o].status # "NONE"
          BY <1>2, <4>2, OfRecord DEF Begin, End, Publish, Agrees, IInv
        <5>. QED BY <1>0, <4>2, <5>1 DEF Begin, End, Publish, Record, SameBinding
      <4>3. CASE p = o /\ \E phase \in Phase : Enter(o, phase)
        BY <1>0, <4>3, EnterEffect
      <4>4. CASE p = o /\ UNCHANGED op
        BY <4>4 DEF SameBinding
      <4>5. \/ Preview(o) \/ Begin(o) \/ End(o) \/ Publish(o) \/ UNCHANGED op
            \/ \E phase \in Phase : Enter(o, phase)
        BY <1>2 DEF Work, Trouble, Acquire, CheckFresh, Fetch, Retain, Verify, Move, Swap,
                    RecordAccepted, Maintain, RecordEnd, Release, Undo, Adopt, Assess, Phase
      <4>. QED BY <2>3, <4>1, <4>2, <4>3, <4>4, <4>5
    <3>. QED BY <2>3, <3>1 DEF Bound, SameBinding, StateSha, Generation
  <2>. QED BY <2>1, <2>2, <2>3
<1>3. CASE Start \/ Ready \/ (\E sha \in Sha : Push(sha)) \/ Lapse \/ Crash
  BY <1>1, <1>3 DEF Start, Ready, Push, Lapse, Crash
<1>4. CASE UNCHANGED vars
  BY <1>1, <1>4 DEF vars
<1>. QED BY <1>2, <1>3, <1>4 DEF Next

\* Another operation stands between the accepted ref and the row.
Contested(o) ==
    \E p \in Op \ {o} : Unended(p) /\ op[p].sealed /\ op[p].gen = Generation
                        /\ op[p].candidate = ref /\ StateSha # ref

\* What is left of an operation that has published nothing.
LEMMA Unpublished ==
    ASSUME IInv, NEW o \in Op, Unended(o), Bound(o), ~Published(o)
    PROVE  AtBaseline(o) \/ Stuck(o) \/ Contested(o) \/ Halfway(o)
<1>. USE DEF IInv
<1>1. /\ op[o].gen \in Nat /\ Generation \in Nat /\ op[o].gen <= Generation
      /\ Generation = op[o].gen => StateSha = op[o].expected
  BY OfRecord, Accepted DEF Bound, Unended
<1>2. CASE Generation > op[o].gen
  BY <1>2 DEF Stuck
<1>3. CASE Generation = op[o].gen /\ ref = StateSha
  BY <1>1, <1>3 DEF AtBaseline
<1>4. CASE Generation = op[o].gen /\ ref # StateSha
  <2>1. PICK p \in Op : Halfway(p)
    BY <1>4 DEF Ahead
  <2>. QED BY <1>4, <2>1 DEF Halfway, Contested
<1>. QED BY <1>1, <1>2, <1>3, <1>4

\* What is left of one that has.
LEMMA PublishedStands ==
    ASSUME IInv, NEW o \in Op, Unended(o), Published(o)
    PROVE  Committed(o) \/ Stuck(o) \/ Contested(o)
<1>. USE DEF IInv
<1>1. op[o].gen \in Nat /\ Generation \in Nat /\ op[o].gen + 1 <= Generation
  BY OfRecord, Accepted, PublishedFacts
<1>2. CASE Generation > op[o].gen + 1
  BY <1>2 DEF Stuck
<1>3. CASE Generation = op[o].gen + 1 /\ ref = StateSha
  BY <1>1, <1>3, LastIsCommitted
<1>4. CASE Generation = op[o].gen + 1 /\ ref # StateSha
  <2>1. PICK p \in Op : Halfway(p)
    BY <1>4 DEF Ahead
  <2>2. p # o
    BY <1>1, <1>4, <2>1 DEF Halfway
  <2>. QED BY <1>4, <2>1, <2>2 DEF Halfway, Contested
<1>. QED BY <1>1, <1>2, <1>3, <1>4

\* What may make an operation fail that a start recovers.
Cause(o) ==
    \/ faults' > faults
    \/ lease.lapsed
    \/ Stuck(o)
    \/ Contested(o)
    \/ op[o].phase = "VERIFIED"

FailsForCause ==
    \A o \in Op : ctl.mode = "starting" /\ ~run[o].bad /\ run'[o].bad => Cause(o)

LEMMA UndoFails ==
    ASSUME IInv, NEW o \in Op, Settling(o), Bound(o), Undo(o), run'[o].bad,
           ctl.mode = "starting"
    PROVE  Cause(o)
<1>. USE DEF IInv
<1>1. /\ run \in RunType /\ faults \in Nat /\ run[o].at = "undo" /\ Unended(o)
      /\ lease.holder = o
  BY DEF MirrorTypeOK, RunType, Undo, Agrees, Holding
<1>2. CASE MayUndo(o) /\ Kept(o) \in {None, op[o].candidate}
  <2>1. ~Fail(o, FALSE)
    BY <1>1, FailEffect
  <2>2. Fault
    BY <1>2, <2>1 DEF Undo
  <2>. QED BY <1>1, <2>2 DEF Fault, Cause
<1>3. CASE Kept(o) \notin {None, op[o].candidate}
  BY <1>1, <1>3 DEF Stuck, Cause
<1>4. CASE ~Current(o)
  BY <1>1, <1>4 DEF Current, Cause
<1>5. CASE ~AtBaseline(o)
  <2>1. ~Publishing(o)
    BY <1>1, <1>5 DEF Settling
  <2>2. op[o].phase \in Phase
    BY OfRecord
  <2>3. Published(o) => op[o].phase = "VERIFIED"
    BY <1>1, <2>1, <2>2, PublishedFacts DEF Settling, Publishing, Phase
  <2>4. ~Published(o) => Stuck(o) \/ Contested(o)
    BY <1>1, <1>5, <2>1, Unpublished DEF Halfway
  <2>. QED BY <2>3, <2>4 DEF Cause
<1>. QED BY <1>2, <1>3, <1>4, <1>5 DEF MayUndo

LEMMA AssessFails ==
    ASSUME IInv, NEW o \in Op, Settling(o), Bound(o), Assess(o), ~run[o].bad, run'[o].bad
    PROVE  Cause(o)
<1>. USE DEF IInv
<1>1. /\ run \in RunType /\ run[o].at = "assess" /\ Unended(o) /\ Publishing(o)
      /\ lease.holder = o
  BY DEF MirrorTypeOK, RunType, Assess, Agrees, Holding
<1>2. \/ ~op[o].sealed
      \/ ~(Committed(o) \/ AtBaseline(o) \/ (ref = op[o].candidate /\ MaySwap(o)))
  BY <1>1, ToEffect DEF Assess, Place
<1>3. CASE ~op[o].sealed
  <2>1. op[o].phase = "RECOVERY_REQUIRED"
    BY <1>1, <1>3 DEF Settling, Publishing
  <2>. QED BY <1>1, <1>3, <2>1 DEF Stuck, Cause
<1>4. CASE ~(Committed(o) \/ AtBaseline(o) \/ (ref = op[o].candidate /\ MaySwap(o)))
  <2>1. CASE Published(o)
    BY <1>1, <1>4, <2>1, PublishedStands DEF Cause
  <2>2. CASE ~Published(o)
    <3>1. Stuck(o) \/ Contested(o) \/ Halfway(o)
      BY <1>1, <1>4, <2>2, Unpublished
    <3>2. Halfway(o) => lease.lapsed
      BY <1>1, <1>4 DEF Halfway, MaySwap, Current
    <3>. QED BY <3>1, <3>2 DEF Cause
  <2>. QED BY <2>1, <2>2
<1>. QED BY <1>2, <1>3, <1>4

LEMMA MaintainFails ==
    ASSUME IInv, NEW o \in Op, Maintain(o), ~run[o].bad, run'[o].bad
    PROVE  Cause(o)
<1>. USE DEF IInv
<1>1. /\ run \in RunType /\ faults \in Nat /\ run[o].at = "maintain" /\ Committed(o)
      /\ lease.holder = o
  BY DEF MirrorTypeOK, RunType, Maintain, Agrees, Holding, Holds
<1>2. history[Generation] = op[o].candidate
  <2>1. Generation \in DOMAIN accepted /\ StateSha = accepted[Generation].sha
    BY <1>1, Accepted, OfRecord DEF Committed, StateSha, Generation
  <2>. QED BY <1>1, <2>1 DEF AcceptedIsRetained, Committed
<1>3. CASE Current(o)
  <2>1. ~To(o, "closing")
    BY <1>1, ToEffect DEF Place
  <2>. QED BY <1>1, <1>2, <1>3, <2>1 DEF Maintain, Committed, Fault, Cause
<1>4. CASE ~Current(o)
  BY <1>1, <1>4 DEF Current, Cause
<1>. QED BY <1>3, <1>4

\* A start that cannot settle an operation, and so refuses to serve (recover,
\* RECOVERY_BLOCKED), has met a fault or the end of its lease; or it has found the
\* operation stuck, another one between the accepted ref and the row, or one that
\* had done everything but record its success.  Nothing else that a death, anywhere,
\* can leave behind makes it refuse: this is what BackToService says of a start,
\* short of its being fair.
THEOREM StartsFailForCause == Spec => [][FailsForCause]_vars
<1>1. Init => \A o \in Op : Settling(o) /\ Bound(o)
  <2>. SUFFICES ASSUME Init, NEW o \in Op PROVE Settling(o) /\ Bound(o)
    OBVIOUS
  <2>1. /\ op[o].status = "NONE" /\ op[o].phase = "NONE" /\ ~op[o].sealed
        /\ ctl.mode = "serving"
    BY DEF Init
  <2>. QED BY <2>1 DEF Settling, Bound, Unended
<1>2. IInv /\ (\A o \in Op : Settling(o) /\ Bound(o)) /\ [Next]_vars
        => (\A o \in Op : Settling(o) /\ Bound(o))'
  BY SettlingKept, BoundKept
<1>3. ASSUME IInv, \A o \in Op : Settling(o) /\ Bound(o), [Next]_vars
      PROVE  [FailsForCause]_vars
  <2>. SUFFICES ASSUME NEW o \in Op, ctl.mode = "starting", ~run[o].bad, run'[o].bad, Next
                PROVE  Cause(o)
    BY <1>3 DEF FailsForCause
  <2>0. run \in RunType /\ faults \in Nat
    BY <1>3 DEF IInv, MirrorTypeOK, RunType
  <2>1. Work(o) \/ Trouble(o)
    <3>1. ASSUME NEW p \in Op, Preview(p) \/ Begin(p) \/ Work(p) \/ Trouble(p)
          PROVE  p = o
      BY <1>3, <3>1, StepOfOne DEF OnlyRun
    <3>2. run' # run /\ run' # [p \in Op |-> [at |-> "idle", bad |-> FALSE]]
      OBVIOUS
    <3>. QED BY <3>1, <3>2 DEF Next, Preview, Begin, Start, Ready, Push, Lapse, Crash
  <2>2. CASE Trouble(o)
    BY <2>0, <2>2 DEF Trouble, Fault, Cause
  <2>3. CASE Work(o)
    <3>1. run[o].at \in Recovering \cup {"idle"}
      BY <1>3 DEF Settling
    <3>2. Undo(o) \/ Assess(o) \/ Maintain(o)
      <4>1. \A place \in Place : ~To(o, place)
        BY <2>0, ToEffect
      <4>2. ~Release(o)
        BY <2>0 DEF Release, RunType
      <4>. QED BY <2>3, <3>1, <4>1, <4>2
               DEF Work, Acquire, CheckFresh, Fetch, Publish, Retain, Verify, Move, Swap,
                   RecordAccepted, RecordEnd, End, Adopt, Recovering, Place
    <3>. QED BY <1>3, <3>2, UndoFails, AssessFails, MaintainFails
  <2>. QED BY <2>1, <2>2, <2>3
<1>. QED BY <1>1, <1>2, <1>3, Invariant, PTL DEF Spec
=============================================================================
