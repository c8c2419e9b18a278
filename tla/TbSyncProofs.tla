------------------------------ MODULE TbSyncProofs ------------------------------
(***************************************************************************)
(* What holds of the synchronisation with Teambition for any number of     *)
(* gateways, payloads, takeovers, faults and deaths, proved of             *)
(* TbSync!Spec.                                                            *)
(*                                                                         *)
(* The argument.  A post that is on its way, or is about to be sent, is on *)
(* record as uncertain in the outbox of the current operation, is not on   *)
(* the task yet, and is the only one of its kind (Sound, Alone); so a      *)
(* write is begun only where the outbox says planned and nothing is there, *)
(* and an operation with such a post is neither completed nor replaced by  *)
(* that of another payload.  What a gateway takes for done was once read   *)
(* at Teambition (Knows, Outbox), and posts are not taken away.            *)
(***************************************************************************)
EXTENDS TbSync, TLAPS

Busy(g) == run[g].at \notin {"idle", "reserve", "dead"}

\* The posts of which p consists.
Parts(p) == {s \in Posts : s = "comment" \/ p \in Attached}

\* What a gateway believes of Teambition is so.
Knows(g) ==
    LET r == run[g]
    IN  /\ r.at \notin {"idle", "dead"} => r.want \in Payload
        /\ Busy(g) =>
            /\ \A s \in Parts(r.want) : r.res[s] = "ok" => posts[r.want][s] > 0
            /\ r.res["status"] = "ok" => r.want \in seen
            /\ r.res["attachment"] = "todo" => r.want \in Attached
        /\ Busy(g) /\ r.at # "settle" =>
            /\ r.step = "status" => \A s \in Posts : r.res[s] = "ok"
            /\ r.step \in Posts => r.step \in Parts(r.want)
        /\ r.at \in {"heard", "read"} /\ r.found = "yes" =>
            /\ r.step \in Posts => posts[r.want][r.step] > 0
            /\ r.step = "status" => r.want \in seen
        /\ /\ r.at = "heard" /\ r.found = "no" /\ r.step \in Posts
           /\ MayMutate(g) /\ op.box[r.step] = "planned"
           => posts[r.want][r.step] = 0

\* What the outbox says of Teambition is so.
Outbox ==
    /\ op # None =>
        /\ \A s \in Posts : op.box[s] = "completed" => posts[op.payload][s] > 0
        /\ op.box["status"] = "completed" => op.payload \in seen
        /\ \A s \in Step : op.box[s] = "skipped" <=> s \in Posts \ Parts(op.payload)
        /\ op.status = "completed" => ReadyToSettle(op)
    /\ phase = "settled" => op # None /\ op.status = "completed"

\* Requests that are on their way, or will be.
Begun == {g \in Gateway : run[g].at = "begun"}
Writes == transit \cup {Request(g) : g \in Begun}

Sound(w) ==
    w.step \in Posts =>
        /\ op # None
        /\ op.payload = w.payload
        /\ w.step \in Uncertain(op)
        /\ posts[w.payload][w.step] = 0
        /\ op.status = "reconciling" \/ op.owner = w.by

Alone ==
    /\ \A w1, w2 \in Writes :
           /\ w1.payload = w2.payload
           /\ w1.step \in Posts /\ w2.step \in Posts
           => w1.by = w2.by
    /\ \A g \in Begun : run[g].step \in Posts => Request(g) \notin transit

IInv ==
    /\ TbTypeOK
    /\ \A g \in Gateway : Knows(g)
    /\ Outbox
    /\ \A w \in Writes : Sound(w)
    /\ Alone
    /\ NothingPostedTwice
    /\ StatusFollowsPosts

USE TbAssumption
-----------------------------------------------------------------------------
(* What the operators on runs and operations return. *)

\* r may be continued as c.
Follows(r, c) ==
    /\ c \in RunType /\ c.want = r.want /\ c.fence = r.fence
    /\ c.at \in {"look", "settle"}
    /\ \A s \in Posts : c.res[s] = r.res[s]
    /\ c.res["status"] \in {r.res["status"], "unsettled"}
    /\ c.at = "look" =>
        /\ c.res[c.step] = "todo"
        /\ c.step = "status" => \A s \in Posts : r.res[s] = "ok"

LEMMA ContinueEffect ==
    ASSUME NEW r \in RunType PROVE Follows(r, Continue(r))
<1>. DEFINE todo == {s \in Step : r.res[s] = "todo"}
<1>1. CASE todo = {}
  <2>1. Continue(r) = [r EXCEPT !.at = "settle"]
    BY <1>1 DEF Continue
  <2>. QED BY <2>1 DEF Follows, RunType, Place, Step, Posts
<1>2. CASE todo = {"status"} /\ \E s \in Posts : r.res[s] = "unsettled"
  <2>1. todo # {}
    BY <1>2
  <2>. DEFINE res == [r.res EXCEPT !["status"] = "unsettled"]
  <2>2. Continue(r) = [r EXCEPT !.at = "settle", !.res = res]
    BY <1>2, <2>1 DEF Continue
  <2>3. /\ res \in [Step -> {"todo", "ok", "unsettled"}]
        /\ res["status"] = "unsettled" /\ \A s \in Posts : res[s] = r.res[s]
    BY DEF RunType, Step, Posts
  <2>. HIDE DEF res
  <2>. QED BY <2>2, <2>3 DEF Follows, RunType, Place
<1>3. CASE todo # {} /\ ~(todo = {"status"} /\ \E s \in Posts : r.res[s] = "unsettled")
  <2>1. Continue(r) = [r EXCEPT !.at = "look", !.step = First(todo)]
    BY <1>3 DEF Continue
  <2>2. First(todo) \in todo
    BY <1>3 DEF First, Step
  <2>3. ASSUME First(todo) = "status" PROVE \A s \in Posts : r.res[s] = "ok"
    <3>1. todo = {"status"}
      BY <2>2, <2>3 DEF First, Step
    <3>. QED BY <1>3, <3>1 DEF RunType, Step, Posts
  <2>. DEFINE s == First(todo)
  <2>4. /\ Continue(r) = [r EXCEPT !.at = "look", !.step = s]
        /\ s \in Step /\ r.res[s] = "todo"
        /\ s = "status" => \A t \in Posts : r.res[t] = "ok"
    BY <2>1, <2>2, <2>3
  <2>. HIDE DEF s
  <2>. QED BY <2>4 DEF Follows, RunType, Place, Step, Posts
<1>. QED BY <1>1, <1>2, <1>3

LEMMA DoneEffect ==
    ASSUME NEW r \in RunType, NEW result \in {"ok", "unsettled"}
    PROVE  Follows([r EXCEPT !.res[r.step] = result, !.refused = FALSE, !.found = "no"],
                   Done(r, result))
<1>1. [r EXCEPT !.res[r.step] = result, !.refused = FALSE, !.found = "no"] \in RunType
  BY DEF RunType
<1>. QED BY <1>1, ContinueEffect DEF Done

LEMMA StartEffect ==
    ASSUME NEW g, NEW o \in Operation
    PROVE  /\ Start(g, o) \in RunType /\ Start(g, o).want = o.payload
           /\ Start(g, o).at \in {"look", "settle"}
           /\ \A s \in Posts : Start(g, o).res[s] = IF Settled(o, s) THEN "ok" ELSE "todo"
           /\ Start(g, o).res["status"] = "ok" => Settled(o, "status")
           /\ Start(g, o).at = "look" =>
                /\ Start(g, o).res[Start(g, o).step] = "todo"
                /\ Start(g, o).step = "status" => \A s \in Posts : Settled(o, s)
<1>. DEFINE r == [Idle EXCEPT !.want = o.payload, !.fence = o.fence,
                     !.res = [s \in Step |-> IF Settled(o, s) THEN "ok" ELSE "todo"]]
<1>1. /\ r \in RunType /\ r.want = o.payload
      /\ \A s \in Step : r.res[s] = IF Settled(o, s) THEN "ok" ELSE "todo"
  BY DEF Idle, RunType, Operation, Place, Step
<1>2. Follows(r, Start(g, o))
  BY <1>1, ContinueEffect DEF Start
<1>. HIDE DEF r
<1>. QED BY <1>1, <1>2 DEF Follows, Step, Posts

LEMMA PutEffect ==
    ASSUME NEW o \in Operation, NEW s \in Step, NEW state \in BoxState
    PROVE  LET n == Put(o, s, state)
           IN  /\ n \in Operation
               /\ n.payload = o.payload /\ n.owner = o.owner /\ n.fence = o.fence
               /\ n.box[s] = state /\ \A t \in Step \ {s} : n.box[t] = o.box[t]
               /\ n.status # "completed"
               /\ o.status = "reconciling" /\ Uncertain(n) # {}
                    => n.status = "reconciling"
<1>. DEFINE m == [o EXCEPT !.box[s] = state]
<1>1. /\ m \in Operation
      /\ m.payload = o.payload /\ m.owner = o.owner /\ m.fence = o.fence
      /\ m.box[s] = state /\ \A t \in Step \ {s} : m.box[t] = o.box[t]
      /\ m.status = o.status
  BY DEF Operation
<1>2. Put(o, s, state) = [m EXCEPT !.status = ActiveStatus(m)]
  BY DEF Put
<1>. HIDE DEF m
<1>3. ActiveStatus(m) \in {"owned", "ambiguous", "reconciling"}
  BY DEF ActiveStatus
<1>4. [m EXCEPT !.status = ActiveStatus(m)].box = m.box
  BY <1>1 DEF Operation
<1>5. Uncertain([m EXCEPT !.status = ActiveStatus(m)]) = Uncertain(m)
  BY <1>4 DEF Uncertain
<1>. QED BY <1>1, <1>2, <1>3, <1>5 DEF Operation, ActiveStatus

-----------------------------------------------------------------------------
(* What a step changes for whom. *)

OnlyRun(g) == \A h \in Gateway \ {g} : run'[h] = run[h]

\* g writes the operation, if anybody does.
OpOf(g) == op' = op \/ (op' # None /\ op'.owner = g)

LEMMA TypeFacts ==
    ASSUME TbTypeOK
    PROVE  /\ op # None => op \in Operation
           /\ \A g \in Gateway : run[g] \in RunType
           /\ run \in [Gateway -> RunType]
           /\ \A p \in Payload : \A s \in Posts : posts[p][s] \in Nat
BY DEF TbTypeOK

\* The steps of a gateway leave the knowledge of the others true.
LEMMA OthersKnow ==
    ASSUME IInv, NEW g \in Gateway, OnlyRun(g), OpOf(g), posts' = posts, seen \subseteq seen'
    PROVE  \A h \in Gateway \ {g} : Knows(h)'
<1>. SUFFICES ASSUME NEW h \in Gateway \ {g} PROVE Knows(h)'
  OBVIOUS
<1>1. run'[h] = run[h] /\ Knows(h)
  BY DEF OnlyRun, IInv
<1>2. MayMutate(h)' => MayMutate(h) /\ op' = op
  BY <1>1 DEF OpOf, MayMutate
<1>. QED BY <1>1, <1>2 DEF Knows, Busy, Parts

\* What is on its way stays sound if the operation stays, or keeps what it says of
\* posts of which nobody knows more.
LEMMA StillSound ==
    ASSUME IInv, posts' = posts,
           op # None =>
               /\ op' # None /\ op'.payload = op.payload
               /\ \A s \in Posts : s \in Uncertain(op) /\ posts[op.payload][s] = 0
                                     => s \in Uncertain(op')
               /\ op.status = "reconciling" /\ Uncertain(op') # {}
                    => op'.status = "reconciling"
               /\ \/ op'.owner = op.owner
                  \/ Uncertain(op) = {}
                  \/ op'.status = "reconciling"
    PROVE  \A w \in Writes : Sound(w)'
<1>. SUFFICES ASSUME NEW w \in Writes, w.step \in Posts PROVE Sound(w)'
  BY DEF Sound
<1>1. Sound(w)
  BY DEF IInv
<1>2. w.step \in Uncertain(op')
  BY <1>1 DEF Sound
<1>. QED BY <1>1, <1>2 DEF Sound

\* No new write.
LEMMA NoNewWrite ==
    ASSUME IInv, transit' \subseteq transit, \A w \in Writes : Sound(w)',
           \A g \in Gateway : run'[g].at = "begun" => run'[g] = run[g]
    PROVE  (\A w \in Writes' : Sound(w)') /\ Alone'
<1>1. /\ Begun' \subseteq Begun
      /\ \A g \in Begun' : run'[g] = run[g] /\ Request(g)' = Request(g)
  BY DEF Begun, Request
<1>2. Writes' \subseteq Writes
  BY <1>1 DEF Writes
<1>3. Alone'
  BY <1>1, <1>2 DEF IInv, Alone
<1>. QED BY <1>2, <1>3

\* A step of g that neither begins a write nor changes what is at Teambition.
LEMMA LocalStep ==
    ASSUME IInv, NEW g \in Gateway, OnlyRun(g), OpOf(g), TbTypeOK',
           posts' = posts, transit' = transit, seen \subseteq seen',
           run'[g].at # "begun" \/ run'[g] = run[g],
           Knows(g)', Outbox', \A w \in Writes : Sound(w)'
    PROVE  IInv'
<1>1. \A h \in Gateway : run'[h].at = "begun" => run'[h] = run[h]
  BY DEF OnlyRun
<1>2. (\A w \in Writes' : Sound(w)') /\ Alone'
  BY <1>1, NoNewWrite
<1>3. \A h \in Gateway : Knows(h)'
  BY OthersKnow
<1>4. NothingPostedTwice' /\ StatusFollowsPosts'
  BY DEF IInv, NothingPostedTwice, StatusFollowsPosts
<1>. QED BY <1>2, <1>3, <1>4 DEF IInv

\* The outbox is unchanged.
LEMMA SameOutbox ==
    ASSUME IInv, op' = op, posts' = posts, seen \subseteq seen',
           phase' = "settled" => phase = "settled"
    PROVE  Outbox' /\ \A w \in Writes : Sound(w)'
<1>1. Outbox'
  BY DEF IInv, Outbox
<1>2. \A w \in Writes : Sound(w)'
  BY StillSound
<1>. QED BY <1>1, <1>2

-----------------------------------------------------------------------------
(* Reservation. *)

LEMMA WantStep ==
    ASSUME IInv, NEW g \in Gateway, NEW p \in Payload, Want(g, p) PROVE IInv'
<1>1. run \in [Gateway -> RunType] /\ run[g] \in RunType
  BY TypeFacts DEF IInv
<1>2. /\ run' \in [Gateway -> RunType] /\ OnlyRun(g)
      /\ run'[g].at = "reserve" /\ run'[g].want = p
  <2>1. [run[g] EXCEPT !.at = "reserve", !.want = p] \in RunType
    BY <1>1 DEF RunType, Place
  <2>2. run' = [run EXCEPT ![g] = [run[g] EXCEPT !.at = "reserve", !.want = p]]
    BY DEF Want
  <2>. QED BY <1>1, <2>1, <2>2 DEF OnlyRun, RunType
<1>3. TbTypeOK'
  BY <1>2 DEF Want, story, remote, IInv, TbTypeOK
<1>4. Knows(g)'
  BY <1>2 DEF Knows, Busy
<1>5. Outbox' /\ \A w \in Writes : Sound(w)'
  BY SameOutbox DEF Want, story, remote
<1>. QED BY <1>2, <1>3, <1>4, <1>5, LocalStep DEF Want, story, remote, OpOf

\* A run that starts believes what the outbox says.
LEMMA StartKnows ==
    ASSUME NEW g \in Gateway, op' \in Operation, Outbox', run'[g] = Start(g, op')
    PROVE  Knows(g)'
<1>. DEFINE r == Start(g, op')
<1>1. /\ r \in RunType /\ r.want = op'.payload /\ r.at \in {"look", "settle"}
      /\ \A s \in Posts : r.res[s] = IF Settled(op', s) THEN "ok" ELSE "todo"
      /\ r.res["status"] = "ok" => Settled(op', "status")
      /\ r.at = "look" =>
            /\ r.res[r.step] = "todo"
            /\ r.step = "status" => \A s \in Posts : Settled(op', s)
  BY StartEffect
<1>2. run'[g] = r
  OBVIOUS
<1>. HIDE DEF r
<1>3. op' # None /\ op'.payload \in Payload
  BY TbAssumption DEF Operation
<1>4. \A s \in Posts : op'.box[s] = "skipped" <=> s \notin Parts(op'.payload)
  BY <1>3 DEF Outbox, Posts, Step
<1>5. op'.box["status"] # "skipped"
  BY <1>3 DEF Outbox, Posts, Step
<1>6. \A s \in Parts(r.want) : r.res[s] = "ok" => posts'[r.want][s] > 0
  BY <1>1, <1>3, <1>4 DEF Outbox, Settled, Parts
<1>7. r.res["status"] = "ok" => r.want \in seen'
  BY <1>1, <1>3, <1>5 DEF Outbox, Settled
<1>8. \A s \in Posts : r.res[s] = "todo" => s \in Parts(r.want)
  BY <1>1, <1>4 DEF Settled
<1>. QED BY <1>1, <1>2, <1>3, <1>6, <1>7, <1>8 DEF Knows, Busy, Parts, Posts

LEMMA ResumeStep ==
    ASSUME IInv, NEW g \in Gateway, Reserve(g), Resume(g, run[g].want) PROVE IInv'
<1>1. run \in [Gateway -> RunType] /\ op \in Operation
  BY TypeFacts DEF IInv, Resume
<1>2. /\ run'[g] = Start(g, op) /\ run'[g] \in RunType /\ run'[g].at # "begun"
      /\ run' \in [Gateway -> RunType] /\ OnlyRun(g)
  BY <1>1, StartEffect DEF Resume, OnlyRun
<1>3. TbTypeOK'
  BY <1>2 DEF Reserve, Resume, story, remote, IInv, TbTypeOK
<1>4. Outbox' /\ \A w \in Writes : Sound(w)'
  BY SameOutbox DEF Reserve, Resume, story, remote
<1>5. Knows(g)'
  BY <1>1, <1>2, <1>4, StartKnows DEF Resume, story
<1>. QED BY <1>2, <1>3, <1>4, <1>5, LocalStep DEF Reserve, Resume, story, remote, OpOf

LEMMA TakeOverStep ==
    ASSUME IInv, NEW g \in Gateway, Reserve(g), TakeOver(g, run[g].want) PROVE IInv'
<1>1. run \in [Gateway -> RunType] /\ op \in Operation /\ op.status # "completed"
  BY TypeFacts DEF IInv, TakeOver
<1>2. /\ op' \in Operation /\ op'.payload = op.payload /\ op'.box = op.box
      /\ op'.owner = g /\ op'.status # "completed"
      /\ op'.status = "reconciling" \/ Uncertain(op) = {}
  <2>. DEFINE st == IF Uncertain(op) = {} THEN "owned" ELSE "reconciling"
              f == op.fence + 1
  <2>1. op' = [op EXCEPT !.owner = g, !.fence = f, !.status = st]
    BY DEF TakeOver, Own
  <2>2. /\ st \in {"owned", "reconciling"} /\ (st = "reconciling" \/ Uncertain(op) = {})
        /\ f \in Nat
    BY <1>1 DEF Operation
  <2>. HIDE DEF st, f
  <2>. QED BY <1>1, <2>1, <2>2 DEF Operation
<1>3. Uncertain(op') = Uncertain(op) /\ op # None /\ op' # None
  BY <1>1, <1>2, TbAssumption DEF Uncertain
<1>4. /\ run'[g] = Start(g, op') /\ run'[g] \in RunType /\ run'[g].at # "begun"
      /\ run' \in [Gateway -> RunType] /\ OnlyRun(g)
  BY <1>1, <1>2, StartEffect DEF TakeOver, Own, OnlyRun
<1>5. TbTypeOK'
  BY <1>2, <1>4 DEF Reserve, TakeOver, Own, remote, IInv, TbTypeOK
<1>6. Outbox'
  BY <1>2, <1>3 DEF Reserve, TakeOver, Own, remote, IInv, Outbox
<1>7. \A w \in Writes : Sound(w)'
  BY <1>2, <1>3, StillSound DEF Reserve, remote
<1>8. Knows(g)'
  BY <1>2, <1>4, <1>6, StartKnows
<1>. QED BY <1>2, <1>3, <1>4, <1>5, <1>6, <1>7, <1>8, LocalStep
         DEF Reserve, TakeOver, remote, OpOf

LEMMA FreshStep ==
    ASSUME IInv, NEW g \in Gateway, Reserve(g), ~TurnedAway(g, run[g].want),
           Fresh(g, run[g].want)
    PROVE  IInv'
<1>. DEFINE p == run[g].want
            fence == IF op = None THEN 1 ELSE op.fence + 1
            box == [s \in Step |-> IF s = "attachment" /\ p \notin Attached
                                   THEN "skipped" ELSE "planned"]
<1>1. run \in [Gateway -> RunType] /\ p \in Payload /\ fence \in Nat
  BY TypeFacts DEF IInv, Reserve, Knows, Operation
<1>2. /\ op' = [payload |-> p, owner |-> g, fence |-> fence, status |-> "owned",
                box |-> box]
      /\ run' = [run EXCEPT ![g] = Start(g, op')]
      /\ phase' = "sync_pending" /\ pending' = p
  BY DEF Fresh, Own
<1>3. \A s \in Step : box[s] = IF s = "attachment" /\ p \notin Attached
                               THEN "skipped" ELSE "planned"
  OBVIOUS
<1>4. box \in [Step -> BoxState]
  BY DEF BoxState
<1>. HIDE DEF p, fence, box
<1>5. /\ op' \in Operation /\ op' # None /\ op'.payload = p /\ op'.owner = g
      /\ op'.box = box /\ op'.status = "owned"
  BY <1>1, <1>2, <1>4, TbAssumption DEF Operation
<1>6. /\ run'[g] = Start(g, op') /\ run'[g] \in RunType /\ run'[g].at # "begun"
      /\ run' \in [Gateway -> RunType] /\ OnlyRun(g)
  BY <1>1, <1>2, <1>5, StartEffect DEF OnlyRun
<1>7. TbTypeOK'
  BY <1>1, <1>2, <1>5, <1>6 DEF Reserve, remote, IInv, TbTypeOK
<1>8. Outbox'
  BY <1>2, <1>3, <1>5 DEF Outbox, Posts, Step, Parts
<1>9. op = None \/ op.status = "completed"
  BY DEF TurnedAway, Fresh, p
<1>10. \A w \in Writes : w.step \notin Posts
  BY <1>9 DEF IInv, Sound, Outbox, ReadyToSettle, Settled, Uncertain
<1>11. \A w \in Writes : Sound(w)'
  BY <1>10 DEF Sound
<1>12. Knows(g)'
  BY <1>5, <1>6, <1>8, StartKnows
<1>. QED BY <1>5, <1>6, <1>7, <1>8, <1>11, <1>12, LocalStep DEF Reserve, remote, OpOf

LEMMA ReserveStep ==
    ASSUME IInv, NEW g \in Gateway, Reserve(g) PROVE IInv'
<1>1. CASE run' = [run EXCEPT ![g] = Idle] /\ UNCHANGED story
  <2>1. run \in [Gateway -> RunType] /\ Idle \in RunType
    BY TypeFacts DEF IInv, Idle, RunType, Place, Step
  <2>2. run' \in [Gateway -> RunType] /\ OnlyRun(g) /\ run'[g].at = "idle"
    BY <1>1, <2>1 DEF OnlyRun, Idle
  <2>3. TbTypeOK'
    BY <1>1, <2>2 DEF Reserve, story, remote, IInv, TbTypeOK
  <2>4. Knows(g)'
    BY <2>2 DEF Knows, Busy
  <2>5. Outbox' /\ \A w \in Writes : Sound(w)'
    BY <1>1, SameOutbox DEF Reserve, story, remote
  <2>. QED BY <1>1, <2>2, <2>3, <2>4, <2>5, LocalStep DEF Reserve, story, remote, OpOf
<1>2. CASE ~TurnedAway(g, run[g].want) /\ \/ Resume(g, run[g].want)
                                           \/ TakeOver(g, run[g].want)
                                           \/ Fresh(g, run[g].want)
  BY <1>2, ResumeStep, TakeOverStep, FreshStep
<1>. QED BY <1>1, <1>2 DEF Reserve

-----------------------------------------------------------------------------
(* The steps of the saga. *)

\* A run that goes on after a step believes what it has read.
LEMMA GoesOn ==
    ASSUME IInv, NEW g \in Gateway, NEW result \in {"ok", "unsettled"},
           Busy(g), run[g].at # "settle", run' = [run EXCEPT ![g] = Done(run[g], result)],
           posts' = posts, seen \subseteq seen',
           result = "ok" => /\ run[g].step \in Posts => posts[run[g].want][run[g].step] > 0
                            /\ run[g].step = "status" => run[g].want \in seen'
    PROVE  /\ run' \in [Gateway -> RunType] /\ OnlyRun(g)
           /\ run'[g].at \in {"look", "settle"} /\ Knows(g)'
<1>. DEFINE r == run[g]
            m == [r EXCEPT !.res[r.step] = result, !.refused = FALSE, !.found = "no"]
            c == Done(r, result)
<1>1. r \in RunType /\ run \in [Gateway -> RunType]
  BY TypeFacts DEF IInv
<1>2. Follows(m, c)
  BY <1>1, DoneEffect
<1>3. /\ m.want = r.want /\ m.res[r.step] = result
      /\ \A s \in Step \ {r.step} : m.res[s] = r.res[s]
  BY <1>1 DEF RunType
<1>4. run' \in [Gateway -> RunType] /\ OnlyRun(g) /\ run'[g] = c
  BY <1>1, <1>2 DEF Follows, OnlyRun
<1>5. /\ r.want \in Payload
      /\ \A s \in Parts(r.want) : r.res[s] = "ok" => posts[r.want][s] > 0
      /\ r.res["status"] = "ok" => r.want \in seen
      /\ r.res["attachment"] = "todo" => r.want \in Attached
  BY DEF IInv, Knows, Busy
<1>. HIDE DEF r, m, c
<1>6. c.want \in Payload /\ c.want = r.want /\ c.at \in {"look", "settle"}
  BY <1>2, <1>3, <1>5 DEF Follows
<1>7. \A s \in Parts(c.want) : c.res[s] = "ok" => posts'[c.want][s] > 0
  BY <1>2, <1>3, <1>5, <1>6 DEF Follows, Parts, Posts, Step, r
<1>8. c.res["status"] = "ok" => c.want \in seen'
  BY <1>2, <1>3, <1>5, <1>6 DEF Follows, Step, r
<1>9. c.res["attachment"] = "todo" => c.want \in Attached
  BY <1>2, <1>3, <1>5, <1>6 DEF Follows, Posts, Step
<1>10. c.at = "look" => /\ c.step = "status" => \A s \in Posts : c.res[s] = "ok"
                        /\ c.step \in Posts => c.step \in Parts(c.want)
  BY <1>2, <1>9 DEF Follows, Parts, Posts
<1>. QED BY <1>4, <1>6, <1>7, <1>8, <1>9, <1>10 DEF Knows, Busy

\* The outbox says of step s what is known of it.
LEMMA PutKeeps ==
    ASSUME IInv, NEW g \in Gateway, MayMutate(g), NEW s \in Step, NEW state \in BoxState,
           op' = Put(op, s, state), UNCHANGED <<posts, phase>>, seen \subseteq seen',
           s \in Parts(op.payload) \cup {"status"},
           state \in {"write_acknowledged", "ambiguous"}
             \/ (state = "completed" /\ IF s = "status" THEN op.payload \in seen'
                                        ELSE posts[op.payload][s] > 0)
    PROVE  /\ op' \in Operation /\ OpOf(g)
           /\ Outbox' /\ \A w \in Writes : Sound(w)'
<1>1. op \in Operation /\ op # None /\ op.owner = g /\ op.status # "completed"
  BY TypeFacts DEF IInv, MayMutate
<1>2. /\ op' \in Operation /\ op'.payload = op.payload /\ op'.owner = op.owner
      /\ op'.box[s] = state /\ \A t \in Step \ {s} : op'.box[t] = op.box[t]
      /\ op'.status # "completed"
      /\ op.status = "reconciling" /\ Uncertain(op') # {} => op'.status = "reconciling"
  BY <1>1, PutEffect
<1>3. op' # None
  BY <1>2, TbAssumption
<1>4. phase' # "settled"
  BY <1>1 DEF IInv, Outbox
<1>5. \A t \in Step : op'.box[t] = "skipped" <=> t \in Posts \ Parts(op.payload)
  BY <1>1, <1>2 DEF IInv, Outbox, Posts, Step
<1>6. Outbox'
  BY <1>1, <1>2, <1>3, <1>4, <1>5 DEF IInv, Outbox, Posts, Step, Parts
<1>7. \A t \in Posts : t \in Uncertain(op) /\ posts[op.payload][t] = 0 => t \in Uncertain(op')
  BY <1>2 DEF Uncertain, Posts, Step
<1>8. \A w \in Writes : Sound(w)'
  BY <1>2, <1>3, <1>7, StillSound
<1>. QED BY <1>1, <1>2, <1>3, <1>6, <1>8 DEF OpOf

LEMMA LookStep ==
    ASSUME IInv, NEW g \in Gateway, Look(g) PROVE IInv'
<1>. DEFINE reading == Reading(run[g].want, run[g].step)
            place == IF run[g].at = "look" THEN "heard" ELSE "read"
<1>1. /\ run \in [Gateway -> RunType] /\ run[g] \in RunType
      /\ run[g].at \in {"look", "confirm"} /\ run[g].want \in Payload /\ Knows(g)
  BY TypeFacts DEF IInv, Look, Knows
<1>2. reading \in {"yes", "no", "bad"} /\ place \in {"heard", "read"}
  BY DEF Reading
<1>3. run' = [run EXCEPT ![g] = [run[g] EXCEPT !.at = place, !.found = reading]]
  BY DEF Look
<1>4. /\ run[g].step = "status" /\ reading = "yes" => run[g].want \in seen'
      /\ run[g].step \in Posts /\ reading = "yes" => posts[run[g].want][run[g].step] > 0
      /\ run[g].step \in Posts /\ reading = "no" => posts[run[g].want][run[g].step] = 0
      /\ seen \subseteq seen' /\ seen' \subseteq Payload
  BY <1>1, TypeFacts DEF Look, Reading, Posts, IInv, TbTypeOK
<1>. HIDE DEF reading, place
<1>5. /\ run' \in [Gateway -> RunType] /\ OnlyRun(g)
      /\ run'[g].at = place /\ run'[g].found = reading
      /\ run'[g].want = run[g].want /\ run'[g].step = run[g].step
      /\ run'[g].res = run[g].res
  <2>1. [run[g] EXCEPT !.at = place, !.found = reading] \in RunType
    BY <1>1, <1>2 DEF RunType, Place
  <2>. QED BY <1>1, <1>3, <2>1 DEF OnlyRun, RunType
<1>6. TbTypeOK'
  BY <1>4, <1>5 DEF Look, story, remote, IInv, TbTypeOK
<1>7. Knows(g)'
  BY <1>1, <1>2, <1>4, <1>5 DEF Look, remote, Knows, Busy
<1>8. Outbox' /\ \A w \in Writes : Sound(w)'
  BY <1>4, SameOutbox DEF Look, story, remote
<1>. QED BY <1>2, <1>4, <1>5, <1>6, <1>7, <1>8, LocalStep DEF Look, story, remote, OpOf

\* A step of the saga is given up without an effect.
LEMMA GivenUp ==
    ASSUME IInv, NEW g \in Gateway, Busy(g), run[g].at # "settle",
           run' = [run EXCEPT ![g] = Done(run[g], "unsettled")],
           UNCHANGED <<story, remote, seen>>, faults' \in Nat
    PROVE  IInv'
<1>1. /\ run' \in [Gateway -> RunType] /\ OnlyRun(g)
      /\ run'[g].at \in {"look", "settle"} /\ Knows(g)'
  BY GoesOn DEF remote
<1>2. TbTypeOK'
  BY <1>1 DEF story, remote, IInv, TbTypeOK
<1>3. Outbox' /\ \A w \in Writes : Sound(w)'
  BY SameOutbox DEF story, remote
<1>. QED BY <1>1, <1>2, <1>3, LocalStep DEF story, remote, OpOf

LEMMA LookFailsStep ==
    ASSUME IInv, NEW g \in Gateway, LookFails(g) PROVE IInv'
<1>1. faults' \in Nat
  BY DEF LookFails, Fault, IInv, TbTypeOK
<1>. QED BY <1>1, GivenUp DEF LookFails, Busy

LEMMA UnconfirmedStep ==
    ASSUME IInv, NEW g \in Gateway, Unconfirmed(g) PROVE IInv'
<1>1. faults' \in Nat
  BY DEF Unconfirmed, IInv, TbTypeOK
<1>. QED BY <1>1, GivenUp DEF Unconfirmed, Busy

LEMMA ConfirmStep ==
    ASSUME IInv, NEW g \in Gateway, Confirm(g) PROVE IInv'
<1>1. /\ Busy(g) /\ run[g].at \in {"heard", "read"} /\ run[g].found = "yes" /\ Knows(g)
      /\ run[g] \in RunType
  BY TypeFacts DEF Confirm, Busy, IInv
<1>2. /\ run[g].step \in Posts => posts[run[g].want][run[g].step] > 0
      /\ run[g].step = "status" => run[g].want \in seen
      /\ run[g].step \in Parts(run[g].want) \cup {"status"}
  BY <1>1 DEF Knows, RunType, Step, Posts
<1>3. CASE ~MayMutate(g)
  <2>1. faults' \in Nat
    BY DEF Confirm, IInv, TbTypeOK
  <2>. QED BY <1>1, <1>3, <2>1, GivenUp DEF Confirm, story
<1>4. CASE MayMutate(g)
  <2>. DEFINE result == IF MayMutate(g) /\ (run[g].refused => run[g].step = "comment")
                        THEN "ok" ELSE "unsettled"
  <2>1. run' = [run EXCEPT ![g] = Done(run[g], result)] /\ result \in {"ok", "unsettled"}
    BY DEF Confirm
  <2>. HIDE DEF result
  <2>2. /\ run' \in [Gateway -> RunType] /\ OnlyRun(g)
        /\ run'[g].at \in {"look", "settle"} /\ Knows(g)'
    BY <1>1, <1>2, <2>1, GoesOn DEF Confirm, remote
  <2>3. op' = Put(op, run[g].step, "completed") /\ op.payload = run[g].want
    BY <1>4 DEF Confirm, MayMutate
  <2>4. op' \in Operation /\ OpOf(g) /\ Outbox' /\ \A w \in Writes : Sound(w)'
    BY <1>1, <1>2, <1>4, <2>3, PutKeeps DEF Confirm, remote, RunType, BoxState, Parts, Posts
  <2>5. TbTypeOK'
    BY <2>2, <2>4 DEF Confirm, remote, IInv, TbTypeOK
  <2>. QED BY <2>2, <2>4, <2>5, LocalStep DEF Confirm, remote
<1>. QED BY <1>3, <1>4

\* A run that looks again after its write.
LEMMA LooksAgain ==
    ASSUME IInv, NEW g \in Gateway, Busy(g), run[g].at # "settle", NEW b \in BOOLEAN,
           run' = [run EXCEPT ![g] = [run[g] EXCEPT !.at = "confirm", !.refused = b]],
           posts' = posts, seen' = seen
    PROVE  /\ run' \in [Gateway -> RunType] /\ OnlyRun(g)
           /\ run'[g].at = "confirm" /\ Knows(g)'
<1>1. run[g] \in RunType /\ run \in [Gateway -> RunType] /\ Knows(g)
  BY TypeFacts DEF IInv
<1>2. [run[g] EXCEPT !.at = "confirm", !.refused = b] \in RunType
  BY <1>1 DEF RunType, Place
<1>3. /\ run' \in [Gateway -> RunType] /\ OnlyRun(g)
      /\ run'[g].at = "confirm" /\ run'[g].want = run[g].want
      /\ run'[g].step = run[g].step /\ run'[g].res = run[g].res
  BY <1>1, <1>2 DEF OnlyRun, RunType
<1>. QED BY <1>1, <1>3 DEF Knows, Busy

\* The write of g is of unknown fate, or acknowledged.
LEMMA WriteReported ==
    ASSUME IInv, NEW g \in Gateway, Busy(g), run[g].at # "settle", MayMutate(g),
           NEW state \in {"write_acknowledged", "ambiguous"},
           op' = Put(op, run[g].step, state), run' \in [Gateway -> RunType], OnlyRun(g),
           run'[g].at # "begun", Knows(g)',
           UNCHANGED <<pending, phase, remote, seen>>, faults' \in Nat
    PROVE  IInv'
<1>1. run[g].step \in Parts(op.payload) \cup {"status"} /\ run[g].step \in Step
  BY TypeFacts DEF IInv, Knows, RunType, Step, Posts, MayMutate
<1>2. op' \in Operation /\ OpOf(g) /\ Outbox' /\ \A w \in Writes : Sound(w)'
  BY <1>1, PutKeeps DEF remote, BoxState
<1>3. TbTypeOK'
  BY <1>2 DEF remote, IInv, TbTypeOK
<1>. QED BY <1>2, <1>3, LocalStep DEF remote

LEMMA AcknowledgeStep ==
    ASSUME IInv, NEW g \in Gateway, Acknowledge(g) PROVE IInv'
<1>1. /\ Busy(g) /\ run[g].at = "answered" /\ faults' \in Nat
      /\ run[g] \in RunType /\ run \in [Gateway -> RunType]
  BY TypeFacts DEF Acknowledge, Busy, IInv, TbTypeOK
<1>2. CASE ~MayMutate(g)
  BY <1>1, <1>2, GivenUp DEF Acknowledge, story
<1>3. CASE MayMutate(g) /\ op.box[run[g].step] = "write_started"
  <2>1. run' = [run EXCEPT ![g] = [run[g] EXCEPT !.at = "confirm",
                                                 !.refused = run[g].refused]]
    BY <1>1, <1>3 DEF Acknowledge, RunType
  <2>2. run[g].refused \in BOOLEAN
    BY <1>1 DEF RunType
  <2>3. /\ run' \in [Gateway -> RunType] /\ OnlyRun(g)
        /\ run'[g].at = "confirm" /\ Knows(g)'
    BY <1>1, <2>1, <2>2, LooksAgain DEF Acknowledge, remote
  <2>. QED BY <1>1, <1>3, <2>3, WriteReported DEF Acknowledge
<1>4. CASE MayMutate(g) /\ op.box[run[g].step] # "write_started"
  <2>1. /\ run' \in [Gateway -> RunType] /\ OnlyRun(g)
        /\ run'[g].at \in {"look", "settle"} /\ Knows(g)'
    BY <1>1, <1>4, GoesOn DEF Acknowledge, remote
  <2>. QED BY <1>1, <1>4, <2>1, WriteReported DEF Acknowledge
<1>. QED BY <1>2, <1>3, <1>4

LEMMA FailStep ==
    ASSUME IInv, NEW g \in Gateway, Fail(g) PROVE IInv'
<1>1. /\ Busy(g) /\ run[g].at \in {"wait", "answered"}
      /\ run[g] \in RunType /\ run \in [Gateway -> RunType]
  BY TypeFacts DEF Fail, Busy, IInv
<1>2. faults' \in Nat
  <2>1. NoFault \/ Fault
    BY DEF Fail
  <2>. QED BY <2>1 DEF NoFault, Fault, IInv, TbTypeOK
<1>3. /\ run' \in [Gateway -> RunType] /\ OnlyRun(g)
      /\ run'[g].at \in {"confirm", "look", "settle"} /\ Knows(g)'
  <2>1. CASE run' = [run EXCEPT ![g] = Done(run[g], "unsettled")]
    BY <1>1, <2>1, GoesOn DEF Fail, remote
  <2>2. CASE run' = [run EXCEPT ![g] = [run[g] EXCEPT !.at = "confirm", !.refused = TRUE]]
    BY <1>1, <2>2, LooksAgain DEF Fail, remote
  <2>. QED BY <2>1, <2>2 DEF Fail
<1>4. CASE MayMutate(g)
  BY <1>1, <1>2, <1>3, <1>4, WriteReported DEF Fail
<1>5. CASE ~MayMutate(g)
  <2>1. op' = op
    BY <1>5 DEF Fail
  <2>2. TbTypeOK'
    BY <1>2, <1>3, <2>1 DEF Fail, remote, IInv, TbTypeOK
  <2>3. Outbox' /\ \A w \in Writes : Sound(w)'
    BY <2>1, SameOutbox DEF Fail, remote
  <2>. QED BY <1>3, <2>1, <2>2, <2>3, LocalStep DEF Fail, remote, OpOf
<1>. QED BY <1>4, <1>5

LEMMA SettleStep ==
    ASSUME IInv, NEW g \in Gateway, Settle(g) PROVE IInv'
<1>1. /\ run \in [Gateway -> RunType] /\ Idle \in RunType /\ run[g].want \in Payload
      /\ run[g].at = "settle"
  BY TypeFacts DEF IInv, Idle, RunType, Place, Step, Settle, Knows
<1>2. run' \in [Gateway -> RunType] /\ OnlyRun(g) /\ run'[g].at = "idle" /\ Knows(g)'
  BY <1>1 DEF Settle, OnlyRun, Idle, Knows, Busy
<1>3. CASE UNCHANGED story
  <2>1. TbTypeOK'
    BY <1>2, <1>3 DEF Settle, story, remote, IInv, TbTypeOK
  <2>2. Outbox' /\ \A w \in Writes : Sound(w)'
    BY <1>3, SameOutbox DEF Settle, story, remote
  <2>. QED BY <1>2, <1>3, <2>1, <2>2, LocalStep DEF Settle, story, remote, OpOf
<1>4. ASSUME MayMutate(g),
             NEW st \in {"owned", "ambiguous", "reconciling", "completed"},
             op' = [op EXCEPT !.status = st],
             phase' \in {"settled", "sync_pending"}, pending' \in {None, run[g].want},
             phase' = "settled" => st = "completed",
             st = "completed" => ReadyToSettle(op),
             op.status = "reconciling" /\ Uncertain(op) # {} => st = "reconciling"
      PROVE  IInv'
  <2>1. op \in Operation /\ op # None /\ op.owner = g
    BY <1>4, TypeFacts DEF MayMutate, IInv
  <2>2. /\ op' \in Operation /\ op'.status = st /\ op'.box = op.box
        /\ op'.payload = op.payload /\ op'.owner = op.owner
    BY <1>4, <2>1 DEF Operation
  <2>3. op' # None /\ Uncertain(op') = Uncertain(op) /\ (ReadyToSettle(op) => ReadyToSettle(op'))
    BY <2>2, TbAssumption DEF Uncertain, ReadyToSettle, Settled
  <2>4. TbTypeOK'
    BY <1>1, <1>2, <1>4, <2>2 DEF Settle, remote, IInv, TbTypeOK
  <2>5. Outbox'
    BY <1>4, <2>1, <2>2, <2>3 DEF Settle, remote, IInv, Outbox, Parts
  <2>6. \A w \in Writes : Sound(w)'
    BY <1>4, <2>2, <2>3, StillSound DEF Settle, remote
  <2>. QED BY <1>2, <2>1, <2>2, <2>3, <2>4, <2>5, <2>6, LocalStep DEF Settle, remote, OpOf
<1>5. CASE /\ MayMutate(g) /\ ReadyToSettle(op) /\ op' = [op EXCEPT !.status = "completed"]
           /\ phase' = "settled" /\ pending' = None
  <2>1. Uncertain(op) = {}
    BY <1>5 DEF ReadyToSettle, Settled, Uncertain
  <2>. QED BY <1>4, <1>5, <2>1
<1>6. CASE /\ MayMutate(g) /\ op' = [op EXCEPT !.status = ActiveStatus(op)]
           /\ phase' = "sync_pending" /\ pending' = run[g].want
  <2>1. /\ ActiveStatus(op) \in {"owned", "ambiguous", "reconciling"}
        /\ op.status = "reconciling" /\ Uncertain(op) # {}
             => ActiveStatus(op) = "reconciling"
    BY DEF ActiveStatus
  <2>. QED BY <1>4, <1>6, <2>1
<1>. QED BY <1>3, <1>5, <1>6 DEF Settle

-----------------------------------------------------------------------------
(* A write begins, is sent, and arrives. *)

LEMMA BeginStep ==
    ASSUME IInv, NEW g \in Gateway, Begin(g) PROVE IInv'
<1>1. /\ run \in [Gateway -> RunType] /\ run[g] \in RunType /\ Knows(g) /\ faults' \in Nat
      /\ Busy(g) /\ run[g].at = "heard" /\ run[g].found = "no"
  BY TypeFacts DEF Begin, Busy, IInv, TbTypeOK
<1>2. CASE op' = op /\ run' = [run EXCEPT ![g] = Done(run[g], "unsettled")]
  BY <1>1, <1>2, GivenUp DEF Begin, story
<1>3. CASE /\ MayBegin(g) /\ To(g, "begun")
           /\ op' = [op EXCEPT !.box[run[g].step] = "write_started"]
  <2>. DEFINE s == run[g].step
  <2>1. /\ op \in Operation /\ op # None /\ op.owner = g /\ op.payload = run[g].want
        /\ op.status \notin {"reconciling", "completed"} /\ op.box[s] = "planned"
        /\ s \in Step /\ MayMutate(g)
    BY <1>1, <1>3, TypeFacts DEF MayBegin, MayMutate, IInv, RunType
  <2>2. /\ op' \in Operation /\ op'.payload = op.payload /\ op'.owner = g
        /\ op'.status = op.status /\ op'.box[s] = "write_started"
        /\ \A t \in Step \ {s} : op'.box[t] = op.box[t]
    BY <1>3, <2>1 DEF Operation, BoxState
  <2>. HIDE DEF s
  <2>3. op' # None /\ Uncertain(op') = Uncertain(op) \cup {s}
    BY <2>1, <2>2, TbAssumption DEF Uncertain
  <2>4. [run[g] EXCEPT !.at = "begun"] \in RunType
    BY <1>1 DEF RunType, Place
  <2>5. /\ run' \in [Gateway -> RunType] /\ OnlyRun(g) /\ run'[g].at = "begun"
        /\ run'[g].want = run[g].want /\ run'[g].step = s /\ run'[g].res = run[g].res
    BY <1>1, <1>3, <2>4 DEF To, OnlyRun, RunType, s
  <2>6. TbTypeOK'
    BY <2>2, <2>5 DEF Begin, remote, IInv, TbTypeOK
  <2>7. \A h \in Gateway : Knows(h)'
    <3>1. Knows(g)'
      BY <1>1, <2>5 DEF Begin, remote, Knows, Busy, s
    <3>. QED BY <2>2, <2>3, <2>5, <3>1, OthersKnow DEF OpOf, Begin, remote
  <2>8. Outbox'
    <3>1. \A t \in Step : op'.box[t] = "skipped" <=> t \in Posts \ Parts(op.payload)
      BY <2>1, <2>2 DEF IInv, Outbox
    <3>. QED BY <2>1, <2>2, <2>3, <3>1 DEF Begin, remote, IInv, Outbox, Posts, Step, Parts
  <2>9. \A w \in Writes : Sound(w)'
    BY <2>1, <2>2, <2>3, StillSound DEF Begin, remote
  <2>10. /\ Begun' = Begun \cup {g} /\ g \notin Begun /\ transit' = transit
         /\ \A h \in Begun' : Request(h)' = Request(h) /\ run'[h].step = run[h].step
    BY <1>1, <2>5 DEF Begin, remote, Begun, Request, OnlyRun, s
  <2>11. Writes' = Writes \cup {Request(g)}
    BY <2>10 DEF Writes
  <2>12. /\ s \in Posts => posts[run[g].want][s] = 0
         /\ \A w : w = Request(g) => Sound(w)'
    <3>1. s \in Posts => posts[run[g].want][s] = 0
      BY <1>1, <2>1 DEF Knows, s
    <3>. QED BY <2>1, <2>2, <2>3, <3>1 DEF Sound, Request, Begin, remote, s
  <2>13. \A w \in Writes : w.step \in Posts /\ w.payload = run[g].want => w.by = g
    BY <2>1 DEF IInv, Sound
  <2>14. s \in Posts => Request(g) \notin transit
    BY <2>1 DEF IInv, Sound, Writes, Request, Uncertain, s
  <2>15. Alone'
    <3>1. ASSUME NEW w1 \in Writes', NEW w2 \in Writes', w1.payload = w2.payload,
                 w1.step \in Posts, w2.step \in Posts
          PROVE  w1.by = w2.by
      <4>1. CASE w1 \in Writes /\ w2 \in Writes
        BY <3>1, <4>1 DEF IInv, Alone
      <4>2. CASE w1 = Request(g) \/ w2 = Request(g)
        BY <2>11, <2>13, <3>1, <4>2 DEF Request
      <4>. QED BY <2>11, <4>1, <4>2
    <3>2. ASSUME NEW h \in Begun', run'[h].step \in Posts PROVE Request(h)' \notin transit'
      <4>1. CASE h = g
        BY <2>5, <2>10, <2>14, <3>2, <4>1
      <4>2. CASE h # g
        BY <2>10, <3>2, <4>2 DEF IInv, Alone
      <4>. QED BY <4>1, <4>2
    <3>. QED BY <3>1, <3>2 DEF Alone
  <2>16. NothingPostedTwice' /\ StatusFollowsPosts'
    BY DEF Begin, remote, IInv, NothingPostedTwice, StatusFollowsPosts
  <2>17. \A w \in Writes' : Sound(w)'
    BY <2>9, <2>11, <2>12
  <2>. QED BY <2>6, <2>7, <2>8, <2>15, <2>16, <2>17 DEF IInv
<1>. QED BY <1>2, <1>3 DEF Begin

LEMMA SendStep ==
    ASSUME IInv, NEW g \in Gateway, Send(g) PROVE IInv'
<1>1. /\ run \in [Gateway -> RunType] /\ run[g] \in RunType /\ Knows(g)
      /\ Busy(g) /\ run[g].at = "begun" /\ g \in Begun /\ run[g].want \in Payload
  BY TypeFacts DEF Send, Busy, IInv, Begun, Knows
<1>2. [run[g] EXCEPT !.at = "wait"] \in RunType
  BY <1>1 DEF RunType, Place
<1>3. /\ run' \in [Gateway -> RunType] /\ OnlyRun(g) /\ run'[g].at = "wait"
      /\ run'[g].want = run[g].want /\ run'[g].step = run[g].step
      /\ run'[g].res = run[g].res
  BY <1>1, <1>2 DEF Send, To, OnlyRun, RunType
<1>4. Request(g) \in [payload : Payload, step : Step, by : Gateway]
  BY <1>1 DEF Request, RunType
<1>5. TbTypeOK'
  BY <1>3, <1>4 DEF Send, story, IInv, TbTypeOK
<1>6. \A h \in Gateway : Knows(h)'
  <2>1. Knows(g)'
    BY <1>1, <1>3 DEF Send, Knows, Busy
  <2>. QED BY <1>3, <2>1, OthersKnow DEF OpOf, Send, story
<1>7. Outbox' /\ \A w \in Writes : Sound(w)'
  BY SameOutbox DEF Send, story
<1>8. /\ Begun' = Begun \ {g} /\ transit' = transit \cup {Request(g)}
      /\ \A h \in Begun' : Request(h)' = Request(h) /\ run'[h] = run[h]
  BY <1>1, <1>3 DEF Send, Begun, Request, OnlyRun
<1>9. Writes' = Writes
  BY <1>1, <1>8 DEF Writes
<1>10. Alone'
  <2>1. ASSUME NEW h \in Begun', run'[h].step \in Posts PROVE Request(h)' \notin transit'
    <3>1. Request(h) # Request(g)
      BY <1>8 DEF Request
    <3>. QED BY <1>8, <2>1, <3>1 DEF IInv, Alone
  <2>. QED BY <1>9, <2>1 DEF IInv, Alone
<1>11. NothingPostedTwice'
  BY DEF Send, IInv, NothingPostedTwice
<1>12. StatusFollowsPosts'
  <2>1. run[g].step = "status" => \A s \in Parts(run[g].want) : posts[run[g].want][s] > 0
    BY <1>1 DEF Knows, Parts
  <2>2. /\ Request(g).step = "status" => posts[Request(g).payload]["comment"] > 0
        /\ Request(g).step = "status" /\ Request(g).payload \in Attached
             => posts[Request(g).payload]["attachment"] > 0
    BY <2>1 DEF Request, Parts, Posts
  <2>. QED BY <1>8, <2>2 DEF Send, IInv, StatusFollowsPosts
<1>. QED BY <1>5, <1>6, <1>7, <1>9, <1>10, <1>11, <1>12 DEF IInv

LEMMA LandEffect ==
    ASSUME IInv, NEW r \in transit, Land(r)
    PROVE  /\ r \in [payload : Payload, step : Step, by : Gateway]
           /\ posts' \in [Payload -> [Posts -> Nat]]
           /\ \A p \in Payload : \A s \in Posts :
                  posts'[p][s] = IF r.step \in Posts /\ p = r.payload /\ s = r.step
                                 THEN 1 ELSE posts[p][s]
           /\ r.step \notin Posts => posts' = posts
           /\ r.step \in Posts =>
                /\ r.step \in Parts(r.payload) /\ posts[r.payload][r.step] = 0
                /\ posts' = [posts EXCEPT ![r.payload][r.step] = 1]
<1>1. r \in [payload : Payload, step : Step, by : Gateway] /\ Sound(r)
  BY DEF IInv, TbTypeOK, Writes
<1>2. CASE r.step = "status"
  BY <1>1, <1>2 DEF Land, Posts, IInv, TbTypeOK
<1>3. CASE r.step \in Posts
  <2>1. posts' = [posts EXCEPT ![r.payload][r.step] = posts[r.payload][r.step] + 1]
    BY <1>3 DEF Land, Posts
  <2>2. posts[r.payload][r.step] = 0
    BY <1>1, <1>3 DEF Sound
  <2>3. posts' = [posts EXCEPT ![r.payload][r.step] = 1]
    BY <2>1, <2>2
  <2>4. r.step \in Parts(r.payload)
    BY <1>1, <1>3 DEF Sound, Uncertain, IInv, Outbox
  <2>. QED BY <1>1, <1>3, <2>2, <2>3, <2>4 DEF IInv, TbTypeOK
<1>. QED BY <1>1, <1>2, <1>3 DEF Step, Posts

LEMMA LandStep ==
    ASSUME IInv, NEW r \in transit, Land(r) PROVE IInv'
<1>1. /\ r \in [payload : Payload, step : Step, by : Gateway] /\ r \in Writes /\ Sound(r)
      /\ run \in [Gateway -> RunType]
  BY TypeFacts DEF IInv, TbTypeOK, Writes
<1>2. /\ run' \in [Gateway -> RunType]
      /\ \A h \in Gateway :
             \/ run'[h] = run[h]
             \/ /\ run[h].at = "wait" /\ run'[h].at = "answered"
                /\ run'[h].want = run[h].want /\ run'[h].step = run[h].step
                /\ run'[h].res = run[h].res
  <2>1. CASE Waits(r)
    <3>1. [run[r.by] EXCEPT !.at = "answered"] \in RunType
      BY <1>1 DEF RunType, Place
    <3>2. run' = [run EXCEPT ![r.by] = [run[r.by] EXCEPT !.at = "answered"]]
      BY <2>1 DEF Land
    <3>. QED BY <1>1, <2>1, <3>1, <3>2 DEF RunType, Waits
  <2>2. CASE ~Waits(r)
    BY <1>1, <2>2 DEF Land
  <2>. QED BY <2>1, <2>2
<1>3. /\ posts' \in [Payload -> [Posts -> Nat]]
      /\ \A p \in Payload : \A s \in Posts :
             posts'[p][s] = IF r.step \in Posts /\ p = r.payload /\ s = r.step
                            THEN 1 ELSE posts[p][s]
  BY LandEffect
<1>4. \A p \in Payload : \A s \in Posts : posts[p][s] > 0 => posts'[p][s] > 0
  BY <1>3
<1>5. TbTypeOK'
  BY <1>2, <1>3 DEF Land, story, IInv, TbTypeOK
<1>6. \A h \in Gateway : Knows(h)'
  <2>. SUFFICES ASSUME NEW h \in Gateway PROVE Knows(h)'
    OBVIOUS
  <2>1. Knows(h) /\ op' = op /\ seen' = seen
    BY DEF IInv, Land, story
  <2>2. CASE run'[h] = run[h]
    <3>1. MayMutate(h)' <=> MayMutate(h)
      BY <2>1, <2>2 DEF MayMutate
    <3>2. ASSUME run[h].at = "heard", run[h].found = "no", run[h].step \in Posts,
                 MayMutate(h), op.box[run[h].step] = "planned"
          PROVE  posts'[run[h].want][run[h].step] = 0
      <4>1. posts[run[h].want][run[h].step] = 0 /\ run[h].want \in Payload
        BY <2>1, <3>2 DEF Knows
      <4>2. ~(r.step \in Posts /\ run[h].step = r.step)
        BY <1>1, <3>2 DEF Sound, Uncertain
      <4>. QED BY <1>3, <3>2, <4>1, <4>2
    <3>3. Busy(h)' <=> Busy(h)
      BY <2>2 DEF Busy
    <3>. QED BY <1>4, <2>1, <2>2, <3>1, <3>2, <3>3 DEF Knows, Busy, Parts
  <2>3. CASE /\ run[h].at = "wait" /\ run'[h].at = "answered"
             /\ run'[h].want = run[h].want /\ run'[h].step = run[h].step
             /\ run'[h].res = run[h].res
    BY <1>4, <2>1, <2>3 DEF Knows, Busy, Parts
  <2>. QED BY <1>2, <2>2, <2>3
<1>7. Outbox'
  BY <1>4, TypeFacts DEF Land, story, IInv, Outbox, Operation
<1>8. Begun' = Begun /\ \A h \in Begun : Request(h)' = Request(h) /\ run'[h].step = run[h].step
  BY <1>2 DEF Begun, Request
<1>9. Writes' \subseteq Writes /\ transit' = transit \ {r}
  BY <1>8 DEF Land, Writes
<1>10. \A w \in Writes' : Sound(w)'
  <2>. SUFFICES ASSUME NEW w \in Writes', w.step \in Posts PROVE Sound(w)'
    BY DEF Sound
  <2>1. Sound(w) /\ w \in Writes
    BY <1>9 DEF IInv
  <2>2. w \in [payload : Payload, step : Step, by : Gateway]
    <3>1. CASE w \in transit
      BY <3>1 DEF IInv, TbTypeOK
    <3>2. ASSUME NEW h \in Begun, w = Request(h)
          PROVE  w \in [payload : Payload, step : Step, by : Gateway]
      BY <3>2, <1>1 DEF Request, RunType, Begun, IInv, Knows
    <3>. QED BY <2>1, <3>1, <3>2 DEF Writes
  <2>3. ~(w.payload = r.payload /\ w.step = r.step)
    <3>. SUFFICES ASSUME w.payload = r.payload, w.step = r.step PROVE FALSE
      OBVIOUS
    <3>1. w.by = r.by
      BY <1>1, <2>1 DEF IInv, Alone
    <3>2. w = r
      BY <1>1, <2>2, <3>1
    <3>3. w \notin transit'
      BY <1>9, <3>2
    <3>4. PICK h \in Begun : w = Request(h)
      BY <1>8, <3>3 DEF Writes
    <3>. QED BY <3>2, <3>4 DEF IInv, Alone, Request
  <2>4. posts'[w.payload][w.step] = 0
    BY <1>3, <2>1, <2>2, <2>3 DEF Sound
  <2>. QED BY <2>1, <2>4 DEF Sound, Land, story
<1>11. Alone'
  BY <1>8, <1>9 DEF IInv, Alone
<1>12. NothingPostedTwice'
  BY <1>3 DEF IInv, NothingPostedTwice
<1>13. StatusFollowsPosts'
  BY <1>4, <1>9 DEF IInv, TbTypeOK, StatusFollowsPosts, Posts
<1>. QED BY <1>5, <1>6, <1>7, <1>10, <1>11, <1>12, <1>13 DEF IInv

LEMMA CrashStep ==
    ASSUME IInv, NEW g \in Gateway, Crash(g) PROVE IInv'
<1>1. run \in [Gateway -> RunType] /\ [Idle EXCEPT !.at = "dead"] \in RunType
  BY TypeFacts DEF IInv, Idle, RunType, Place, Step
<1>2. run' \in [Gateway -> RunType] /\ OnlyRun(g) /\ run'[g].at = "dead" /\ Knows(g)'
  BY <1>1 DEF Crash, OnlyRun, Idle, Knows, Busy
<1>3. TbTypeOK'
  BY <1>2 DEF Crash, story, remote, IInv, TbTypeOK
<1>4. Outbox' /\ \A w \in Writes : Sound(w)'
  BY SameOutbox DEF Crash, story, remote
<1>. QED BY <1>2, <1>3, <1>4, LocalStep DEF Crash, story, remote, OpOf

\* A request is lost, or people do something.
Outside ==
    \/ \E r \in transit : Drop(r)
    \/ \E status \in {"open", "target", "other"} : People(status)
    \/ \E to \in {"working", "closed", "sync_pending"} : ManualPhase(to)
    \/ \E p \in Attached : Drift(p)

LEMMA CommonStep ==
    ASSUME IInv, Outside
    PROVE  IInv'
<1>1. /\ UNCHANGED <<op, run, posts, seen>> /\ transit' \subseteq transit
      /\ phase' = "settled" => phase = "settled"
      /\ phase' \in {phase, "working", "closed", "sync_pending"} /\ pending' \in {pending, None}
      /\ task' \in {"open", "target", "other"} /\ drifted' \subseteq Attached
      /\ faults' \in Nat
  BY DEF Outside, Drop, People, ManualPhase, Drift, Fault, story, remote, IInv, TbTypeOK
<1>2. TbTypeOK'
  BY <1>1 DEF IInv, TbTypeOK
<1>3. \A g \in Gateway : Knows(g)'
  BY <1>1 DEF IInv, Knows, Busy, MayMutate
<1>4. Outbox' /\ \A w \in Writes : Sound(w)'
  BY <1>1, SameOutbox
<1>5. (\A w \in Writes' : Sound(w)') /\ Alone'
  BY <1>1, <1>4, NoNewWrite
<1>6. NothingPostedTwice' /\ StatusFollowsPosts'
  BY <1>1 DEF IInv, NothingPostedTwice, StatusFollowsPosts
<1>. QED BY <1>2, <1>3, <1>4, <1>5, <1>6 DEF IInv

-----------------------------------------------------------------------------
(* The invariant, and what follows from it. *)

LEMMA Initial == ASSUME Init PROVE IInv
<1>1. Idle \in RunType
  BY DEF Idle, RunType, Place, Step
<1>2. TbTypeOK
  BY <1>1 DEF Init, TbTypeOK
<1>3. \A g \in Gateway : run[g].at = "idle"
  BY DEF Init, Idle
<1>4. Begun = {} /\ Writes = {}
  BY <1>3 DEF Init, Begun, Writes
<1>5. \A g \in Gateway : Knows(g)
  BY <1>3 DEF Knows, Busy
<1>. QED BY <1>2, <1>4, <1>5
         DEF Init, IInv, Outbox, Alone, NothingPostedTwice, StatusFollowsPosts

LEMMA Inductive == ASSUME IInv, [Next]_vars PROVE IInv'
<1>1. CASE UNCHANGED vars
  <2>1. UNCHANGED <<story, remote, run, seen, faults>>
    BY <1>1 DEF vars, story, remote
  <2>. QED BY <2>1 DEF story, remote, IInv, TbTypeOK, Knows, Busy, MayMutate, Outbox, Sound,
              Alone, Writes, Begun, Request, NothingPostedTwice, StatusFollowsPosts
<1>2. ASSUME NEW g \in Gateway, Work(g) \/ LookFails(g) \/ Crash(g) PROVE IInv'
  BY <1>2, ReserveStep, LookStep, LookFailsStep, ConfirmStep, BeginStep, UnconfirmedStep,
     SendStep, AcknowledgeStep, FailStep, SettleStep, CrashStep DEF Work
<1>3. ASSUME NEW g \in Gateway, NEW p \in Payload, Want(g, p) PROVE IInv'
  BY <1>3, WantStep
<1>4. ASSUME NEW r \in transit, Land(r) PROVE IInv'
  BY <1>4, LandStep
<1>5. CASE Outside
  BY <1>5, CommonStep
<1>. QED BY <1>1, <1>2, <1>3, <1>4, <1>5 DEF Next, Outside

LEMMA Invariant == Spec => []IInv
<1>. QED BY Initial, Inductive, PTL DEF Spec

\* The variables have their types.
THEOREM TypeCorrect == Spec => []TbTypeOK
<1>1. IInv => TbTypeOK
  BY DEF IInv
<1>. QED BY <1>1, Invariant, PTL

\* However many gateways retry, take over, lose answers and die, a comment and an
\* attachment reach Teambition at most once (beginTabTbSyncStepWrite).
THEOREM PostedOnce == Spec => []NothingPostedTwice
<1>1. IInv => NothingPostedTwice
  BY DEF IInv
<1>. QED BY <1>1, Invariant, PTL

\* The status never overtakes the posts it announces (runTbSyncSaga).
THEOREM StatusLast == Spec => []StatusFollowsPosts
<1>1. IInv => StatusFollowsPosts
  BY DEF IInv
<1>. QED BY <1>1, Invariant, PTL

\* A takeover never leaves two gateways with posts of one payload on their way
\* (reserveTabTbSyncOperation).
THEOREM OneWriter == Spec => []PostsOfOneOwner
<1>1. IInv => PostsOfOneOwner
  BY DEF IInv, Alone, Writes, PostsOfOneOwner
<1>. QED BY <1>1, Invariant, PTL

-----------------------------------------------------------------------------
(* What is on record stays there. *)

\* No step takes back what the operation says.  An operation is replaced by that of
\* another payload only when it is completed; until then its fence does not fall and
\* it changes hands only with a higher one, what is confirmed stays so, and a write
\* that was begun is never planned again.
Keeps ==
    op # None =>
        /\ op' # None
        /\ op'.payload = op.payload =>
            /\ op'.fence > op.fence \/ (op'.fence = op.fence /\ op'.owner = op.owner)
            /\ op.status = "completed" => op' = op
            /\ \A s \in Step : /\ Settled(op, s) => op'.box[s] = op.box[s]
                             /\ op'.box[s] = "planned" => op.box[s] = "planned"
        /\ op'.payload # op.payload => op.status = "completed" /\ op'.fence > op.fence

\* A write of g that is not reported yet is on record as begun.
Recorded(g) ==
    run[g].at \in {"begun", "wait", "answered"} /\ MayMutate(g) =>
        op.box[run[g].step] = "write_started"

LEMMA SameKeeps ==
    ASSUME IInv, op' = op PROVE Keeps
BY TypeFacts DEF IInv, Operation, Keeps

\* What g puts on record is kept.
LEMMA PutOnRecord ==
    ASSUME IInv, NEW g \in Gateway, MayMutate(g), NEW s \in Step, NEW state \in BoxState,
           op' = Put(op, s, state), op.box[s] # "skipped",
           state = "completed"
             \/ (state \in {"write_acknowledged", "ambiguous"} /\ op.box[s] # "completed")
    PROVE  Keeps /\ OpOf(g)
<1>1. op \in Operation /\ op # None /\ op.owner = g /\ op.status # "completed"
  BY TypeFacts DEF IInv, MayMutate
<1>2. /\ op' \in Operation /\ op'.payload = op.payload /\ op'.owner = op.owner
      /\ op'.fence = op.fence
      /\ op'.box[s] = state /\ \A t \in Step \ {s} : op'.box[t] = op.box[t]
  BY <1>1, PutEffect
<1>. QED BY <1>1, <1>2, TbAssumption DEF Keeps, Settled, OpOf

\* The step at which a gateway is belongs to its payload.
LEMMA NotSkipped ==
    ASSUME IInv, NEW g \in Gateway, Busy(g), run[g].at # "settle", MayMutate(g)
    PROVE  run[g].step \in Step /\ op.box[run[g].step] # "skipped"
<1>1. op # None /\ op.payload = run[g].want
  BY DEF MayMutate
<1>2. run[g].step \in Step /\ (run[g].step \in Posts => run[g].step \in Parts(run[g].want))
  BY TypeFacts DEF IInv, Knows, RunType
<1>. QED BY <1>1, <1>2 DEF IInv, Outbox

LEMMA ReserveKeeps ==
    ASSUME IInv, NEW g \in Gateway, Reserve(g)
    PROVE  Keeps /\ OpOf(g) /\ OnlyRun(g) /\ run'[g].at \in {"idle", "look", "settle"}
<1>1. run \in [Gateway -> RunType] /\ (op # None => op \in Operation)
  BY TypeFacts DEF IInv
<1>2. CASE run' = [run EXCEPT ![g] = Idle] /\ UNCHANGED story
  BY <1>1, <1>2, SameKeeps DEF OnlyRun, OpOf, Idle, story
<1>3. CASE Resume(g, run[g].want)
  <2>1. /\ run'[g] = Start(g, op) /\ OnlyRun(g) /\ op' = op /\ op \in Operation
    BY <1>1, <1>3 DEF Resume, OnlyRun, story
  <2>. QED BY <2>1, StartEffect, SameKeeps DEF OpOf
<1>4. CASE TakeOver(g, run[g].want)
  <2>. DEFINE st == IF Uncertain(op) = {} THEN "owned" ELSE "reconciling"
              f == op.fence + 1
  <2>1. /\ op # None /\ op.status # "completed" /\ op \in Operation
        /\ op' = [op EXCEPT !.owner = g, !.fence = f, !.status = st]
        /\ run'[g] = Start(g, op') /\ OnlyRun(g)
    BY <1>1, <1>4 DEF TakeOver, Own, OnlyRun
  <2>2. st \in {"owned", "reconciling"} /\ f \in Nat /\ f > op.fence
    BY <2>1 DEF Operation
  <2>. HIDE DEF st, f
  <2>3. /\ op' \in Operation /\ op'.payload = op.payload /\ op'.box = op.box
        /\ op'.owner = g /\ op'.fence = f
    BY <2>1, <2>2 DEF Operation
  <2>. QED BY <2>1, <2>2, <2>3, StartEffect, TbAssumption DEF Keeps, OpOf
<1>5. CASE ~TurnedAway(g, run[g].want) /\ Fresh(g, run[g].want)
  <2>. DEFINE p == run[g].want
              fence == IF op = None THEN 1 ELSE op.fence + 1
              box == [s \in Step |-> IF s = "attachment" /\ p \notin Attached
                                     THEN "skipped" ELSE "planned"]
  <2>1. p \in Payload /\ fence \in Nat /\ (op # None => fence > op.fence)
    BY <1>1, TypeFacts DEF IInv, Reserve, Knows, Operation
  <2>2. box \in [Step -> BoxState]
    BY DEF BoxState
  <2>3. /\ op' = [payload |-> p, owner |-> g, fence |-> fence, status |-> "owned",
                  box |-> box]
        /\ run'[g] = Start(g, op') /\ OnlyRun(g)
    BY <1>1, <1>5 DEF Fresh, Own, OnlyRun
  <2>4. op = None \/ (op.status = "completed" /\ op.payload # p)
    BY <1>5 DEF TurnedAway, Fresh
  <2>. HIDE DEF p, fence, box
  <2>5. /\ op' \in Operation /\ op' # None /\ op'.payload = p /\ op'.owner = g
        /\ op'.fence = fence
    BY <2>1, <2>2, <2>3, TbAssumption DEF Operation
  <2>. QED BY <2>1, <2>3, <2>4, <2>5, StartEffect DEF Keeps, OpOf
<1>. QED BY <1>2, <1>3, <1>4, <1>5 DEF Reserve

\* A run that goes on is no longer at a write.
LEMMA GoesOnRecord ==
    ASSUME IInv, NEW g \in Gateway, NEW result \in {"ok", "unsettled"},
           run' = [run EXCEPT ![g] = Done(run[g], result)]
    PROVE  OnlyRun(g) /\ run'[g].at \in {"look", "settle"}
<1>1. run \in [Gateway -> RunType] /\ run[g] \in RunType
  BY TypeFacts DEF IInv
<1>. QED BY <1>1, DoneEffect DEF Follows, OnlyRun

LEMMA WriteKeeps ==
    ASSUME IInv, NEW g \in Gateway, Recorded(g),
           Confirm(g) \/ Acknowledge(g) \/ Fail(g)
    PROVE  Keeps /\ OpOf(g)
<1>1. Busy(g) /\ run[g].at # "settle"
  BY DEF Busy, Confirm, Acknowledge, Fail
<1>2. CASE op' = op
  BY <1>2, SameKeeps DEF OpOf
<1>3. CASE MayMutate(g) /\ op' = Put(op, run[g].step, "completed")
  BY <1>1, <1>3, NotSkipped, PutOnRecord DEF BoxState
<1>4. CASE /\ MayMutate(g) /\ run[g].at \in {"wait", "answered"}
           /\ \E state \in {"write_acknowledged", "ambiguous"} :
                 op' = Put(op, run[g].step, state)
  BY <1>1, <1>4, NotSkipped, PutOnRecord DEF BoxState, Recorded
<1>. QED BY <1>2, <1>3, <1>4 DEF Confirm, Acknowledge, Fail

LEMMA BeginKeeps ==
    ASSUME IInv, NEW g \in Gateway, Begin(g)
    PROVE  Keeps /\ OpOf(g) /\ OnlyRun(g) /\ Recorded(g)'
<1>1. run \in [Gateway -> RunType] /\ run[g] \in RunType
  BY TypeFacts DEF IInv
<1>2. CASE op' = op /\ run' = [run EXCEPT ![g] = Done(run[g], "unsettled")]
  BY <1>2, GoesOnRecord, SameKeeps DEF OpOf, Recorded
<1>3. CASE /\ MayBegin(g) /\ To(g, "begun")
           /\ op' = [op EXCEPT !.box[run[g].step] = "write_started"]
  <2>. DEFINE s == run[g].step
  <2>1. /\ op \in Operation /\ op # None /\ op.owner = g /\ op.box[s] = "planned"
        /\ s \in Step /\ op.status # "completed"
    BY <1>1, <1>3, TypeFacts DEF MayBegin, MayMutate, IInv, RunType
  <2>2. run'[g].step = s /\ OnlyRun(g)
    BY <1>1, <1>3 DEF To, OnlyRun, RunType
  <2>. HIDE DEF s
  <2>3. /\ op' \in Operation /\ op'.payload = op.payload /\ op'.owner = g
        /\ op'.fence = op.fence /\ op'.box[s] = "write_started"
        /\ \A t \in Step \ {s} : op'.box[t] = op.box[t]
    BY <1>3, <2>1 DEF Operation, BoxState, s
  <2>. QED BY <2>1, <2>2, <2>3, TbAssumption DEF Keeps, Settled, OpOf, Recorded
<1>. QED BY <1>2, <1>3 DEF Begin

LEMMA SettleKeeps ==
    ASSUME IInv, NEW g \in Gateway, Settle(g)
    PROVE  Keeps /\ OpOf(g) /\ OnlyRun(g) /\ run'[g].at = "idle"
<1>1. run \in [Gateway -> RunType]
  BY TypeFacts DEF IInv
<1>2. OnlyRun(g) /\ run'[g].at = "idle"
  BY <1>1 DEF Settle, OnlyRun, Idle
<1>3. CASE op' = op
  BY <1>2, <1>3, SameKeeps DEF OpOf
<1>4. CASE MayMutate(g) /\ \E st \in {"completed", ActiveStatus(op)} :
                              op' = [op EXCEPT !.status = st]
  <2>1. op \in Operation /\ op # None /\ op.owner = g /\ op.status # "completed"
    BY <1>4, TypeFacts DEF MayMutate, IInv
  <2>2. PICK st \in {"completed", ActiveStatus(op)} : op' = [op EXCEPT !.status = st]
    BY <1>4
  <2>3. st \in {"owned", "ambiguous", "reconciling", "completed"}
    BY DEF ActiveStatus
  <2>4. /\ op' \in Operation /\ op'.payload = op.payload /\ op'.owner = op.owner
        /\ op'.fence = op.fence /\ op'.box = op.box
    BY <2>1, <2>2, <2>3 DEF Operation
  <2>. QED BY <1>2, <2>1, <2>4, TbAssumption DEF Keeps, OpOf
<1>. QED BY <1>3, <1>4 DEF Settle, story

LEMMA GatewayKeeps ==
    ASSUME IInv, NEW g \in Gateway, Recorded(g),
           Work(g) \/ LookFails(g) \/ Crash(g) \/ \E p \in Payload : Want(g, p)
    PROVE  Keeps /\ OpOf(g) /\ OnlyRun(g) /\ Recorded(g)'
<1>1. run \in [Gateway -> RunType] /\ run[g] \in RunType
  BY TypeFacts DEF IInv
<1>2. CASE Reserve(g)
  BY <1>2, ReserveKeeps DEF Recorded
<1>3. CASE Begin(g)
  BY <1>3, BeginKeeps
<1>4. CASE Settle(g)
  BY <1>4, SettleKeeps DEF Recorded
<1>5. CASE Look(g) \/ Crash(g) \/ \E p \in Payload : Want(g, p)
  <2>1. /\ op' = op /\ OnlyRun(g)
        /\ run'[g].at \in {"heard", "read", "dead", "reserve"}
    BY <1>1, <1>5 DEF Look, Crash, Want, story, OnlyRun, RunType, Idle
  <2>. QED BY <2>1, SameKeeps DEF OpOf, Recorded
<1>6. CASE LookFails(g) \/ Unconfirmed(g)
  <2>1. op' = op /\ run' = [run EXCEPT ![g] = Done(run[g], "unsettled")]
    BY <1>6 DEF LookFails, Unconfirmed, story
  <2>. QED BY <2>1, GoesOnRecord, SameKeeps DEF OpOf, Recorded
<1>7. CASE Send(g)
  <2>1. /\ op' = op /\ OnlyRun(g) /\ run[g].at = "begun"
        /\ run'[g].step = run[g].step /\ run'[g].want = run[g].want
        /\ run'[g].fence = run[g].fence
    BY <1>1, <1>7 DEF Send, To, story, OnlyRun, RunType
  <2>. QED BY <2>1, SameKeeps DEF OpOf, Recorded, MayMutate
<1>8. CASE Confirm(g) \/ Acknowledge(g) \/ Fail(g)
  <2>1. \/ \E result \in {"ok", "unsettled"} : run' = [run EXCEPT ![g] = Done(run[g], result)]
        \/ run' = [run EXCEPT ![g].at = "confirm"]
        \/ run' = [run EXCEPT ![g].at = "confirm", ![g].refused = TRUE]
    BY <1>8 DEF Confirm, Acknowledge, Fail
  <2>2. OnlyRun(g) /\ run'[g].at \in {"look", "settle", "confirm"}
    <3>1. CASE \E result \in {"ok", "unsettled"} :
                  run' = [run EXCEPT ![g] = Done(run[g], result)]
      BY <3>1, GoesOnRecord
    <3>2. CASE \/ run' = [run EXCEPT ![g].at = "confirm"]
               \/ run' = [run EXCEPT ![g].at = "confirm", ![g].refused = TRUE]
      BY <1>1, <3>2 DEF OnlyRun, RunType
    <3>. QED BY <2>1, <3>1, <3>2
  <2>. QED BY <1>8, <2>2, WriteKeeps DEF Recorded
<1>. QED BY <1>2, <1>3, <1>4, <1>5, <1>6, <1>7, <1>8 DEF Work

LEMMA StepKeeps ==
    ASSUME IInv, \A g \in Gateway : Recorded(g), [Next]_vars
    PROVE  Keeps /\ \A g \in Gateway : Recorded(g)'
<1>1. CASE UNCHANGED <<op, run>>
  BY <1>1, SameKeeps DEF Recorded, MayMutate
<1>2. ASSUME NEW g \in Gateway,
             Work(g) \/ LookFails(g) \/ Crash(g) \/ \E p \in Payload : Want(g, p)
      PROVE  Keeps /\ \A h \in Gateway : Recorded(h)'
  <2>1. Keeps /\ OpOf(g) /\ OnlyRun(g) /\ Recorded(g)'
    BY <1>2, GatewayKeeps
  <2>2. ASSUME NEW h \in Gateway \ {g} PROVE Recorded(h)'
    <3>1. run'[h] = run[h] /\ (MayMutate(h)' => MayMutate(h) /\ op' = op)
      BY <2>1 DEF OnlyRun, OpOf, MayMutate
    <3>. QED BY <3>1 DEF Recorded
  <2>. QED BY <2>1, <2>2
<1>3. ASSUME NEW r \in transit, Land(r) PROVE Keeps /\ \A h \in Gateway : Recorded(h)'
  <2>1. op' = op /\ run \in [Gateway -> RunType]
    BY <1>3, TypeFacts DEF Land, story, IInv
  <2>2. ASSUME NEW h \in Gateway PROVE Recorded(h)'
    <3>1. /\ run'[h].step = run[h].step /\ run'[h].want = run[h].want
          /\ run'[h].fence = run[h].fence
          /\ run'[h].at = run[h].at \/ run[h].at = "wait"
      BY <1>3, <2>1 DEF Land, Waits, RunType
    <3>. QED BY <2>1, <3>1 DEF Recorded, MayMutate
  <2>. QED BY <2>1, <2>2, SameKeeps
<1>4. CASE Outside
  BY <1>1, <1>4 DEF Outside, Drop, People, ManualPhase, Drift, story
<1>. QED BY <1>1, <1>2, <1>3, <1>4 DEF Next, Outside, vars

LEMMA AllRecorded == Spec => [](\A g \in Gateway : Recorded(g))
<1>1. Init => \A g \in Gateway : Recorded(g)
  BY DEF Init, Idle, Recorded
<1>2. IInv /\ (\A g \in Gateway : Recorded(g)) /\ [Next]_vars
        => (\A g \in Gateway : Recorded(g))'
  BY StepKeeps
<1>. QED BY <1>1, <1>2, Invariant, PTL DEF Spec

\* The record of a sync, which decides what may still be written, is never taken
\* back by the sync itself, by whichever gateway and after whatever takeover, answer
\* or death (mutateTabTbSyncOperation, reserveTabTbSyncOperation); a post appears
\* twice only where something else writes that row (updateTab).
THEOREM RecordStays == Spec => [][Keeps]_vars
<1>1. IInv /\ (\A g \in Gateway : Recorded(g)) /\ [Next]_vars => Keeps
  BY StepKeeps
<1>. QED BY <1>1, Invariant, AllRecorded, PTL DEF Spec

-----------------------------------------------------------------------------
(* The end of a sync, and the promises of TbReport. *)

\* Whoever completes a sync has every part of the payload before him.
LEMMA Completion ==
    ASSUME IInv, NEW g \in Gateway, run[g].at = "settle", MayMutate(g),
           \A s \in Step : run[g].res[s] = "ok"
    PROVE  /\ run[g].want \in Payload /\ run[g].want \in seen
           /\ \A s \in Parts(run[g].want) : posts[run[g].want][s] = 1
<1>1. /\ run[g].want \in Payload /\ run[g].want \in seen
      /\ \A s \in Parts(run[g].want) : posts[run[g].want][s] > 0
  BY DEF IInv, Knows, Busy, Step, Parts, Posts
<1>. QED BY <1>1, TypeFacts DEF IInv, NothingPostedTwice, Parts

\* What a step does to what TbReport shows.
Same == posts' = posts /\ UnderWay' = UnderWay /\ Ended' \in {Ended, None}
Taken == posts' = posts /\ UnderWay = None /\ UnderWay' \in Payload /\ Ended' = None
Posted ==
    /\ UnderWay' = UnderWay /\ Ended' = Ended
    /\ UnderWay \in Payload
    /\ \E s \in Parts(UnderWay) : /\ posts[UnderWay][s] = 0
                                /\ posts' = [posts EXCEPT ![UnderWay][s] = 1]
Finished ==
    /\ posts' = posts
    /\ UnderWay \in Payload \cap seen /\ UnderWay' = None /\ Ended' = UnderWay
    /\ \A s \in Parts(UnderWay) : posts[UnderWay][s] = 1

Moves == Same \/ Taken \/ Posted \/ Finished

\* An operation that only changes hands or its outbox is the same report.
LEMMA SameReport ==
    ASSUME op # None => /\ op' # None /\ op'.payload = op.payload
                        /\ op'.status = "completed" <=> op.status = "completed",
           op = None => op' = None,
           posts' = posts, phase' = phase \/ phase' # "settled"
    PROVE  Same
BY DEF Same, UnderWay, Ended

\* A new operation is one.
LEMMA FreshOperation ==
    ASSUME IInv, NEW g \in Gateway, NEW p \in Payload, Fresh(g, p)
    PROVE  op' \in Operation
<1>. DEFINE fence == IF op = None THEN 1 ELSE op.fence + 1
            box == [s \in Step |-> IF s = "attachment" /\ p \notin Attached
                                   THEN "skipped" ELSE "planned"]
<1>1. box \in [Step -> BoxState] /\ fence \in Nat
  BY TypeFacts DEF BoxState, IInv, Operation
<1>2. op' = [payload |-> p, owner |-> g, fence |-> fence, status |-> "owned", box |-> box]
  BY DEF Fresh, Own
<1>. HIDE DEF box, fence
<1>. QED BY <1>1, <1>2 DEF Operation

LEMMA ReserveMoves ==
    ASSUME IInv, NEW g \in Gateway, Reserve(g) PROVE Moves
<1>1. posts' = posts /\ (op # None => op \in Operation)
  BY TypeFacts DEF Reserve, remote, IInv
<1>2. CASE UNCHANGED story
  BY <1>1, <1>2, SameReport DEF story, Moves
<1>3. CASE TakeOver(g, run[g].want)
  <2>. DEFINE st == IF Uncertain(op) = {} THEN "owned" ELSE "reconciling"
              f == op.fence + 1
  <2>1. /\ op # None /\ op.status # "completed" /\ op \in Operation
        /\ op' = [op EXCEPT !.owner = g, !.fence = f, !.status = st]
        /\ phase' = "sync_pending" /\ st # "completed"
        /\ st \in {"owned", "reconciling"} /\ f \in Nat
    BY <1>1, <1>3 DEF TakeOver, Own, Operation
  <2>. HIDE DEF st, f
  <2>2. op' \in Operation /\ op'.payload = op.payload /\ op'.status # "completed"
    BY <2>1 DEF Operation
  <2>. QED BY <1>1, <2>1, <2>2, SameReport, TbAssumption DEF Moves
<1>4. CASE ~TurnedAway(g, run[g].want) /\ Fresh(g, run[g].want)
  <2>1. run[g].want \in Payload
    BY DEF IInv, Knows, Reserve
  <2>2. op = None \/ op.status = "completed"
    BY <1>4 DEF TurnedAway, Fresh
  <2>3. op'.payload = run[g].want /\ op'.status = "owned" /\ phase' = "sync_pending"
    BY <1>4 DEF Fresh, Own
  <2>4. op' # None
    BY <1>4, <2>1, FreshOperation, TbAssumption
  <2>. QED BY <1>1, <2>1, <2>2, <2>3, <2>4 DEF Moves, Taken, UnderWay, Ended
<1>. QED BY <1>2, <1>3, <1>4 DEF Reserve, Resume

LEMMA GatewayMoves ==
    ASSUME IInv, NEW g \in Gateway,
           Work(g) \/ LookFails(g) \/ Crash(g) \/ \E p \in Payload : Want(g, p)
    PROVE  Moves
<1>1. MayMutate(g) => /\ op \in Operation /\ op # None /\ op.status # "completed"
                      /\ phase # "settled"
  BY TypeFacts DEF IInv, Outbox, MayMutate
<1>2. CASE Reserve(g)
  BY <1>2, ReserveMoves
<1>3. CASE \/ Look(g) \/ LookFails(g) \/ Unconfirmed(g) \/ Send(g) \/ Crash(g)
           \/ \E p \in Payload : Want(g, p)
  <2>1. UNCHANGED <<op, phase, posts>>
    BY <1>3 DEF Look, LookFails, Unconfirmed, Send, Crash, Want, story, remote
  <2>. QED BY <2>1, SameReport DEF Moves
<1>4. CASE Confirm(g) \/ Begin(g) \/ Acknowledge(g) \/ Fail(g)
  <2>1. /\ UNCHANGED <<phase, posts>>
        /\ \/ op' = op
           \/ /\ MayMutate(g)
              /\ \/ op' = [op EXCEPT !.box[run[g].step] = "write_started"]
                 \/ \E state \in BoxState : op' = Put(op, run[g].step, state)
    BY <1>4 DEF Confirm, Begin, MayBegin, Acknowledge, Fail, remote, BoxState
  <2>2. run[g].step \in Step
    BY TypeFacts DEF IInv, RunType
  <2>3. CASE MayMutate(g) /\ \E state \in BoxState : op' = Put(op, run[g].step, state)
    <3>1. /\ op' \in Operation /\ op'.payload = op.payload /\ op'.status # "completed"
      BY <1>1, <2>2, <2>3, PutEffect
    <3>. QED BY <1>1, <2>1, <2>3, <3>1, SameReport, TbAssumption DEF Moves
  <2>4. CASE MayMutate(g) /\ op' = [op EXCEPT !.box[run[g].step] = "write_started"]
    <3>1. op' \in Operation /\ op'.payload = op.payload /\ op'.status = op.status
      BY <1>1, <2>2, <2>4 DEF Operation, BoxState
    <3>. QED BY <1>1, <2>1, <2>4, <3>1, SameReport, TbAssumption DEF Moves
  <2>. QED BY <2>1, <2>3, <2>4, SameReport DEF Moves
<1>5. CASE Settle(g)
  <2>1. posts' = posts
    BY <1>5 DEF Settle, remote
  <2>2. CASE UNCHANGED story
    BY <2>1, <2>2, SameReport DEF story, Moves
  <2>3. ASSUME MayMutate(g), NEW st \in {"owned", "ambiguous", "reconciling", "completed"},
               op' = [op EXCEPT !.status = st]
        PROVE  op' # None /\ op'.payload = op.payload /\ op'.status = st
    BY <1>1, <2>3, TbAssumption DEF Operation
  <2>4. CASE /\ MayMutate(g) /\ op' = [op EXCEPT !.status = ActiveStatus(op)]
             /\ phase' = "sync_pending"
    <3>1. ActiveStatus(op) \in {"owned", "ambiguous", "reconciling"}
      BY DEF ActiveStatus
    <3>2. op' # None /\ op'.payload = op.payload /\ op'.status # "completed"
      BY <2>3, <2>4, <3>1
    <3>. QED BY <1>1, <2>1, <2>4, <3>2, SameReport DEF Moves
  <2>5. CASE /\ MayMutate(g) /\ \A s \in Step : run[g].res[s] = "ok"
             /\ op' = [op EXCEPT !.status = "completed"] /\ phase' = "settled"
    <3>1. op' # None /\ op'.payload = op.payload /\ op'.status = "completed"
      BY <2>3, <2>5
    <3>2. UnderWay = run[g].want /\ UnderWay' = None /\ Ended' = run[g].want
      BY <1>1, <2>5, <3>1 DEF UnderWay, Ended, MayMutate
    <3>3. /\ run[g].want \in Payload /\ run[g].want \in seen
          /\ \A s \in Parts(run[g].want) : posts[run[g].want][s] = 1
      BY <1>5, <2>5, Completion DEF Settle
    <3>. QED BY <2>1, <3>2, <3>3 DEF Moves, Finished
  <2>. QED BY <1>5, <2>2, <2>4, <2>5 DEF Settle
<1>. QED BY <1>2, <1>3, <1>4, <1>5 DEF Work

LEMMA StepMoves == ASSUME IInv, [Next]_vars PROVE Moves /\ seen \subseteq seen'
<1>1. CASE UNCHANGED vars
  BY <1>1, SameReport DEF vars, Moves
<1>2. ASSUME NEW r \in transit, Land(r) PROVE Moves
  <2>1. UNCHANGED <<op, phase>>
    BY <1>2 DEF Land, story
  <2>2. CASE r.step \notin Posts
    BY <1>2, <2>1, <2>2, LandEffect, SameReport DEF Moves
  <2>3. CASE r.step \in Posts
    <3>1. /\ r.payload \in Payload /\ r.step \in Parts(r.payload)
          /\ posts[r.payload][r.step] = 0
          /\ posts' = [posts EXCEPT ![r.payload][r.step] = 1]
      BY <1>2, <2>3, LandEffect
    <3>2. Sound(r)
      BY DEF IInv, Writes
    <3>3. op # None /\ op.payload = r.payload /\ op.status # "completed"
      BY <2>3, <3>2 DEF Sound, IInv, Outbox, ReadyToSettle, Settled, Uncertain
    <3>4. UnderWay = r.payload /\ UnderWay' = UnderWay /\ Ended' = Ended
      BY <2>1, <3>3 DEF UnderWay, Ended
    <3>. QED BY <3>1, <3>4 DEF Moves, Posted
  <2>. QED BY <2>2, <2>3
<1>3. ASSUME Outside PROVE Moves
  <2>1. UNCHANGED <<op, posts>> /\ (phase' = phase \/ phase' # "settled")
    BY <1>3 DEF Outside, Drop, People, ManualPhase, Drift, story, remote
  <2>. QED BY <2>1, SameReport DEF Moves
<1>4. seen \subseteq seen'
  BY DEF Next, vars, Work, Reserve, Look, LookFails, Confirm, Begin, Unconfirmed, Send,
         Acknowledge, Fail, Settle, Land, Drop, People, ManualPhase, Drift, Crash, Want
<1>. QED BY <1>1, <1>2, <1>3, <1>4, GatewayMoves DEF Next, Outside

Confirmed ==
    Ended # None => /\ Ended \in Payload \cap seen
                    /\ \A s \in Parts(Ended) : posts[Ended][s] > 0

\* Whoever completes a sync, whoever began it and whatever people made of the phase
\* meanwhile: the sync ends the story only with the whole report on the task and the
\* status read as reached (settleTabTbSyncOperation).
THEOREM EndIsTrue == Spec => []TerminalIsConfirmed
<1>1. Init => Confirmed
  BY DEF Init, Confirmed, Ended
<1>2. ASSUME IInv, Confirmed, [Next]_vars PROVE Confirmed'
  <2>1. Moves /\ seen \subseteq seen'
    BY <1>2, StepMoves
  <2>2. CASE Same \/ Taken
    BY <1>2, <2>1, <2>2 DEF Same, Taken, Confirmed, Parts
  <2>3. CASE Posted
    <3>1. \A p \in Payload : \A s \in Posts : posts[p][s] > 0 => posts'[p][s] > 0
      BY <1>2, <2>3 DEF Posted, IInv, TbTypeOK, Parts
    <3>. QED BY <1>2, <2>1, <2>3, <3>1 DEF Posted, Confirmed, Parts
  <2>4. CASE Finished
    BY <2>1, <2>4 DEF Finished, Confirmed, Parts
  <2>. QED BY <2>1, <2>2, <2>3, <2>4 DEF Moves
<1>3. IInv /\ Confirmed => TerminalIsConfirmed
  BY TypeFacts, TbAssumption
     DEF IInv, Outbox, Confirmed, Ended, TerminalIsConfirmed, Parts, Posts, Operation
<1>. QED BY <1>1, <1>2, <1>3, Invariant, PTL DEF Spec

\* The sync keeps the promises of TbReport: one report after the other, each with its
\* own posts, and none given up half-done.
THEOREM Refines == Spec => ImplementsReport
<1>1. Init => Report!ReportInit
  BY DEF Init, Report!ReportInit, UnderWay, Ended, Posts
<1>2. ASSUME IInv, [Next]_vars PROVE [Report!ReportNext]_(Report!report)
  <2>1. Moves
    BY <1>2, StepMoves
  <2>2. \A p \in Payload : Report!Whole(p) = Parts(p)
    BY DEF Report!Whole, Parts, Posts
  <2>3. CASE Same
    BY <2>3 DEF Same, Report!ReportNext, Report!ByHand, Report!report
  <2>4. CASE Taken
    BY <2>4 DEF Taken, Report!ReportNext, Report!Take
  <2>5. CASE Posted
    BY <2>2, <2>5 DEF Posted, Report!ReportNext, Report!Appear
  <2>6. CASE Finished
    BY <2>2, <2>6 DEF Finished, Report!ReportNext, Report!Reach
  <2>. QED BY <2>1, <2>3, <2>4, <2>5, <2>6 DEF Moves
<1>. QED BY <1>1, <1>2, Invariant, PTL DEF Spec, ImplementsReport, Report!ReportSpec
=============================================================================
