# Formal models of the AIEfficiency gateway

TLA+ models of the parts of the gateway (`src/gateway/`) whose correctness
depends on the order in which independent actors do things: who may operate a
test device, who may run Git commands in a managed repository, how a commit of
a remote branch is accepted into the mirror, how a report reaches Teambition, and
which step of a workflow may run when. TLC checks the models on small instances; TLAPS proves
the main results for every value of the constants.

    tlc -workers 2 -config MCDeviceProxy.cfg MCDeviceProxy
    tlapm DeviceRuntimeProofs.tla

## 1. The system

The program is a Node gateway (Express, SQLite, WebSocket) on a developer's
machine, with a React dashboard and Electron shells around it. A *story* is a
unit of work: it has a conversation with an AI agent, worktrees of source
repositories, and perhaps a test device. The gateway runs AI turns for stories,
performs Git work through a separate controller process, drives devices over
adb, and reports to Teambition. Several gateways may share one database.

### Inventory

| Part | State | Operations | What is hard |
|---|---|---|---|
| Device coordinator: `services/devbench/device-runtime.js`, `device-runtime-service.js` | per device serial, one JSON record in SQLite: lease, queue, ended requests, counters | acquire, heartbeat, release, cancel, recover, snapshot | several gateways; expiry judged by an old clock reading; repeated and late calls; a history of limited length |
| Device clients: `device-operation-guard.js`, parts of `services/devbench/index.js`, `routes/devbench.js`, `server.js` | the stored message queue of a story; timers and scheduled drains in memory | immediate operations; turns; drains; close of a story; device list | steps between two calls; crashes that forget what was scheduled; wake-ups that nobody makes |
| Repository lease: `services/devbench/git-controller/lease.js`, `db/sqlite.js`, spawning in `path-security.js` | a lease row and a fence counter in SQLite; a lock file with a revision and a ledger of the Git child | acquire, heartbeat, ledger updates, release, recovery of stale locks and orphaned operations | two stores that are not updated together; check-then-act on a file; death at any point; children that outlive their parent |
| Device proxy: `device-operation-guard-service.js`, change of the bound device in `routes/devbench.js` | what one call froze of the lease | attest, check binding and lease, execute, check both again, receipt | lease and binding may change during the action, and between the checks |
| Mirror and journal: `git-controller/mirror-sync.js`, `journal.js` | refs, a row with a generation number, the record and phase of each operation | preview, execute, recover | death between a phase and its effect; commands that fail with or without their effect; compare-and-swap of the row |
| Base synchronisation: `git-controller/base-sync.js` | the protected base repository | preflight, apply, verify, recover | the same, with a working tree |
| Teambition synchronisation: `workflow-v2/tb-sync-saga.js`, `tb-workflow.js`, the `...TbSync...` transactions of `store.js` | an operation with an owner, a fencing token and the state of each step; the phase of the story | reserve, look, begin, write, confirm, settle, take over | writes whose answer is lost, with nothing to make them idempotent; gateways that take over from one another |
| Controlled operations: `workflow-v2/controlled-operation-journal.js`, `envelope-store.js`, `edit-state-binding.js`, `repair-commit-settlement.js` | recorded envelopes and receipts | begin, settle, replay | replay of what was done |
| Workflow gates: `workflow-v2/*-gate.js`, `compatibility-dispatch.js` | none | validation | boundary cases of the rules |
| Messages: `conversation/queued-message.js`, `message-delivery.js`, `store.js` | the queue of a story | enqueue, deliver, retry, delete | idempotent sending, order after failure |
| Story repositories: `story-repository-controller.js`, `worktree-manager.js` | registry of repositories and worktrees | provision, retire, recover | many steps, each of which may be the last |
| Controller daemon: `git-controller-daemon.js`, `registry.js`, `path-security.js` | configuration, capability sessions | requests | authentication, paths, containment |
| Base protection, managed hooks | policy files | inspect, enforce | file-system states |
| LAN synchronisation: `services/lan-sync/` | peers, exchanged stories | discover, push, pull | lost and duplicated messages |
| Scheduler of task graphs: `services/dag-scheduler.js` | status of each subtask, pause, abort | execute, end of a task, retry, abort | runs in the continuations of tasks; its caller replaces one of its methods |
| Workflow runs: `services/workflow-executor.js` | a row per run; variables and overrides in memory | start, review of a step, sending back, abort | the scheduler goes on before the override has |
| Task graphs of the chat: `routes/chat.js`, `routes/tasks.js` | schedulers in memory, by task | plan, review, retry, stop, summary | several graphs of one session; retry after a failure |
| Workers: `cli-supervisor.js`, `dispatcher.js`, `agent-loop.js`, `isolated-worker-broker.mjs` | processes | start, stop | exits racing with timeouts |
| Acceptance, automatic work | pipelines | run, resume | resumption after a restart |
| Dashboard, desktop shells, scrapers, skills, tools | - | - | presentation and input/output, not modelled |

### How the modelled parts interact

A client that wants a device calls *acquire* with a request id and a story id.
The coordinator answers with a lease (it may operate now) or a place in the
queue. Its holder renews the lease by a timer and gives it back with the id and
the fencing token it got. The coordinator hands a free device on inside the
transaction that freed it; the reply to *that* caller names the next holder, and
it is the caller's business to wake the next holder's story. What nobody wakes
is found by a sweep: 16 s after a gateway starts and then every minute, it
schedules a drain of every stored message (`server.js`, `recoverRuntimeStates`).

The Git controller takes a repository lease for each operation: first the row
(lifetime, fencing token), then the lock file. Before and after each Git
command it rewrites the lock file, so that whoever finds the file after a death
knows whether a command may still be running.

The device proxy is what a workflow operates a device through. It freezes the
story's lease when the work begins, and around each action reads the story's
binding and the coordinator's record, renews the lease, and reads both again.

A preview of the mirror says what would be accepted; executing it consumes the
preview, takes the repository lease, fetches, and then changes in this order the
ref that keeps the commit, the accepted ref, the row and the record of the
operation, with a phase put on record before each. A controller that starts
finishes or undoes what it finds before it serves.

A report on a story is frozen as a payload. The first gateway that syncs it
becomes the owner of its operation; every write is looked up at Teambition first,
recorded as begun, made, and confirmed by looking again. The story reaches its
final phase when all steps are confirmed. Whoever asks again, on this gateway or
another, resumes or takes over the operation, or is told to wait.

A workflow run builds a scheduler from its steps and replaces the scheduler's
`runSubtask` by its own, which calls the original. The scheduler has no thread:
`execute` starts the steps that wait for nothing, and the original `runSubtask`
of a step, when the step's task has ended, starts what waited for it or resolves
the whole run. All of that happens before the replacement goes on to review the
output, to send the step back, or to store its output for the others.

### What makes each part correct

* *Coordinator*: one record per request; a story waits or holds once; first come,
  first served; a free device is never left to a waiting queue; tokens rise; a
  lease ends early only by its owner; an ended request stays ended.
* *Clients*: an operation holds the lease while it runs; a lease is lost only to
  time; who is refused leaves nothing behind; a stored message is known to the
  coordinator and settles in the end; a loser stops.
* *Repository lease*: one Git command at a time, whatever died; a running command
  is on record; lock and row of a live process are not touched; who is done leaves
  neither behind; controllers take turns. (The lock of a live process *is* touched by
  a late renaming, section 6; the properties say what still holds then, and of whom.)
* *Device proxy*: a receipt of success means the lease was held throughout.
* *Mirror*: what was accepted is kept; ref and row agree, or the journal says how
  to bring them together; an operation is answered truly, once; after a death the
  controller gets back to service.
* *Teambition*: nothing is posted twice; the status follows the posts; the phase
  of a story is true; two gateways do not post the same; a retry gets on.
* *Workflow runs*: exactly the graphs with a cycle are refused; no step that could
  run is forgotten; a run is over only when all has run; a pause and an abort
  hold; the row tells the end; a step has the outputs it depends on.

## 2. The modules

| Module | What it is |
|---|---|
| `DeviceRuntime` | the coordinator of one device, one action per operation |
| `DeviceLine` | what it promises: a line with one holder at a time |
| `DeviceRuntimeLine` | the mapping from the one to the other |
| `DeviceRuntimeProofs` | theorems about `DeviceRuntime` |
| `DeviceRuntimeLineProofs` | its refinement of `DeviceLine`, and what its history says |
| `DeviceClients` | immediate operations, turns, drains, sweeps, crashes, around `DeviceRuntime` |
| `DeviceClientsProofs` | theorems about `DeviceClients` |
| `DeviceProxy` | one run of the proxy, its environment and changes of the binding, around `DeviceRuntime` |
| `DeviceProxyProofs` | theorems about `DeviceProxy` |
| `RepositoryLease` | the row, the lock file and the processes around them |
| `GitTurn` | what it promises: controllers take turns, only who has the turn runs Git commands, and a turn is lost only to the two kinds of late step it names |
| `RepositoryLeaseProofs` | theorems about `RepositoryLease`, with the refinement of `GitTurn` |
| `MirrorSync` | operations on the mirror, the journal, the start of a controller |
| `MirrorLine` | what the mirror promises: a line of commits that only grows, by commits made for it, and true answers |
| `MirrorSyncProofs` | theorems about `MirrorSync`, with the refinement of `MirrorLine` |
| `TbSync` | gateways that sync the reports of one story, and Teambition |
| `TbReport` | what the sync promises to those who read the task: one report at a time, whole, and once |
| `TbSyncProofs` | theorems about `TbSync`, with the refinement of `TbReport` |
| `TbSyncStories` | `TbSync` beside an update of another story, which writes the whole table of stories back |
| `DagScheduler` | one graph of subtasks, its check for cycles, its turns |
| `WorkflowRun` | a workflow run around `DagScheduler`: reviews, variables, the row |
| `WorkflowRunProofs` | theorems about `WorkflowRun` |
| `MCDeviceClients`, `MCDeviceProxy`, `MCRepositoryLease`, `MCWorkflowRun` | constants and symmetry for TLC |

A definition whose name starts with `Variant_` is not part of a model: it is the
definition that follows it with a plausible mistake (a dropped check, a missing
record, a wrong interval). Each property was confirmed to fail when one of them
takes the place of the definition it varies; `PROJECT.json` pairs them.

### DeviceRuntime and the code

`dev` is the record `atomicUpdateState` stores for one serial: the lease
(`state.lease`), the queue (`state.queue`, here a set ordered by sequence
number), the ended requests (`state.history`), `fencingCounter` and
`nextSequence`. Every operation of the code is one "immediate" transaction,
hence one action, and each action is the composition the code runs:

    stored record -> normalizeState -> #reapExpired -> the operation -> #grantNext

`Acquire`, `Heartbeat`, `Release`, `Cancel` and `RecoverExpired` are those
operations (`snapshot` does what `recoverExpired` does); `AcquireStatus` is the
answer a client acts on. A lease id is issued with each token, so the token
stands for both. Times are relative: a lease knows how much time it has left,
`Tick` takes some, and an operation carries the `lag` of its clock reading,
because the code reads the clock before it waits for the database lock.
`NormalizeState` truncates the history, as the code does on every load.

### DeviceClients and the code

| Action | Code |
|---|---|
| `Ask` | `acquire` in `runImmediateDeviceOperation`, and in `sendTurnWithDeviceRuntime` the first time |
| `Withdraw` | the cancel of an immediate operation that is told to wait; of a turn whose repository is invalid |
| `Persist` | the queued message is stored with its request id |
| `Redeliver`, `BlockUnasked`, `DrainNothing` | `drainQueue` |
| `Beat` | the heartbeat timers of both kinds of client |
| `Finish`, `GiveBack` | the end of an operation and `releaseDeviceRuntimeLease` |
| `CloseStory` | `prepareStoryDeviceRuntimeClose` |
| `Poll` | the device list and other snapshots |
| `Sweep` | `schedulePersistedTabQueueDrains` |
| `Crash` | a gateway dies, with any of the clients and drains |
| `ClockTick` | time passes for the lease and for the timers |

`pc` is where a client is between two calls, `tok` the token it remembers, `due`
the time to its next heartbeat (negative when the timer is late), `wake` the
drains scheduled in memory. A turn and its message are one: each story has at
most one turn in the model.

### RepositoryLease and the code

`row` and `lastFence` are the two tables; `file` is the lock file (`Torn` when it cannot
be read), `expired` whether the expiry in it has passed, and `half` the processes that
have truncated it and not yet filled it. `mem` is the `lockPayload` of a lease object.
Every read or write of the database or the file is a step of its own where another
process could come in between: `Claim`, `Create`, `FillNew` (acquire); `Study`, `Prove`,
`Displace` (`recoverStaleLock`); `Renew`, `Check`, `Truncate`, `Fill` (`heartbeat` and
`writeGitChildren`, told apart by `job`); `Spawn`, `Close` (the tracked child);
`Release`, `Unlink`, `Drop`; `Inspect`, `Certify`, `Displace`, `DropOrphan` (recovery of
an orphaned operation). `Die` may happen anywhere.

`Prove` and `Certify` read the lock for the last time, `Displace` renames what has its
name by then, and `Unlink` and `Truncate` go by the name too. A lock can therefore be
taken from a live controller, which `robbed` remembers: it is no variable of the code,
but the set of those who had the lock, whole or half, and lost it to a step of another
one since their operation began. It grows where a file is renamed, removed or overwritten
(`RobAllBut`), and a controller leaves it when its operation has ended (`Drop`).

In the mapping to `GitTurn`, the turn is that of the process the lock file names, or
that has truncated it (`Guarded`); at work is who takes the lock to be its own
(`Working`); of both, as of the running commands, the robbed are not counted. The judges
are those who are about to rename (`Sure`), the late ones those whose lock is no longer
the one they proved stale (`Late`). The row is not part of the mapping: it decides who
tries, not who works. `Take` is the creation of the file, `GiveBack` its removal by its
owner, `Judge` the last reading of a stale lock, `Clear` its renaming, `ClearLate` a
renaming that hits another lock, `Meddle` what a robbed controller that does not know
does to the file (an unlinking, a truncation), `Notice` the end of a robbed operation,
`Start` and `Exit` those of the Git command; the rewritings of the file are stuttering
steps, truncation included.

### DeviceProxy and the code

| Action | Code |
|---|---|
| `Freeze`, `Begin` | `freezeStoryDeviceLeaseContext`; `execute` up to the attestation |
| `ReadBinding`, `ReadLease`, `Renew`, `ReadBindingAgain` | the story, the snapshot, the heartbeat, the story again; the same four before and after the action, told apart by `after` |
| `EndAction` | the adapter has done, or failed, what it was asked |
| `Block` | any of the checks fails |
| `Call` | any operation of the coordinator by anybody else |
| `AskForChange`, `CancelForChange`, `WriteChange` | `prepareDeviceBindingChange` and `updateTabDeviceBinding`, of a user who binds the story to another device |
| `Rebind` | the user binds the story back |
| `Wait` | time |

The record of the device is `DeviceRuntime`'s, operated by its operators, so that
every step is one of `DeviceRuntime` (`ProxyIsCaller`). `lapsed` is no variable
of the code: it remembers whether the frozen lease was ever not held since the
first check.

### MirrorSync and the code

| Action | Code |
|---|---|
| `Preview`, `Begin` | `preview`; `journal.begin` and the consumption of the preview |
| `Acquire`, `CheckFresh`, `Fetch` | `execute` up to the verified candidate |
| `Publish`, `Retain`, `Verify`, `Move`, `Swap`, `RecordAccepted`, `Maintain` | the phases of the publication, one transaction or Git command each |
| `RecordEnd`, `End`, `Release` | `journal.succeed` and `journal.fail`, which are two transactions, and the `finally` block |
| `Trouble`, `OnError` | a step fails, with or without its effect |
| `Undo` | `cleanupUnpublishedAcceptedHistory` |
| `Start`, `Adopt`, `Assess`, `Ready` | `recover` |
| `Lapse`, `Crash`, `Push` | the lease runs out; the controller dies; the remote branch moves |

`run` is where the handler of an operation is, `op` its record with the preview,
`accepted` the rows of the mirror state so far, the last of which is the row. The
repository lease is reduced to what `RepositoryLease` guarantees: one holder
among the living, whose row may run out under it.

### TbSync and the code

| Action | Code |
|---|---|
| `Want` | `runDurablePersistedTbSync` is called, with a payload whose attachment is as it was sealed |
| `Reserve` (`Resume`, `TakeOver`, `Fresh`, `TurnedAway`) | the transaction `reserveTabTbSyncOperation` |
| `Look`, `LookFails`, `Confirm`, `Unconfirmed` | reading Teambition, and what the saga makes of it |
| `Begin`, `Send`, `Acknowledge`, `Fail` | `writeOnce`: the record, the request, the answer, or none |
| `Settle` | `settleTabTbSyncOperation` |
| `Land`, `Drop`, `People` | Teambition performs a request or never gets it; people move the task |
| `ManualPhase` | `setManualWorkflowPhase`: a person chooses a phase before the end, one of the end, or `sync_pending` |
| `Drift` | the file of an attachment is changed or lost |
| `Crash` | a gateway dies |

`transit` holds the requests on their way, whatever became of their senders.
`posts` counts what is on the task. `phase` tells the phases in which a report ends
(`testable`, `rejected`) apart by who has put the story there, which the code records as
`phaseSource`: `settled` by a sync, `closed` by a person. `ManualPhase` is one step; that
the code's `updateTab` is two is the matter of `TbSyncStories`. `Want` also lets a report
of a story closed by hand be submitted anew when its operation is complete, which the
code answers from the record; in the model `Reserve` turns it away.

### DagScheduler, WorkflowRun and the code

| Action | Code |
|---|---|
| `CheckStep`, `Refuse` | the rounds of the loop in `detectCycle`, and the rejection of `execute` |
| `Launch` | the rest of `execute`, with `startReady` |
| `FirstTaskEnds`, `RepeatedTaskEnds` | the end of a task: the original `runSubtask` with `onSubtaskComplete`, what it starts, and the replacement up to its next wait |
| `ReviewPasses`, `ReviewFails` | the end of `runInspection`, up to the next wait |
| `ReviewDies` | the task of the inspector fails |
| `AbortRun` | `abortWorkflowRun` |

One turn of the event loop is one action, except in `detectCycle`, whose rounds
are actions so that the check itself is modelled and not only its result.
`status`, `paused` and `aborted` are the scheduler's; `step` says where the
replacement of `runSubtask` stands (`idle`, its `first` task, a `review`, a
repetition `again`, `done`); `attempt` counts the reviews; `stored` and `inputs`
are what is in `variables`, and what was there when a step's prompt was made;
`record` is the row. The row's copy of the statuses (`stepStates`) is for display
and is left out. Every step is taken to name its output. The first phase of a
run, in which an AI may decompose the task, can yield any graph, so any is
allowed, with dependencies on steps that do not exist.

## 3. The runs

| Run | Instance | What it shows |
|---|---|---|
| `device_clients_crash` | 2 turns, 1 immediate operation, lease of 4, lag 0..1, late timers, one crash | leases are lost only to time, and prolonged only by whoever operates under them; an operation holds its lease until its own timer is late; stored messages are known |
| `device_clients_live` | 2 turns, lease of 2, one crash, only clock and timers fair | a turn that lost its lease stops; stored messages settle if operations end |
| `device_proxy` | 3 requests, 3 stories, leases of 1 and 2, lag 0..1, no request forgotten | the safety of the coordinator and that it implements `DeviceLine`, while a proxy acts and the binding changes; a receipt of success means that the lease was held throughout |
| `repository_lease` | 3 controllers, 3 tokens, no heartbeat after the fifth revision of a lock | the safety of row, lock and ledger but for controllers robbed by a late renaming, who robs whom, and that all this implements `GitTurn` |
| `workflow_run` | every graph of 3 steps, one of which may name an unknown step; every choice of steps to review; 1 retry | what a run promises, but for the inputs of its steps |
| `tb_sync` | 2 gateways, 2 reports of which one has an attachment, 3 owners in turn, 2 faults or changes by people, fair | the safety of the saga, that it implements `TbReport` whatever phase a person chooses, and that a retry gets on |
| `mirror_sync` | 2 operations, 2 commits, 2 faults, 2 deaths of the controller, fair | the safety of the mirror, that it implements `MirrorLine` (so that no commit is accepted over one its operation was not shown), and that the controller gets back to service |
| `device_late_start`, `repository_late_rename`, `workflow_inputs`, `mirror_overtaken`, `tb_stories` | see section 6 | violations |

*Bounds.* Three requests of up to three stories are a holder, somebody ahead and
somebody behind, or a story that replaces its own request, waiting or operating; more of
the same add no new relation, since every operation looks at one request, the head, and
one story (the theorems are for any number). The coordinator's properties are checked in
`device_proxy`, on its record `dev`: `Call` there is any operation by anybody. `MaxSequence` bounds the queue numbers, `HistoryLimit` the remembered
requests (100 in the code). A lag of one tick and a lease of two separate "fresh",
"expired to the reader" and "expired"; a lease of four has room for heartbeats
every tick. The client runs allow one crash, of any group of clients and drains:
a second crash meets the states the first one left. The proxy needs its own
request, one of the same story that evicts it and one of another story that waits
behind it; two lifetimes, because a renewal may shorten the lease. Three tokens
and three controllers are what it takes for two to recover from a third and for the
later of them to rob the earlier one; five revisions have room for a whole Git command
with a heartbeat before and under it. Three steps have
every shape a dependency can take (a chain, a fork, a join, a cycle of one, two or
three, beside steps that are sound); one retry has a review that sends a step back
and one that fails it.

Two gateways and three owners are a sync, its takeover by the other, and the return
of the first; two reports are one that is current and one that comes late; two
faults are a lost answer and a failed read-back after it. On the mirror, two operations are one that died and one that
overtakes it; two commits make a generation that goes back to an earlier commit;
two deaths are one in an operation and one in the recovery of that operation.

`RequestInOnePlace` and `ServedInOrder` are in no run: while the history has room,
`ImplementsLine` says what they say; the theorems say it of every history.

A history that forgets is not a run: the theorems about the coordinator say
whether they need room in the history. `CHECK_DEADLOCK FALSE` stands where the
system may really stop: all requests ended, all controllers dead or out of tokens,
a run over, nothing left to sync.

*Fairness.* In `TimersSpec` only the clock and the heartbeat timers are fair: the
operation itself may last for ever, which is the case `LoserStops` is about.
`OperationsEnd`, the premise of `StoredMessageSettles`, adds that operations end,
replies are acted on, scheduled drains run, and the sweep (a `setInterval`) fires.
Nothing obliges anybody to open the dashboard, to close a story, to make a new
request or to crash, so these have no fairness, and the property does not lean on
them. In `FairSpec` of a workflow run, tasks and reviews end (a task that makes no
progress is ended by the supervisor of the command-line workers), and the start of
a run is one turn of the event loop; nobody is obliged to abort. In `FairSpec` of
`TbSync` gateways go on with what they do, Teambition answers in the end, and
whoever is told that a sync is pending tries again, as the dashboard offers; no
gateway need take over from another, and nobody need change a phase by hand. In
`FairSpec` of `MirrorSync` the handlers go on, and a controller that is down is
started again. Crashes and faults are finitely many, as the bounds say: a process
that dies before every sweep or start delivers nothing.

`Prompt` says that timers fire, and their calls commit, within `MaxLag`. Node
promises no such thing; `Prompt` is TRUE only in `device_late_start`, to show that
late timers are not to blame there.

## 4. What is proved

The theorems hold for all values of the constants, under the assumptions named in
the modules and the premises named here.

`DeviceRuntimeProofs`: type correctness, `NoIdleDevice`, `RequestInOnePlace`,
`OneEntryPerStory`, `ServedInOrder`, `HolderHasNewestToken`, and the action property
`FencingAdvances`. None of these is inductive alone. The argument splits an operation
where the code does. `Core` is what holds in the middle of an operation (types, one
place per request, one entry per story, order, tokens bounded by the counter);
`Committed` adds what holds only once the operation ends (a free device has an
empty queue). Each helper (`NormalizeState`, `ReapExpired`, `EvictByStoryId`,
`CancelQueued`, `EndLease`, `GrantNext`) has a lemma that it keeps `Core` and that
tokens only rise (`Advances`); `GrantNext` turns `Core` into `Committed`. The
operations are compositions, so their proofs compose the lemmas.

`DeviceRuntimeLineProofs` takes the operations apart in the same way. `Serves` is
what each step but `Enqueue` does to the line: claims leave it and go to the history,
and the device passes to a claim that waited, with a new token; it composes, and a
new claim joins once. Hence `LineIsImplemented` (the refinement of `DeviceLine`) and
`EndedStaysEnded` (`EndedIsFinal`), under the premise `Remembering` that the history
has room for every request: without it a forgotten request may come back, in the code
too. `ReapedWhenDue` (`TakenOnlyWhenDue`) needs no such premise.

`DeviceClientsProofs`:

* `ClientsAreCallers`: every step of the composed system is a step of the
  coordinator or leaves it alone, so all of the above holds there;
* `ClientsInvariance`, `ClientsTypesCorrect` (`ClientsTypeOK`): the record is
  committed, the tokens the clients remember were issued, the types;
* `OperatorsAreNotRobbed` (`LostOnlyByExpiry`), if no two requests share a story: a
  token a client remembers is the token of its own request, wherever that is, and a
  token already issued stays with the request that held it;
* `MessagesKeepTheirPlace` (`StoredMessageIsKnown`), if the history has room: what
  is known stays known, by the refinement of the line;
* `HeartbeatsSuffice` (`OperationHoldsLease`), if no two requests share a story and
  the lifetime is at least one heartbeat interval and two lags (`Roomy`). The
  invariant `OnTime` says that the lease of an immediate operation outlasts its
  timer by the age of a clock reading; it needs that the operation starts with a
  whole lease, which holds because its request is new to the coordinator
  (`IdleUnknown`). That is where a turn differs, and `device_late_start` fails;
* `OverlapOnlyWhenLate`, under the same premises: what is left of that failure. Two
  clients operate at once only when one of them has outlived its lease, so the
  coordinator never granted the device to both; and an immediate operation has only
  if it was told so, or if its timer is as late as a timer can be;
* `LeasesRunOut` (`RenewedByItsOperator`), without premises. `SameOrNew` says of each
  helper and each call that a lease it leaves has as much time as before, or a token
  not yet issued; only the heartbeat with the token of the lease breaks this, and only
  running clients make heartbeats. So the device that a refused or dead client was
  granted is held up for one lifetime and no longer;
* `ClientsKeepTheLine`: the refinement of `DeviceLine` by the composed system, if the
  history has room.

`DeviceProxyProofs`: `ProxyTypesCorrect`, `ReceiptsAreTrue` (`ReceiptMeansHeld`),
`ProxyIsCaller`. The invariant ties the mark that the lease was interrupted to the
coordinator (`Tied`): once interrupted, the token is not held and never will be,
because tokens are not issued again (`Advances`); the check after the action then
fails. The type invariant `ProxyTypeOK` is in no run, as it is proved.

`RepositoryLeaseProofs` has two inductive invariants and no premise: others may act
before every renaming, and a lock may be taken from whoever has it by then.

* `LastInv` says of a live process what file and row may be its own at each place
  (`OwnLock`, `OwnRow`), and that a recovery, which compares the token of the row and not
  its owner, has read it in the row of a dead process (`Judging`). From it follow
  `LeaseTypesCorrect` (`LeaseTypeOK`), `NothingIsLeft` (`DoneLeavesNothing`) and
  `LiveRowsAreKept` (`LiveRowIsKept`): the row is only changed by who can name its token,
  and a file only gets a name from a process that is at work.
* `LockInv` follows who is robbed. Of those the file keeps the others out for, one that
  was not robbed is the only one; who is half-way through a file that can be read was
  robbed; and each process is `Fine`: its ledger is ahead of its command and behind its end
  (`Ledger`), who takes the lock to be its own has it unless it was robbed, and the robbed
  have not yet given up (`HasLock`), and a lock that is about to be renamed was that of a
  dead process whose command is gone (`Stale`). The exceptions are what makes it
  inductive: of a process that was robbed nothing is said but that it was at work, and
  it may act on the file of others until it notices. From it follow `OneGitChild`,
  `RunningChildIsGuarded`, `LiveLockIsKept` (`Kept` is what it says of one step) and the
  refinement.

`OneGitChild` and `RunningChildIsGuarded` except the robbed because the code does: without
the exception both are false (section 6). `LiveLockIsKept` says who can rob: a renaming
whose judgement has been overtaken, or a live process that was itself robbed. It thereby
bounds what that race can do: where no renaming comes late, no live controller loses its
lock. In the refinement (`TakesTurns`, `ImplementsGitTurn`) a turn is
taken only when every judge is late (the file is created only where there is none, so no
judge can still be right about it); each action is a turn taken, given back, judged, cleared in time or late,
meddled with or noticed to be lost, a command begun or ended, a death, or a stutter.
`TurnsAreKept` proves of `GitTurn` that its workers and commands are of one controller,
that a live one that acts as if it had the turn has it, and that a judgement that was not
overtaken is true; `WorkersHaveTheTurn` carries this over.

`TbSyncProofs`: `TbTypeOK`, `NothingPostedTwice`, `StatusFollowsPosts`,
`PostsOfOneOwner`, `TerminalIsConfirmed`, and `Refines` (`ImplementsReport`). The
invariant says what a gateway knows at each place (`Knows`), what the outbox on record
and the calls under way have to do with what Teambition holds (`Outbox`, `Sound`), and
that at most one owner has calls under way (`Alone`). `RecordStays` proves the action
property `Keeps`: no gateway takes back what an operation has on record. Its fence does
not fall, it changes hands only with a higher one, what is confirmed stays, a write that
was begun is never planned again, and another payload takes its place only when it is
completed. It needs besides that who is to report on a write has it on record as begun
(`Recorded`), which survives takeovers because only the owner writes. In `TbSyncStories`,
where an update of another story may write the record back, `Keeps` fails. For the end of
a sync, `StepMoves` says that every step shows `TbReport` nothing (`Same`), a report taken
when none was under way (`Taken`), a post of the report under way (`Posted`) or its end
(`Finished`). Both `EndIsTrue` and `Refines` rest on it; a phase chosen by hand, whichever
it is, shows at most that the story has left the end of its report. That a report is not
given up half-done needs that a new one is reserved only over a completed one, whatever
people made of the phase meanwhile.

`MirrorSyncProofs`: `MirrorTypeOK`, `AcceptedIsRetained`, `RefAndStateAgree`, and
`Refines` (`ImplementsMirrorLine`). The invariant says of each operation what its
journal and its answer have to do with the ref and the row (`Agrees`, `Holds`,
`Answered`), and that an operation at work is ahead of what is accepted (`Ahead`). In
the refinement an operation is shown the line by its preview, and may add to that line
only; the check that carries this is the comparison of generations in the swap, since
each accepted commit is tied to the generation of its preview (`Tied`). `AnswersAreTrue`
carries over what follows for the line: an operation adds one commit at most, and an
answer stays true. `MissedIsOvertaken` says what is left of `PublishedIsRecognised`,
which fails: an operation that published and is not recognised was overtaken, that is,
another one has published on it or is about to. `StartsFailForCause` is the part of
`BackToService` that needs no fairness: wherever the controller died, the start that
follows records that an operation failed only if a command failed or the lease ran out
under it, if the operation is `Stuck` or `Contested` (another one stands between ref and
row), or if it died when only its success was left to record. It rests on what a start
can be doing, and for whom (`Settling`), and on what the row says of the operations that
were previewed for it (`Bound`). The last exception is of the code: the phase `VERIFIED`
is not among those that `recover` takes for a publication, so it tries to undo the
operation and records `RECOVERY_REQUIRED`, by which the next start knows it again.

`WorkflowRunProofs`: `RunTypeOK`, `CycleIsRefused`, `WorkContinues`,
`ResolvedRunHasRunAll` and the action property `HoldsBack`. The inductive invariant
`IInv` has three parts besides the types. `CheckInv`: no set of steps each of which
waits in the set has a member that was visited, because its first visited member
would have been visited before its dependency; hence a graph that is executed has no
cycle, and one in which the loop stops early has one, namely what is left. `PlaceInv`:
place and status of a step go together. `NoneLeftWaiting`: the scheduler leaves
no step waiting that could begin. Then `WorkContinues` follows by contradiction:
with no task in flight and no failure, each step that is not completed waits for
another such step, so they form a cycle, which was refused.

Three more theorems delimit what goes wrong in such a run. `TheLastIsMissed`: which
outputs a step begins without. It is not a matter of luck: of every step that waits for
others, the output of the last one is missing, and of the others exactly those that are
under review (the variables hold the outputs of the steps that are done,
`StoredWhenDone`). `RunIsBounded` and `QuietRunsAreSettled` are the part of `RunSettles`
that needs no fairness: `Ahead` counts the rounds a step has before it, no step of the
run adds any, and each takes one away or does what is done once; and when nothing is in
flight, the row tells the end, or one of the named disturbances has happened. That those
who have a task in flight end it is what is left to TLC.

Only model-checked: liveness (`StoredMessageSettles`, `LoserStops`, `RetriesSettle`,
`BackToService` and `RunSettles`, these two but for the parts just named), which the proof system does not do, nor does it do `ENABLED`. Every other property of a
passing run is a theorem, under the premises above (for the lease there are none).

## 5. What is not modelled

* *Device clients*: changing the device a story is bound to (but for `DeviceProxy`);
  the HTTP device-use API, whose callers keep their own lease; the user's retry of a
  blocked message, which makes a new request, and its deletion; storage failures,
  which abort a transaction. A turn that fails to launch is a `Finish` at once. A
  redelivery is one step: the code asks for the lease and starts the turn, and removes the
  stored message only then (`index.js:3646-3654`), with awaits between, so a death there
  leaves a message whose turn has begun.
* *Device coordinator*: a repeated request id is compared by its story only; the code also
  compares the task, the kind of operation and the owner (`device-runtime.js:211-220`),
  which a client keeps for the id it drew. Counters are stored in the model, so the
  rebuilding of counters from the leases of an older record does nothing here. In the runs
  the history has room for every request (`EndedIsFinal` fails without it, in the code
  too), and in the runs of `DeviceClients` each story has one request: the eviction of an
  operating request by another one of its story is in `device_proxy` only.
* *Device proxy*: what an adapter does to the device, and the content of a receipt.
* *Repository lease*: write errors of a live process, other hosts (always
  refused), and two operations of one process, of which the second is treated
  by the code as that of another live process.
* *Mirror*: how a rewritten history is judged and approved (it is taken to be), the
  refs kept for stories, the fetched objects and the incoming ref, the audit, the
  expiry of a preview, a second repository. A start that finds a Git command of the
  dead controller still running refuses and changes nothing; it is no step, and neither
  is one that cannot settle the lease of the dead controller (`mirror-sync.js:1920`,
  `2143-2153`). `Begin` is `journal.begin` and the consumption of the preview together;
  the path on which the consumption fails and that is recorded (`mirror-sync.js:2254-2277`)
  is left out.
* *Teambition*: the making of texts and attachments (a payload is given) and their
  validation, but for an attachment that is no longer the file that was sealed (`Drift`);
  the group report, which syncs one story after the other.
* *Task graphs and workflow runs*: the retry of a subtask and the supplements of
  the user, which only the chat offers; the decomposition of a task before the
  run; failures of the storage of rows.
* The other rows of the inventory: not yet, or not at all where the table says
  so. `PROJECT.json` lists each with the reason, and the hazards found in them. The
  largest part of the repository is user interface, packaging, scrapers, documents
  and routes that read and write one row: there is no order of steps in it to check.

## 6. Where the code does not do what is written

* `device_late_start`. A turn that is drained onto a lease granted earlier does
  not renew it, and beats a full interval later. If less is left, the lease ends
  under it, and the next client starts. A heartbeat at the start closes this. When no two
  requests share a story, two clients operate at once only like this: one has outlived
  its lease; the device is never granted to both (theorem `OverlapOnlyWhenLate`).
* `repository_late_rename`. The configuration guide promises that only the lock of an owner
  that is dead can be replaced, and that a lock that drifts while it is being judged fails
  closed. But the last reading of a stale lock and its renaming are two calls
  (`lease.js:1005-1020`, `1136-1146`), and the renaming goes by the name of the file. Two
  controllers judge the same stale lock; one of them renames it and creates its own; the
  renaming of the other then takes that away from a live controller, which goes on until it
  next looks at its lock. The counterexample has 15 states. It does not end there: `OneGitChild` without its exception
  for the robbed fails on the same instance, in 36 states, so two Git commands run in the
  repository at once. What remains true is in the passing run: nobody else is robbed than
  by such a renaming, or by one who was robbed so (theorem `LiveLocksAreKept`), and of
  the others all promises hold. A renaming tied to the file that was read closes this.
* `workflow_inputs`. The skill that decomposes tasks promises that a later step
  can refer to the output of an earlier one. A step that waits only for one
  other does not see it when it begins: it is started inside the original
  `runSubtask` of that one, and the output is stored when that has returned.
  `{{name}}` becomes an empty string. So it is for every step that waits for others,
  with the one that ended last (theorem `TheLastIsMissed`).
* `mirror_overtaken`. The configuration guide promises that a start completes an
  operation whose candidate the accepted ref has reached. The start recognises it by
  the last row only. An operation that published, failed in its maintenance, and was
  followed by another one is not recognised, and the controller does not start again
  until somebody mends its journal. No other operation is missed (theorem
  `MissedIsOvertaken`).
* `tb_stories`. The outbox is to be on record before a comment is posted. But an
  update of any story reads all stories and writes all of them back in two steps; one
  by another gateway undoes the record, and after a takeover the comment is posted
  again. The sync itself never takes a record back (theorem `RecordStays`).

Further behaviours were met while modelling. Those of the first group contradict what
is written, but have no run of their own.

* *Clients.* The guard promises to withdraw a queued request at once. If the request
  is granted between the reply and the withdrawal, the withdrawal, which names no
  lease, fails; the error is swallowed, and the refused operation holds the device
  until the lease expires; nobody prolongs it (`RenewedByItsOperator`). A request evicts the lease of another request of the same
  story though its holder is operating; the vehicle routes use one story id for all
  their operations, so two of them run at once.
* *Device proxy.* A change of the binding is checked against the lease first and
  written later without a second look, so the binding can change under a lease that
  was granted in between, though the user is told to stop the task first. The checks
  of the proxy notice it, except when it is bound back before they look. The proxy
  renews with the lifetime it read before, so it may restore a longer lifetime than
  the turn has chosen since, though a comment says it never broadens a lease.
* *Teambition.* If the owner of a sync dies between a confirmed step and the next one,
  every other gateway is refused with `TB_SYNC_OPERATION_PENDING`, for ever, though a
  comment says that a retry only continues the steps not confirmed.

Those of the second contradict no text, but the models show them, and some properties
have exceptions for them:

* *Device proxy.* Repeats of an action under one lease have the same operation id.
* *Teambition.* A manual change of phase drops `tbSyncPending` (except one to
  `sync_pending`, which may be chosen with no payload to sync) but keeps the operation,
  so another payload conflicts for ever; a sync under way overrides the phase. A person
  may choose `testable` or `rejected` with nothing on Teambition. An attachment that is
  changed or lost ends every retry before the reservation. A
  takeover does not restore `tbSyncPending`. A write that is on record as begun and was
  never made stays ambiguous for ever (by design). A late status request may land
  after the completion. A stale payload may be reserved anew after a later one.
* *Mirror.* An operation that was interrupted before its publication blocks every
  later start if others have moved the baseline, or if its cleanup has failed once.
  If the controller dies between the two transactions of `journal.succeed`, the next
  start fails and the one after it succeeds. A Git command that creates the history
  ref but reports a failure leaves a ref that nobody removes; another candidate of
  that generation is then refused as `RETENTION_DRIFT`. The branch that rolls the swap
  back is unreachable under the lease.
* *Workflow runs.* A run is resolved, and its row written, when the scheduler has seen
  all tasks end; a review that is still going on may fail its step after the row says
  `completed`. A step whose last review fails is `failed`, and a step that waits for it
  and for another one is then never started: the row says `running` for ever. So it
  does after a failed task, which pauses the graph (a workflow has no route to retry
  it), and after an abort that leaves a step unstarted or interrupted, for then nothing
  resolves or rejects the run. A step that is sent back, fails and then passes its
  review is completed, but its failure has paused the graph for good. If the task of
  the inspector fails, nobody handles the rejection, which ends the gateway's process;
  no run is looked at when it starts again.

## 7. Plan

1. *Done*: the coordinator, its clients, the device proxy; the repository lease; the
   mirror and its journal; the saga of Teambition; the scheduler of task graphs and
   workflow runs; their proofs, and four refinements.
2. *Left*: the controlled-operation journal (`controlled-operation-journal.js`), which
   replays recorded receipts; base synchronisation, which applies the accepted commit of
   `MirrorLine`; the queue of several messages of a story and idempotent sending; the
   exchange of stories in the local network; the task graphs of the chat over
   `DagScheduler`, with retry, stop and summary (a session may have several schedulers,
   and a retry or stop finds the first).
