# gpt-relay in TLA+

A verification project for the `gpt-relay` runtime: a local service that turns task
files, Git changes, GitHub webhooks and schedules into durable jobs, drives an
executor (Codex, Claude) through attempts, asks a decision model what to do next,
and stops for a human when it must. Everything durable is in one SQLite database;
what makes the system hard is that any process may die, stall or be restarted
between any two statements, and that operators, webhooks and several services write
the same tables.

Run a check with `tlc -config X.cfg M`, the module of each configuration being named
in `PROJECT.json`, and a proof with `tlapm M.tla` for the eight modules
`RuntimeServiceProofs`, `WorkflowDaemonProofs`, `OneWorkerProofs`,
`RelayOutboxProofs`, `RemoteRunnerProofs`, `ExecutorRunProofs`,
`AgentWorkflowProofs` and `PrimitivesProofs`. `PROJECT.json` lists the runs, the
definitions with the source lines they model, the hazards, and faulty variants each
property must notice.

## 1. The system

| Component | State | Operations | What makes it correct |
|---|---|---|---|
| Job queue and service lease (`lib/runtime/service.mjs`, `sqlite-store.mjs`) | `runtime_jobs`, `daemon_leases`; the flags of a running cycle | enqueue, claim, heartbeat, complete, fail, close, start | one worker counts on a job at a time; a job is settled once, by its holder; every job is settled; a rerun knows it is one |
| Event route and job handler (`production-runtime.mjs`) | reads workflows, enqueues jobs | route an event, handle a job of each type | no side effect repeated blindly after a crash; terminal workflows stay so |
| `WorkflowDaemon` (`daemon.mjs`) | `workflows`, `attempts`, `sessions`, `attention`; locals of `#execute` | run, resume, the decision loop | attempts bounded across crashes; authority only from a named grant; a stop can always be answered |
| Operator commands (`bin/gpt-relay.mjs`) | `attention`, `runtime_jobs` | reply, approve, deny, resume | an answer gets the workflow going, once |
| Session registry, process supervisor | `sessions`, pids | reconcile, markLost | a dead executor is noticed, a moved-on workflow left alone |
| Relay pipeline, observers, webhook ingress (`lib/relay/`) | `events`, `cursors`, `external_deliveries` | accept, drain, scan, receive | nothing accepted is lost, or routed twice with effect |
| Remote runner queue (`remote-runner.mjs`) | `remote_runner_jobs` | dispatch, claim, heartbeat, submit | only the worker that leased a job last completes it |
| Scheduler (`scheduler-service.mjs`, `production-runtime.mjs`) | `schedules`, `schedule_occurrences` | upsert, tick, host cycle | no due time is skipped, each occurrence becomes one job |
| Workflow graph (`workflow-graph.mjs`) | `workflow_nodes` | create, ready, complete | a node runs after its dependencies; an accepted plan can be run to its end |
| Notifier (`notifier.mjs`) | `notification_deliveries` | enqueue, drain | delivered at least once, and resent only for a cause |
| Result contracts (`result-contract-service.mjs`) | result files, temporary files | write | a result is written once, and the answer says which |
| Executors and the isolated copy (`lib/executors/`) | the run's state, the source tree, the copy, the child | launch, cancel, collectResult; prepare, finalize, rollback | only the work of a run that passed, inside its scope, reaches the source; all of it or nothing, unless the rollback fails too; nobody's edit lost |
| Watch server (`watch-server.mjs`) | the cursor of each stream | poll, write, reconnect | events in order, none twice, a gap only after a burst |
| `agent-workflow` CLI (`bin/agent-workflow.mjs`, `validator/`) | manifest, managed files, `ACTIVE` task, companion, results | install, uninstall, task create, task resume, status, doctor, handoff | uninstall undoes install; one active task; a handed-off result is of this very task document |
| Contracts, decisions, capability gap | none | pure functions | what they accept |
| Decision provider, classifier, configuration, doctor | HTTP, files | I/O | - |

How they interact: the pipeline's route and the scheduler and operator commands only
insert jobs. A service cycle is reconcile, drain, claim one job, run its handler
with a heartbeat timer, settle. The handler calls the daemon; the daemon calls an
executor adapter and the decision provider, both awaited, and writes rows with plain
upserts that carry no owner. Attention rows are the only way back from a human,
through `respondToAttention`, which resolves a row and inserts a job in one
transaction.

The hard behaviours are: a lease that runs out during an await; a worker that comes
back after it was replaced; a crash between two rows that belong together; a job run
again after a crash, by a handler that must tell what already happened from the
rows; operator commands racing on one Attention; a late answer meeting a workflow
that moved on; events delivered twice, late or after a restart; ticks and drains of
several hosts that overlap, because the service lease is taken only later in the
cycle; a source tree that people and other runs change while a run is brought back;
a command killed between the files it writes.

## 2. Modules

| Module | Models | Theorems in |
|---|---|---|
| `RuntimeService` | service loop over the job and lease tables, with time | `RuntimeServiceProofs` |
| `JobLedger` | what the queue promises, abstractly | implemented by `RuntimeService` and assumed by `WorkflowDaemon`, both proved |
| `WorkflowDaemon` | one workflow: handler, daemon, operator, executors, crashes | `WorkflowDaemonProofs`, `OneWorkerProofs` |
| `RelayOutbox` | events from files and webhooks to jobs; cursors; the drain | `RelayOutboxProofs` |
| `Outbox` | what the relay promises of an event, abstractly | implemented by `RelayOutbox`, proved |
| `AgentWorkflow` | the CLI over the files of a target repository, its operators and executors | `AgentWorkflowProofs` |
| `ExecutorRun` | a dispatch to a CLI executor, and its isolated copy | `ExecutorRunProofs` |
| `RemoteRunner` | the queue of remote runners | `RemoteRunnerProofs` |
| `Schedules` | schedules, occurrences, and their jobs | `PrimitivesProofs` |
| `Notifications` | deliveries of Attentions | `PrimitivesProofs` |
| `WorkflowGraph` | the nodes of one run | `PrimitivesProofs` |
| `WatchStream` | the event stream of one client | `PrimitivesProofs` |
| `ResultContract` | publication of a result file | `PrimitivesProofs` |
| `RuntimePrimitives` | `RemoteRunner` and the five modules after it, side by side | `PrimitivesProofs` |
| `MCRuntimeService`, `MCWorkflowDaemon`, `MCRelayOutbox`, `MCAgentWorkflow`, `MCExecutorRun`, `MCRuntimePrimitives` | constants and symmetry for TLC | - |

`JobLedger` joins the two: `RuntimeService` implements it (checked, and proved for
all constants), and `WorkflowDaemon` assumes no more than it (`QueueSpec`, checked
and proved). So `WorkflowDaemon` does not repeat leases and ticks, and nothing it
assumes of the queue is left unshown.

### RuntimeService

One process per owner id. Owner ids are random UUIDs, so a restart is a new owner;
an id no row mentions is as good as a new one, which `Start` requires. Each SQL
statement is one action. `ClaimNext` and `ReadClaimed` are separate because
`claimNextJob` reads the row back after its COMMIT; `BeatService` and `BeatJob`
because the heartbeat renews the two leases in two statements; `Complete` and
`Confirm` because `completeJob` reads the status back, and throws into the `catch`
that calls `failJob`.

Time is ticks. `left` and `lease.left` are what a lease has left; `svcFresh` and
`jobFresh` are what its holder, by its own last renewal, still counts on. A process
that is not stalled reaches its next statement before a lease it counts on runs out
(`Timely`); a stalled one may miss any deadline. Stalls stand for a blocked event
loop, a suspended host, and the awaits of reconcile and drainPending, which no
heartbeat covers. `attempts` saturates at 2, as only "more than one" is ever asked.
`failJob`'s retry option is unused in the repository and left out. One exception to
a statement being an action: `Close` and `LoseLease` requeue the owner's jobs and
release the service lease together (`service.mjs:118-122`). The two run one after
the other without an await; what differs is a death between them, after which the
jobs are PENDING and the lease runs out by itself, as after `Crash`.

### WorkflowDaemon

One workflow, any number of workers. Durable rows: `job`, `wf` (state and
checkpoint), `attempt`, `session`, `att`. `loc` holds the locals of one `#execute`;
a crash clears it and keeps the rows. A step runs up to the next await. Rows a block
writes together with the workflow row (session and attempt) are one step with it;
`createAttention` and the `saveWorkflow` after it are two, so that a crash may fall
between a question and the state that waits for it.

Decisions and results are chosen freely: the model may answer anything the schema
allows, the executor may do anything an adapter reports, including failing while its
process lives on (`ExecutorFails`) or outliving its service (`Crash`,
`OrphanExits`).

Abstractions, each with what it stands for:
* `task.created` also stands for `task.resumed`, which the handler treats alike.
* PARTIAL and BLOCKED results count as FAIL: the loop only asks for PASS.
* A session row is running or not; READY and LOST differ only for display.
* A resumed session keeps its id (the Codex adapter checks the thread id).
* A SECURITY Attention, and an Attention of a decision, have no authorization:
  `None`. A SECURITY Attention can only be denied (`gpt-relay.mjs:518`).
* Which of several claimable jobs is claimed is open; `RuntimeService` has the
  order.
* A store statement that fails is not modelled.
* `approval.denied`, `human.replied` and the rest carry no text.

### RelayOutbox

Processes of two kinds share the `events` table: hosts (`RuntimeHost.runOnce`: scan
every source, then drain the pending events of every workflow that has a row) and
webhook requests. `pc` is how far a process is with its event: `append`, `route`,
`mark`, then `cursor` (a scan), `record` (a request) or the rest of the drain. Each
is a statement or an await of its own in `accept`, `scanOnce` and `drainPending`,
and a process may die between any two. `event` keeps what later steps depend on: the
sequence number, and the path, which stands for the payload and idempotency key that
decide between duplicate and collision.

Abstractions:
* Reading a file, hashing it and comparing with the cursor are one step (`Look`,
  `PassBy`): a cursor only another scan of the same path can change.
* A path stands for a watched file or a repository; `Silent` holds what the route
  makes nothing of (`git.changed`, other GitHub events). A contract that does not
  parse is no content; it leaves the cursor alone, as a failing route does.
* One delivery id has one body. A second body under a used id is answered 409 and
  changes nothing.
* The limit of 100 on a drain's list is left out; it delays events to a later cycle.
* `Work` is what `WorkflowDaemon` does to the workflow row: a job makes or moves it.
* Executor events reach the pipeline with a session and a generation, and a route of
  their own; they, the trace lane and artifacts are not modelled yet.

### AgentWorkflow

Commands of several operators, and the executors that work on the ACTIVE task, share
the files of one repository; nothing locks them. A command is one action that reads
and checks, then one for each file it writes, so that a kill or another command may
come between any two. A command that refuses writes nothing and has no action.
`files`, `dirs` and `manifest` are the target, `task`, `companion` and `results` the
task documents; a document is a record of id, attempt, stamp and commit, and the
stamp is what makes it new. `commits` holds the documents each commit contains,
which is what the handoff asks of Git. `overlap` and `died` say whether two commands
ran at once or one was killed: what one operator at a time may rely on is stated
under them.

Executors and people are external: an executor reads the task, works from a commit,
publishes a stamped result and validates the handoff, whose check is code of this
repository. Left out: temporary files (named by pid, read by nobody), `task resume
--source-commit`, which pins another commit, project detection, option parsing.

### ExecutorRun

Each run goes from `#launch` to `collectResult` of its adapter (`phase`, with what
the child said in `Outputs`). `prepare` takes the manifest of the source and then
copies it, two actions between which the source may change; the child edits its
copy; `finalize` compares all the changed paths, then takes the allowed ones in path
order through compare, backup and replace, each an action of its own, and on failure
rolls back what it had compared. Runs of several host processes, people's edits,
failing accesses and deaths of a host fall between any two of these. `base` is the
manifest, `late` the paths somebody wrote after a run had compared them.

Any access may fail: of a comparison or a backup (`ReadFails`), of a replacement,
before the old file is removed, after, or after the rename (`ReplaceFails`), of the
rollback (`UndoFails`), of the cleanup (`FinalizeFails`). A finalize that throws
therefore ends in one of three ways: `threw`, with all undone; `kept`, with all
applied, when only the copy could not be removed; `torn`, when the rollback itself
failed and nobody undoes the rest. A replacement (check, remove, rename) is one step
when nothing fails in it. A link that appears at a path after the comparison is read
through by the backup, to a file of its maker or to nothing, and makes a replacement
fail, but not a deletion, which does not look again.

The path policy (globs, secrets, protected and destructive paths) is the parameters
`Hidden`, `Allowed`, `Forbidden`, `Destructive`: pure matching over names decides
membership, and nothing here depends on how. A content is nothing, the old file, a
person's, a link, or a run's.

### The runtime primitives

`Schedules`, `Notifications`, `RemoteRunner`, `WorkflowGraph`, `WatchStream` and
`ResultContract` share no state. Each has a specification of its own;
`RuntimePrimitives` puts them in one run in which a behaviour moves one of them,
`part`, chosen at the start, and their properties name only variables of their own
module.

* `Schedules`: `ScheduleEngine.tick` and the loop of `RuntimeHost.runOnce` that
  makes jobs of what it emits. A tick lists the due rows once and then takes each
  row through insert and advance, two statements; several hosts do so at once, and
  an operator may add a schedule again.
* `Notifications`: a drain reads the oldest PENDING rows, sends each and marks it.
  Hosts drain at the same time, and die between send and mark. A transport accepts
  everything or, if `Broken`, nothing; the code retries for ever.
* `RemoteRunner`: claim is three statements, a select, a guarded UPDATE and a read
  of the row, so that another worker's claim may come between; renew and submit
  check token and generation. Workers may share a runner id, as a runner and its
  restart do. Time is a counter.
* `WorkflowGraph`: `create` checks the whole plan and saves it node by node, while
  `complete` reads a row and upserts it. The recursive `visit` that looks for a cycle
  is modelled call by call: `visit.stack` holds the calls under way, `visiting` and
  `visited` are the code's two sets, `roots` and `left` what its loops have still to
  go through, in any order. The process is single-threaded, but other processes
  complete nodes meanwhile. TLC tries every plan over three nodes (the acyclic ones
  up to their nodes' names), cyclic and dangling ones too, and creates a run again
  with the plan a create died on or with another one (`Replans`). Creates of one run
  by two processes at once are left out.
* `WatchStream`: a poll writes the rows after the cursor among the newest
  `maxEvents`; a broken connection loses what is under way, and the client returns
  with the last id it got. `burst` records what lay between the cursor and the
  window, by the numbers alone, whatever the lookup of the cursor then yields: a slip
  of the lookup is a gap without that excuse.
* `ResultContract`: a temporary file, a link that fails if the path exists, a
  comparison with what is there; writers die between any two.

## 3. Runs

| Run | Bounds | Shows |
|---|---|---|
| `RuntimeService` | 3 owners, 2 jobs, TTL 2, 1 fault | types, both leases exclusive, no forgotten job, reruns flagged, refinement of `JobLedger`, every job is settled |
| `WorkflowDaemon_recovery` | 1 worker, 1 command, 2 crashes, 2 attempts, 2 actions, 2 answered Attentions | budget, no blind redispatch, every stop answerable, an answer gets the workflow going |
| `WorkflowDaemon_answers` | 2 commands at a time, a GitHub event, a chosen key, no crash | authority only from named grants |
| `WorkflowDaemon_stalls` | 2 workers, a schedule, a grant that lapses under a living worker | the job table is used as `JobLedger` allows |
| `WorkflowDaemon_continuation` (violated) | 1 worker, 3 attempts, 1 crash | a finding of section 5 |
| `WorkflowDaemon_approval` (violated) | 1 worker, no crash | a finding of section 5 |
| `RelayOutbox_safety` | 2 hosts, 1 request, 2 paths, 1 revision, 1 delivery, 2 edits, 1 fault, hosts symmetric | types, routed tasks have jobs, cursors hide nothing, answers are honest, drains keep order, refinement of `Outbox` |
| `RelayOutbox_live` | 2 hosts, 1 path, 2 revisions, 3 edits, 1 fault | a task file that stays gets its job |
| `RelayOutbox_replay` (violated) | 1 host, 2 paths, 1 revision, 3 edits, 1 fault | a finding of section 5 |
| `AgentWorkflow` | 2 operators, symmetric, 1 executor, 2 managed files, 1 id, 2 documents, attempts and commits, 1 kill | uninstall restores, an ACTIVE task is whole, handoffs are fresh, one active task |
| `ExecutorRun` | a Codex and a Claude run, 2 paths, 1 edit, 1 fault | finalize is all or nothing unless its rollback fails too, only due work in the source, others' changes kept |
| `RuntimePrimitives` | 2 hosts, 2 schedules (every 1 and 2), time 3, 1 upsert, 1 death; 2 Attentions by 2 transports, one broken, drain limit 3, 1 death; 3 workers, two under one id, 1 job, TTL 1, time 3, 4 tokens; 3 nodes, all plans, 2 runners, 2 creates; window 3, 6 events, 2 breaks; 3 writers, 2 contents | occurrences kept, sends counted, a notification arrives, results fenced and leases respected, plans run to their end behind their barrier, streams faithful, answers of a result write true |

Why the bounds are enough to be interesting. Three owners let a worker be replaced
while it lives on, and a third take over in turn; one fault lets a stalled worker
come back while a second one works; two jobs let an owner drop one job and take
another; a TTL of 2 gives a renewal a moment at which it can be late. With two
attempts the budget can be used up by a run, a crash and a resume together, and two
crashes let a recovery be recovered; two answered Attentions let a question and its
successor coexist; two commands race on one Attention. In `RelayOutbox` two paths
with equal contents collide, two hosts and a request carry one event at once, and
one fault leaves an event at any stage for the others to find. In `AgentWorkflow`
one id is used again after its task ended, with a late executor of the first, and a
kill may leave any prefix of a command's files. In `ExecutorRun` two runs want the
same two files, and the second path can fail or be edited when the first is already
applied. In `RuntimePrimitives` the drain limit exceeds the two rows of the broken
transport by one (with a limit of two, section 5, the property is false), three
workers let a lease pass on twice and the first holder's call arrive last, the
window of the watch is smaller than a burst, and large enough to hold the cursor
with two events after it, so that a lookup that skips one is seen. What the proofs
cover does not depend on these bounds.

What the properties leave open, besides the exceptions they name: `AnswerWakes` and
`WaitIsAnswerable` are about default idempotency keys; `QueueSpec` is about the job
table, and nothing fences the workflow and session rows, which a stalled worker may
overwrite; `OneActiveTask` and `ActiveIsWhole` are about commands that do not
overlap, so that the race of two between check and rename is not covered;
`BarrierHeld` says nothing of a second result itself, nor of nodes behind one.

Deadlock: in `RuntimeService` time always passes; in `WorkflowDaemon` an idle
service always polls, and in `RelayOutbox` a host always cycles, so these runs keep
the check. `AgentWorkflow`, `ExecutorRun` and `RuntimePrimitives` turn it off:
operators may have nothing left to do, a dispatch ends, and clocks, tokens, events
and creates stop at their bounds.

Fairness. `RuntimeService`: time passes; a process that is not stalled takes its
next step (an event loop runs its callbacks); somebody starts a service when none is
up (the documentation runs it under a supervisor); `onJob` returns in the end
however often the timer interrupts the wait, which takes strong fairness, as the
handler is disabled during each heartbeat. A handler that never returns is outside
this claim: the service has no timeout of its own for one. `WorkflowDaemon`: a
worker takes its next step, a dead worker's lease lapses, and an operator command
that began finishes. `RelayOutbox`: a host keeps cycling and a request is served; no
edit, delivery or fault is assumed. `Notifications`: each host's dispatcher takes
its next step (the host cycles, and a failing transport throws, which the drain
survives). Nobody is assumed to answer a question, and no event, schedule or crash
is assumed to occur.

## 4. Proofs

`RuntimeServiceProofs` proves for all owners, jobs, TTLs and fault bounds, from the
assumptions named in `RuntimeService` (`JobsAssumption`, `TtlAssumption`,
`NoneAssumption`): `TypeCorrect`, `WorkersExclusive`, `ServicesExclusive`,
`NothingForgotten`, `RerunsFlagged`, `ServiceImplementsLedger` and
`UndisturbedServicesAlone`.

The invariant behind them. That two workers never count on one lease is not
inductive: what a process believes has to agree with the row. `FreshInv` says a
process with ticks left is named by the row with at exactly those ticks, so two
believers would need two names in one row. It needs `RowInv` (a RUNNING row has an
owner, and only a RUNNING row has time left) for a claim to find no believer, and
`CycleInv` (a process has a job exactly between claim and the end of its cycle).
`NoForgottenJob` closes the remaining hole: a row that names a live process names
what it works on. `AttemptInv` relates the count of the row to the number its
handlers were given: two processes in one job mean at least two claims. The
refinement shows each step is a ledger step or a stutter; completion without
ownership is a stutter, which is where a stale worker's late report ends.
`UndisturbedServicesAlone` is about behaviours in which no process stalls or is
closed within a cycle, while any may die: by `InTimeInv` a process that is up then
always counts on its leases, so only one is up, and its handler's job is its own.

`RelayOutboxProofs` proves for all hosts, requests, paths, events, workflows and
bounds, from `ActorAssumption`, `EventAssumption`, `PathAssumption` and
`BoundAssumption`: `TypeCorrect`, `RoutedTasksHaveJobs`, `CursorsCover`,
`AnsweredAreRouted`, `DrainsKeepOrder` and `RelayImplementsOutbox`. The tables alone
are not inductive: what a process is about to write must already be right.
`StageInv` ties each stage to the tables (`route` to a stored event, `mark` to a
delivered one). `ReachInv` says whoever goes on to a cursor or an answer has an
event that is routed, or that collided with one stored from another path;
`SourceInv` excludes the collision for a request. `QueueInv` says a pending event
comes after everything a drain holds unless the drain holds it too, for which new
sequence numbers must exceed all old ones.

`WorkflowDaemonProofs` proves for any number of workers, stalls, crashes, commands
and schedules, from `BudgetAssumption`, `CountAssumption` and
`DaemonNoneAssumption`: `RowsTypeCorrect`, `AuthorityNamed` and `DaemonUsesLedger`.
`IInv` is the types with `BusyInv` (who is busy has a job), `LoopInv` (what a worker
in the loop knows) and `CommandInv` (what a command between its read and its write
knows). Authority rests on `AuthInv`: every authorization in the checkpoint, and
every one in a worker's locals, has a granted Attention that names it. The
refinement needs `HolderInv`: a row names a holder exactly while it is RUNNING, so
that a claim finds a row without one, or one whose grant has lapsed.

`OneWorkerProofs` proves the other three invariants for one worker at a time, a
hypothesis of the theorems, which is what `UndisturbedServicesAlone` gives as long as
nobody stalls or closes a service within a cycle:
* `BudgetKeptByOne` (`OneWorker`): by `BudgetInv` a launch is counted in the row
  before it happens, and the worker counts from the row. A stalled worker beside its
  replacement breaks it: both count from the same number.
* `NoRedispatchByOne` (`OnlyOneTask`: one worker, one task, no schedule): a launch
  of the task's job is `Traced`: the row tells of it, no other claim launched, and a
  worker that has the job either made the launch or has yet to look at the row
  (`BlindInv`, with `JobKinds` and `WorkInv`). A second task file of the same
  workflow or a scheduled run may start it over in between.
* `WaitsAreAnswerable` (`DefaultKeys`: one worker, no chosen key): an Attention is
  answered exactly when its job exists, and the job carries the answer (`AskedInv`);
  a workflow is parked on its newest question, and stays in the state of that
  question until the job of its answer has run (`WaitInv`). An operator who uses one
  idempotency key for two answers closes the second Attention without a job.

`RemoteRunnerProofs` proves for all workers, runner ids, jobs, TTLs and bounds, from
`RunnerTimeAssumption` and `RunnerAssumption`: `RunnerTypeCorrect`, `ResultsFenced`,
`LeasesRespected` (from `ResultsFinal` and `LeasesNotStolen`) and, under
`UniqueRunners`, `HoldersReport`: without a shared runner id the exception of
`ResultFenced` never occurs. The core of `RunnerInv` is `TicketInv`: a ticket with
the generation of the row, under the row's runner id, is the last lessee's, or of a
worker in `overtaken`, whose claim read back another's lease under its own id.
`HolderInv` and `CallInv` carry it through the statements of a call, `ReportInv`
past the last one.

`ExecutorRunProofs` proves for all runs, paths, scopes, outputs and bounds, from
`ExecutorRunAssumption`: `RunsTypeCorrect`, `DueWorkOnly`, `FinalizeAllOrNothing`
and `ForeignChangesKept`. `ScopeInv` says what a run applies is in its scope
(`DueInv`), that it applies only after its pass (`StageInv`), and that a run's work
found in the source, or in another run's backups, from where a rollback puts it
back, is of a run that passed (`LegitInv`). `KnownInv` says, at each stage of
finalize, what a path that nobody else wrote holds: what the run found, what it
wrote, or, with a rollback under way and not there yet, either of these or nothing.
Of a rollback that failed the same remains: `left` names what it had not put back.

`AgentWorkflowProofs` proves for all operators, executors, plans, ids and bounds,
from `AgentWorkflowAssumption`, `FoundAssumption` and `NoneAssumption`:
`FilesTypeCorrect`, `HandoffsFresh`, `UninstallRestores`, `ActiveTasksWhole` and
`ActiveTasksReplaced`. `FreshInv`: every stamp in use is an earlier one, so that a
new document is new (`Stamped`); a document on its way to ACTIVE is in no commit and
is no other operator's (`Unwritten`); and work or a result whose source commit holds
the ACTIVE document is work on that document (`WorkTells`, `ResultsTell`). Without
the first two, a document could be written that an older commit already holds.

The other three are about one command at a time, killed anywhere but where the
property excepts it (`TargetInv`). Its
files are the plan up to where it has come: an install fills it from the start, an
uninstall empties it from the start, the marker first, so that the marker alone tells
whether the rest is there (`FilesInv`); a directory that was not there before is
listed by the manifest or by the command that makes it (`DirsInv`). `LineInv` and
`CompanionInv` carry what a command's first step checked to its writes: a create
found no task, a resume writes the next attempt of the task it found, and the
companion of a task is its own unless its command is still between the two files.

`PrimitivesProofs` proves, for all hosts, writers, schedules, transports, plans and
bounds, from the assumption each module names (`ScheduleAssumption`,
`NotifyAssumption`, `PlanAssumption`, `WatchAssumption`, `ResultAssumption`), a
theorem of each component's own specification:
* `ScheduleOccurrencesKept`. `ScheduleInv`: every next_at, in the table or in a row
  a tick read before, is a multiple of the interval with all smaller ones on record
  (`InTime`). The rows in hand must be included, as a late tick writes from them; an
  added schedule leaves the claim (`upserted`). `Multiples` is the arithmetic.
* `NotifySendsCounted`. How often a notification was sent is not bounded by the
  tables alone: `CountInv` weighs it against the hosts that have it in hand. A
  PENDING one was sent at most once for each host that is about to mark it and each
  that died so (`Marking`); when the first mark lands, `Holding` hosts may still send
  it, and no host lists it again. `HandsInv` says what is in hand has a row, and that
  who marks has sent. The cardinalities need finitely many hosts.
* `GraphPlansRunToTheEnd`. The depth-first visit is proved correct by `VisitInv`: the
  calls under way are a path of dependencies (`PathInv`), what is visited is closed
  under dependency and founded, every set in it having a node that depends on none of
  the set (`VisitedInv`). A visit that meets a node in progress closes the path to a
  set without such a node, a cycle; one that ends adds its node to the founded set.
  `JudgedInv` keeps the verdict, and an accepted plan being founded has a ready node
  among those that are left.
* `GraphBarrierHeld`. `ClearedInv` extends the barrier to nodes a runner took and rows
  it read: their dependencies passed, or were written over since.
* `WatchStreamFaithful`. `WatchInv`: what the client has and what is under way rise,
  the server's cursor is the last of them, and what neither holds was in a burst.
  `PollWrites` says what `AfterCursor` yields of a window, the cursor in it or not.
* `ResultAnswersTrue`. `ResultInv`: a writer that has an answer can no longer link,
  and one that compares has seen a file, so the content at the path never changes
  once there.

Its last section shows that a step of `RuntimePrimitives` is a step of one component
and a stutter of each other one, and with `RemoteRunnerProofs` concludes
`PrimitivesTypeCorrect` and `PrimitivesKept`, all of the above for the composition.
TLC checked `GraphInv` and `NotifyInv` on the bounds of the run before they were
proved.

Each lemma preserves one part of an invariant, one step per action. With these,
every invariant and every action property of the passing runs, and both refinements,
are proved, those of `OneWorkerProofs` under their hypotheses. What is only
model-checked is liveness (`JobsSettle`, `AnswerWakes`, `FileDispatched`,
`NotificationArrives`), which, like ENABLED, the prover does not reach. Induction
over data is beyond its backends too; the one recursive function of the code that
matters, `visit`, is a transition system here and needs none.

## 5. Findings

Each is a violation run whose property quotes a document or test of the repository;
`PROJECT.json` quotes the line.

* `OneContinuation`: a resume job whose worker died after the workflow stopped again
  answers the next question with the earlier reply (`production-runtime.mjs:118`).
* `ApprovalResumes`: granting an approval that a decision asked for never resumes the
  workflow. Its Attention is created without an authorization (`daemon.mjs:460`),
  which `resume` demands (`daemon.mjs:110`): the job of the grant fails, and the
  workflow stays parked with its Attention resolved.
* `PendingReplayed`: a task stored from one path whose route failed is lost when its
  file is next found at another path: the drain has no workflow row to go by, the
  new scan collides with the stored event and advances its cursor (`service.mjs:55`,
  `observer.mjs:62`). `FileDispatched`, with one path, shows that a scan of the same
  path does bring it back.

Seen with TLC on the same modules, each one a behaviour the code permits, so that no
property here says otherwise, or one does that names the exception:
* a job can be claimed by a service whose lease ran out while it awaited reconcile
  or drainPending (`service.mjs:64`); the job's own lease still excludes a second
  worker;
* a crash right after `resume` saved RUNNING leaves the workflow RUNNING with
  neither job nor session (`daemon.mjs:97`);
* a GitHub event resumes a workflow that recovery paused because its executor may
  still run (`production-runtime.mjs:28`);
* denying an old Attention fails a COMPLETED workflow
  (`production-runtime.mjs:125`);
* `accept` routes a new event past a pending earlier one of its workflow
  (`pipeline.mjs:77`); only a drain keeps the order;
* an occurrence whose host dies between its insert and its job is lost, as the next
  tick finds the row and emits nothing (`sqlite-store.mjs:849`); it is `lost` in
  `OccurrencesKept`;
* a tick that advances a schedule late can undo a `schedule add` of the meantime
  (`scheduler-service.mjs:17`);
* as many undeliverable notifications as a drain's limit, all older, keep every
  later one from being sent (`notifier.mjs:30`);
* a claim reads back the row by runner id, so that a stalled runner can be handed
  the ticket of its own restart (`remote-runner.mjs:30`): `overtaken`;
* a node completed twice, or a run created again, writes over results that later
  nodes started from (`workflow-graph.mjs:50`): `rewritten`;
* a burst of more events than the window leaves a gap in the stream without a
  notice, as event rows carry no `sequence` to tell it by (`watch-server.mjs:22`):
  `burst`;
* a result contract rebuilt by the rerun of a crashed job differs in its instant and
  conflicts with its own first version (`daemon.mjs:424`);
* a host that dies inside finalize, or a rollback an access of which fails, leaves
  part of a run's changes in the source, or a file removed and not put back
  (`isolated-copy-boundary.mjs:208`): `torn` in `AllOrNothing`;
* a copy that cannot be removed makes a finalize throw that had applied everything
  (`isolated-copy-boundary.mjs:230`): the work of a run reported as failed is then in
  the source (`daemon.mjs:325`): `kept` in `AllOrNothing`;
* an install killed before its manifest leaves files that no uninstall removes, and
  two task creates at once overwrite one another (`agent-workflow.mjs:164`, `:370`);
* an operator key used for two answers closes the second Attention without a job
  (`sqlite-store.mjs:411`).

Met while reading, and not stated as properties: a decision call that fails leaves
the workflow VERIFYING without an Attention (`daemon.mjs:404-426`); `workflow
resume` uses one job id per workflow, so that a second resume without a key is
ignored (`gpt-relay.mjs:225`); `markLost` saves FAILED before its Attention
(`session-registry.mjs:58-66`); `scheduled.task` runs again after a crash without
the recovery path (`production-runtime.mjs:107`); Claude's `cancel` sets no flag, so
that a child that completed all the same may still pass (`claude.mjs:205`), where
Codex's would not.

## 6. Not modelled, and the plan

Done: the job queue, the daemon, the relay's control events, the runtime primitives,
executors with their isolated copy, result contracts, the `agent-workflow` CLI;
proofs as in section 4. Next, in order:
1. `RelayOutbox`: executor events, with the trace lane, the generation fence and
   artifacts spilled to files.
2. `WorkflowDaemon`: `markLost` as its three statements, and the composition with
   `RuntimeService` itself, which would say how much stalling `OneWorker` leaves out
   (`UndisturbedServicesAlone` says when it leaves out none).
3. Pure operators for contracts, decisions, path policy and the capability gap,
   against reference definitions. Until then they are parameters or free choices.

Left out for good: `lib/workflow/scheduler.mjs`, which only a test uses; schema
creation, row decoding and redaction of the store; listing commands and set-up of
`gpt-relay`.

Out of reach or without state of their own: process spawning and stream parsing of
the executors, the HTTP of the decision provider, the watch server's snapshot pages,
the semantic classifier, configuration loading, doctor. `WorkflowDaemon` takes their
possible outcomes as free choices.
