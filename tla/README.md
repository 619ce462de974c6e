# carvis in TLA+

carvis lets a Feishu chat drive the Codex command line in a workspace on the
operator's machine.  A *gateway* process receives the messages, an *executor*
process runs Codex, Postgres and Redis are all they share.  This directory
holds TLA+ models of that system translated from its TypeScript source, the TLC
configurations that check them on small instances, and TLAPS proofs about the
models for every instance.

Paths below are relative to the root of the repository.

## 1. The system

### 1.1 Components, their state and their operations

| component | source | state it keeps | operations |
| --- | --- | --- | --- |
| run store | `packages/core/src/storage/repositories.ts` | `agent_runs` rows: status, `cancel_requested_at`, timestamps, `queue_position` | `createQueuedRun`, `markRunStarted/Completed/Failed/Cancelled`, `markCancelRequested`, `findActiveRunBySession/ByWorkspace`; every UPDATE names only the id |
| run queue | `packages/core/src/runtime/queue.ts` | one Redis list per workspace | RPUSH, LPOP, KEYS |
| workspace lock | `…/runtime/workspace-lock.ts` | one Redis key per workspace, 30 s | SET NX then PEXPIRE; GET, compare, DEL |
| heartbeat | `…/runtime/heartbeat.ts` | one Redis key per run, 30 s | PSETEX, DEL, scan for expired |
| cancel signal | `…/runtime/cancel-signal.ts` | one Redis key per run | SET, GET, DEL |
| executor loop and run consumer | `apps/executor/src/index.ts`, `run-consumer.ts` | the ticks outstanding | `tick` from `setInterval`, `processNext` |
| run controller | `apps/executor/src/run-controller.ts` | per run: the cancel watcher, the attempt, the outcome | `execute`: attempt, retry once on `session_invalid`, persist, report, catch, finally |
| Codex bridge and transport | `packages/bridge-codex/src/bridge.ts`, `cli-transport.ts` | map of abort controllers, child processes | `startRun`, `cancelRun`, spawn, SIGTERM |
| submission | `apps/gateway/src/bootstrap.ts` (`onEnvelope`) | none of its own | resolve the workspace, INSERT the run, RPUSH, publish `run.queued` |
| `/abort` | `apps/gateway/src/commands/abort.ts` | none | find, mark, signal |
| reaper | `apps/gateway/src/services/run-reaper.ts` | the sweeps outstanding | scan, inspect, fail, signal, clear, release |
| chat sessions | `commands/new.ts`, `bind.ts`, `mode.ts`, `services/continuation-binding.ts`, `workspace-resolver.ts`, `sandbox-mode-resolver.ts` | workspace binding, Codex session binding, sandbox override of a chat | `/new`, `/bind`, `/mode`, resolve, write back after a run |
| queue position and `/status` | `bootstrap.ts`, `commands/status.ts`, `services/status-presenter.ts` | `queue_position` | computed from the list and from whether a run is active |
| presentation | `services/presentation-orchestrator.ts`, `run-notifier.ts`, `run-output-window.ts`, `terminal-result-renderer.ts` | phase of a run's card, its deliveries, a window of output | queued / started / output / terminal handlers, degradation to a plain message |
| triggers | `services/trigger-definition-sync.ts`, `scheduler-loop.ts`, `trigger-dispatcher.ts`, `routes/external-webhook.ts` | definitions, overrides, next due time, executions | sync, dispatch, skip, webhook |
| managed schedules | `services/schedule-management-service.ts` | overrides of definitions | create, list, update, disable, enable |
| media delivery | `services/media-delivery-service.ts` | deliveries of a run | upload, send, record |
| health | `services/runtime-health.ts`, `apps/executor/src/services/runtime-readiness.ts`, `packages/core/src/runtime/runtime-factory.ts` | readiness per dependency, configuration fingerprints in Redis, a state file per process | refresh, drift check; gates ticks and `start` |
| daemon | `apps/daemon/src/supervisor.ts`, `infra-manager.ts`, `process-supervisor.ts`, `reconcile.ts` | its socket, `daemon.json`, `infra.json` | infra up / down, reconcile once, requests of the command line |
| command line | `packages/carvis-cli/src/` (`process-manager.ts`, `status.ts`, `daemon-command.ts`, `infra-command.ts`, `configure.ts`) | the state files | start, rollback, stop, status, requests to the daemon, configure; install, onboarding, doctor, uninstall |
| Feishu channel | `packages/channel-feishu/src/` (`runtime-sender.ts`, `adapter.ts`, `websocket.ts`) | the tenant access token | admit messages, create / update / complete a card, messages, reactions, uploads |
| Feishu rich text | `feishu-rich-text-transformer.ts`, `feishu-card-content-mapper.ts` | none | text to sections to the elements of a card, streaming and terminal |
| workspace memory | `apps/executor/src/services/workspace-memory*.ts` | files of a workspace | flush before a run |

### 1.2 How they interact

A prompt reaches `onEnvelope`, which INSERTs a run with status `queued` and
RPUSHes its id to the list of its workspace.  The executor calls `tick()` every
`pollIntervalMs` *without waiting for the previous call* (`void tick()` in
`setInterval`), so while one tick is inside a run others keep polling.  A tick
lists the queues, skips the workspaces whose lock key exists, LPOPs a run, tries
to lock the workspace, puts the run back at the end of the list if it cannot,
otherwise marks it running and hands it to the controller.  The controller
starts a watcher that polls the cancel signal every 10 ms, streams events from
the bridge, renews the heartbeat at each, stores the outcome, tells the chat,
and in `finally` blocks clears heartbeat and signal and releases the lock.
Meanwhile the gateway's `/abort` sets the signal, and its reaper, started every
second whether or not the previous sweep is over, fails the running runs whose
heartbeat has expired, sets their signal and releases their lock.

Nothing spans two calls: no transaction, no Lua script, no conditional UPDATE.
Each call of a driver is atomic, each gap between two calls is open to every
other tick, handler, sweep, TTL and crash.

A trigger is a row of `trigger_definitions`: a schedule or an external webhook.
At its start the gateway writes the configuration into that table
(`syncDefinitions`) and then runs the scheduler, again from `setInterval` and
again without waiting for the previous pass.  A pass reads the effective
definitions once, then treats them one after the other: it records that a due
time was skipped or missed, or dispatches it (INSERT the execution, INSERT the
run, RPUSH it, UPDATE the execution), and moves `next_due_at` in a call of its
own.  HTTP requests run the sync once more, and a webhook then uses the same
dispatcher.  An agent changes the schedules of its workspace through overrides
of their rows; the executor writes the outcome of a run into its execution.

### 1.3 What is hard

- **Overlapping ticks and sweeps** on one event loop and across two processes.
- **Check-then-act** over two calls: lock seen free then LPOP; LPOP then SET NX;
  SET NX then PEXPIRE; GET then DEL of a release; row read then UPDATE.
- **TTLs** that nothing renews (lock) or that equal the threshold that reads
  them (heartbeat).
- **Crashes** between any two calls; the run in a tick's hands is only in memory.
- **Rejected calls**, which leave through catch and two nested finally blocks
  with calls of their own, each of which may be rejected too.
- **Cancellation** racing with every phase of the run it targets.
- **Rows read once and used over many calls**: a pass's definitions, the rows a
  sync compares with, the row an audit writes back.
- **Record first, move on second**: an execution and the due time that follows
  it are two calls, and an execution, its run and its queue entry three more.
- **A child process that never ends**: `timeoutSeconds` is passed to the bridge
  and read by nobody.

- **One sender, many callers**: the token is shared by everything a process
  tells Feishu, and whoever is refused replaces it.
- **Three tellers of one run**: the gateway's handler, the executor and the
  reaper go by the same rows, each of which may be written behind their back.
- **Files that outlive what they name**: the state files of processes that
  crashed, the socket of a daemon that is gone.
- **Handlers of a daemon** that wait for processes while others of the same
  daemon start or stop them.

`PROJECT.json` lists each of these at its line, with the properties that cover it.

### 1.4 What makes each component correct

| component | properties |
| --- | --- |
| queue, consumer | a run is delivered to one tick, once; none is forgotten; every queued run ends |
| lock | two ticks are in a workspace together only if the lock was taken away from one |
| controller, bridge | statuses follow the lifecycle; nothing is left behind by any exit; a cancellation that reaches codex ends the run |
| reaper, `/abort` | nobody is cancelled who was not asked or failed; both parties' verdicts overwrite each other only in the ways listed |
| chat sessions | what Codex continues fits the workspace and the sandbox mode; `/bind` holds and moves nobody under an active run; a mode was asked for |
| queue position | what the user is told counts the list before a run and one for what is under way |
| presentation | the chat learns the end of every run, in one message; no late output reopens a closed card; rows claim no more than the chat shows |
| sender | one expired token makes no call fail |
| media delivery | Codex is told the truth about its files |
| rich text | no line is lost or doubled, code stays code, what was shown does not jump |
| triggers | a due time is dispatched at most once; executions follow their run; overrides survive a sync |
| health, daemon | a restart brings the runtime back; no process is out of reach; the status is true; a stop ends |

## 2. The modules

| module | models | builds on |
| --- | --- | --- |
| `RunRuntime` | the shared state: rows of `agent_runs`, queues, locks, heartbeats, cancel signals; one operator per driver call | |
| `Executor` | `processNext`, `execute`, the bridge, the cancel watcher, rejected calls and crash of the executor | `RunRuntime` |
| `Gateway` | submission, `/abort`, the reaper, crash of the gateway | `RunRuntime` |
| `RunExecution` | both processes over the shared state, the clock, mishaps; the properties | `Executor`, `Gateway` |
| `RunLifecycle` | abstract: what the two processes promise about the status of a run | |
| `MCRunExecution` | its instances for TLC | `RunExecution` |
| `RunExecutionProofs` | type correctness, delivery, mutual exclusion; `RunExecution` implements `RunLifecycle`; cancelled only on request, no run stranded, nothing left behind | `RunExecution` |
| `TriggerDefinitions` | the trigger tables, the effective definitions, schedules and the clock; one operator per statement | |
| `TriggerScheduler` | passes of the scheduler, the dispatcher, sync and webhook | `TriggerDefinitions` |
| `ScheduleManagement` | what an agent does to the schedules of its workspace | `TriggerScheduler` |
| `TriggerScheduling` | all of these with the executor's reports, crashes and rejected calls; the properties | `ScheduleManagement` |
| `MCTriggerScheduling` | its instances for TLC | `TriggerScheduling` |
| `TriggerSchedulingProofs` | types, no due time lost, executions follow their runs, none is forgotten, disabling holds | `TriggerScheduling` |
| `TriggerRepeatProofs` | a due time dispatched twice needs an overlap | `TriggerSchedulingProofs` |
| `SessionStore` | the tables behind a chat; one operator per statement | |
| `ChatCommands` | the handler of a message: filters, `/new`, `/bind`, `/mode`, `/status`, prompts, each call to the store a step | `SessionStore` |
| `ChatSessions` | two handlers, the controller's use of the Codex session, rejected calls; the properties | `ChatCommands` |
| `MCChatSessions` | its instances for TLC | `ChatSessions` |
| `ChatSessionsProofs` | types, what sessions fit, `/new`, `/bind` and `/mode`, what a position counts | `ChatSessions` |
| `FeishuSender` | the sender with its token, and what a chat shows | |
| `PresentationStore` | presentations, deliveries, media rows; one operator per statement | |
| `PresentationOrchestrator` | notifier and orchestrator: queued, started, output, terminal | `FeishuSender`, `PresentationStore` |
| `MediaDelivery` | `carvis-media send` through the gateway | `PresentationOrchestrator` |
| `RunPresentation` | one run with all of these, the reaper, failures; the properties | `MediaDelivery` |
| `MCRunPresentation` | its instances for TLC | `RunPresentation` |
| `FoldLemmas` | induction over the numbers, and what the folds and `FlattenSeq` of the community modules compute | |
| `RunPresentationProofs` | types, tokens, cards and posts, rows, media, the end of a run, the output on its card | `RunPresentation`, `FoldLemmas` |
| `FeishuRichText` | pure: text to sections to blocks to elements of a card | |
| `CardText` | a text that grows line by line; the properties | `FeishuRichText` |
| `CardTextProofs` | what the parse, the sections and both renderings keep; the properties | `CardText`, `FoldLemmas` |
| `RuntimeProcesses` | gateway and executor as processes: phases, fingerprints, drift, readiness, state files, signals | |
| `ProcessManager` | `start`, its rollback, `stop`, as stages of a call | `RuntimeProcesses` |
| `DaemonSupervisor` | daemons, their socket, handlers, the infrastructure | `ProcessManager` |
| `StatusSummary` | what `carvis status` says | `DaemonSupervisor` |
| `Operations` | the operator's commands, crashes; the properties | `StatusSummary` |
| `MCOperations` | its instances for TLC | `Operations` |
| `OperationsProofs` | types, readiness, no stray process, restarts | `Operations` |

There are six families.  They meet at the run and at the process: a prompt that
`ChatSessions` admits and a due time that `TriggerScheduling` dispatches INSERT
and push a run, what happens to it from there is the business of
`RunExecution`, and what a chat sees of it that of `RunPresentation`, which
renders text as `CardText` says.  Each keeps of the others what its properties
need: `TriggerScheduling` and `ChatSessions` only the order of a run's statuses
that `RunLifecycle` promises, `RunPresentation` one run of any outcome.
`Operations` looks at the two processes from outside.

### 2.1 State and code

*Shared* (`RunRuntime`).  `status` and `cancelRequestedAt` are the columns of a
row (`"none"` before the INSERT); `runQueue`, `lock`, `heartbeat`,
`cancelSignal` are the Redis keys `carvis:queue:<workspace>`,
`carvis:lock:<workspace>`, `carvis:heartbeat:<run>`, `carvis:cancel:<run>`;
`lockTtl` says whether PEXPIRE has been sent, because a lock without it never
expires.  A heartbeat is `"stale"` once the timestamp *in* it is over age while
the key still exists: the only moment at which the reaper's scan can report it.
`Runs` are numbered in the order of `created_at`.

*A tick* (`Executor`).  `pc[t]` names the await the call is at:

| `pc` | where |
| --- | --- |
| `idle` `scan` `dequeue` `acquire` `requeue` | `processNext`, run-consumer.ts:21-50 |
| `expire` | between SET NX and PEXPIRE, workspace-lock.ts:48-50 |
| `start` `checkCancel` `cancelEarly` | run-consumer.ts:52-115 |
| `renew` | entry of `execute`, run-controller.ts:43-66 |
| `prepare` `flush` | an attempt before the bridge, 66-176 |
| `spawn` `stream` | the transport, cli-transport.ts:25-168 |
| `check` | an event in the loop of `execute`, 176-394 |
| `persist` `report` | the outcome is stored, then told, 253-450 |
| `catch` | the catch block, 496-515 |
| `clearBeat` `clearCancel` | its finally block, 516-522 |
| `releaseGet` `releaseDel` | the finally block of `processNext` and `release` |

`job[t]` is the run in hand, `event[t]` the bridge event being handled,
`resumable[t]` whether the attempt resumes a Codex session (only such an attempt
can end in `session_invalid`, and it is retried once, without one).
`watcher`, `controller` and `codex` are the cancel watcher, the entry of
`CodexBridge.controllers` and the child process of a run.  The watcher calls
`cancelRun` *once* and returns, whatever it found to abort; the abort listener
is registered only after codex has been spawned.

*The gateway* (`Gateway`).  `submit[r]` is how far the handler behind a run has
come; `abortStep`/`abortRun` a session's `/abort`; `sweepStep`/`sweepTodo`/
`sweepRun` a call of `reapExpiredRuns`.

*History* (`RunExecution`).  `expired`, `reaped`, `botched` record that a TTL
took a lock from a tick, that the reaper failed a run, that the report of a
stored outcome was rejected; `mishaps` counts crashes and rejected calls.  No
guard but the bound reads them.

*Triggers* (`TriggerDefinitions`).  `rows[d]` is a row of `trigger_definitions`
(`origin`, `enabled`, the schedule, `next_due_at`, `created_at`), `overrides[d]`
a row of `trigger_definition_overrides`, `executions` the rows of
`trigger_executions` in the order of their INSERTs, each with the status of its
run.  `Effective` is the COALESCE of `listEffectiveDefinitions`.

*Workers* (`TriggerScheduler`).  A worker is a pass of the scheduler or an HTTP
request; `step[w]` names its next call, `todo[w]` the definitions it has still
to treat, `seen[w]` the rows it read at its start, `job[w]` the execution it is
dispatching with the due time it will store.

| `step` | where |
| --- | --- |
| `idle`, `scan` | `runOnce`, scheduler-loop.ts: `StartPass` is the query, the other actions one round of its loops |
| `createRun` `push` `markQueued` | `dispatchDefinition`, trigger-dispatcher.ts |
| `advance` | its last call, `updateDefinitionRuntimeState` |
| `advanceRecorded` | the second call of `recordExecution` |
| `sync` | `syncDefinitions`, trigger-definition-sync.ts: upserts, then the rows to disable |

`gateway` is `starting` until its first sync is done, for bootstrap.ts awaits it
before it starts the scheduler or serves a request.

*The agent* (`ScheduleManagement`).  `managerStep`, `request` and `baseline` are
the call at hand, the operation with what was matched, and the row that
`updateDefinitionAudit` writes back.  Requests come through a directory whose
server treats one at a time, so there is one manager.

*History* (`TriggerScheduling`).  `overlapped` records that two handlers were at
work at once or one was cut short; `mishaps` counts crashes and rejected calls.

*Chats* (`SessionStore`, `ChatCommands`, `ChatSessions`).  `binding`,
`override`, `conversation`, `catalog`, `sessions` and `runs` are the tables
`session_workspace_bindings`, `chat_sandbox_overrides`,
`conversation_session_bindings`, `workspace_catalog`, `sessions` and
`agent_runs`; a Codex session is named by the run that created it.  A handler
`h` of a message is at `step[h]`, named for its next call, and `seen[h]` holds
what it has read.

| `step` | where |
| --- | --- |
| `createSession` | `onEnvelope`, bootstrap.ts, after the filters of routes/feishu-webhook.ts |
| `readBinding` `saveBinding` | `resolve`, workspace-resolver.ts |
| `readOverride` `deleteOverride` | `resolveForChat`, sandbox-mode-resolver.ts |
| `resetConversation` | commands/new.ts |
| `findActive` `resolveKey` `createWorkspace` `bindManual` `bindCreated` `bindReset` `bindClear` | commands/bind.ts |
| `setMode` `resetMode` | commands/mode.ts |
| `readLatest` `statusActive` `statusAhead` | commands/status.ts |
| `readConversation` `findActive` `createRun` `pushRun` `savePosition` | the prompt branch of `onEnvelope` |
| `reply` | what the handler returns with |

`phase[r]` is where the executor is with a run: `queued`, `popped`, at the
first try (`Fresh`: at Codex, returned, written back) or at the second
(`Retrying`), `ended`.  It is not the status of the row: pop, start and requeue
are calls of their own, a run is started whatever else is running in its
workspace, and the reaper ends a row while its controller goes on; a rejected
call after `session_invalid` invalidates the binding again.

| action | where |
| --- | --- |
| `PopRun` `StartRun` `RequeueRun` | run-consumer.ts:31-57 |
| `SessionInvalid` `Invalidates` | run-controller.ts:183-220 |
| `BridgeCompletes` `ReadsBack` `WritesBack` | run-controller.ts:360-394 |
| `RecoveryFails` | run-controller.ts:235-252 and the catch block, 457-485 |
| `RunStops` `RunEnds` `ControllerLeaves` | 222-235, 395-404, 422-432, 486-499, 516-522 |
| `ReaperEnds` | run-reaper.ts:19-29 |

*History*:
`overlapped` (two handlers of messages at once, or one cut short), `intent`
(what the commands of a chat asked for).

*A run's presentation* (`FeishuSender` to `RunPresentation`).  Activities are
the gateway's handler, the reaper, the executor and the media request.
`call[p]` is the call of Feishu an activity is in (token, request, answer),
`cached` the token of each process, `token` the one Feishu accepts;
`card`, `posts`, `reaction`, `files` are what the chat shows.  `at[p]` is where an
activity is in `notifyRunEvent` and the orchestrator's handlers, `seen[p]` the
`run_presentations` row it has read, `window` the output window of the
executor.  `presentation`, `deliveries`, `mediaRows` and `executionDelivery` are
the rows.  *History*: `marks` (what went wrong that a property excuses; the
comment at `Marks` says what each means) and `spent`, of the budget.

*Text* (`FeishuRichText`).  A line is its kind and its place; `ParseSections`,
`RenderStreaming`, `RenderTerminal` and `RenderCard` are the functions of the
same names, folds over the lines.

*Processes* (`RuntimeProcesses`).  `process[p]` is a process with the
configuration it loaded, its phase (`booting`, `published` its fingerprint,
`serving`, `stopping`) and the status it would report; `stateFile` the two files
below `~/.carvis/state`, `fingerprint` the two keys in Redis, `config` what the
configuration files say, `infra` whether the containers of Postgres and Redis
are stopped, started, or accept connections (`InfraAccepts`): compose reports
ready as soon as they are started, and a gateway or executor that comes up before
they accept gives up, for its one `SELECT 1` is not retried
(postgres-client.ts:17).

*Calls* (`ProcessManager`, `DaemonSupervisor`).  `calls[c].todo` is what a
handler of a daemon still has to do, as a sequence of stages, and `handle` the
processes it spawned or signalled; `daemon`, `socket`, `daemonFile` and
`infraFile` are the daemons, the owner of the file at the socket's path, and
`serviceState` and status in `daemon.json` and `infra.json`.

| stage | where |
| --- | --- |
| `up` `down` `probe` | infra-manager.ts |
| `reconcile` | reconcile.ts: start if the infrastructure is ready, stop otherwise |
| `clean` `spawn` `await` | `start`, process-manager.ts:71-134 |
| `kill` `reap` | its rollback, 200-208 |
| `signal` `gone` | `stop`, 148-188 |
| `ready` `refresh` | `writeDaemonState`, `refreshLayeredStatus`, supervisor.ts |
| `reply` `close` | the answer, and `server.close` with `process.exit`, 169-177 |

*History* (`Operations`): `restarted` (the last command was a restart that
reached a daemon, and nothing failed since), `warm` (and that the infrastructure
accepted connections when it was given), `cut` (two calls were at work at
once, or one was cut short), `given`, `faults`.

### 2.2 Abstractions

- Time has no value: a key with a TTL may expire at any later moment.
- A memory flush is one step of its tick; it runs under a bridge id of its own.
- The reaper's KEYS and GETs are one look at the heartbeats.
- Event payloads, text, sessions and trigger rows are left out; of an event only
  its kind counts.
- A rejected call of a sweep or of `/abort` has the effect of cutting the
  handler off, which `GatewayCrash` does at every point.
- A cron expression is the set of minutes it matches, the clock a number of
  minutes; the next match is computed, not guessed.  Expressions without a match
  within 366 days, for which `computeNextScheduledAt` throws, are left out.
- The two writes of the executor when a run starts, and those when it ends, are
  one step each in `TriggerScheduling` (`RunExecution` has their interleaving).
- A pass treats definitions in the order of their ids, which CHOOSE fixes.
- A call that is rejected had no effect; a call whose answer is lost after it
  took effect is not modelled.

- A workspace's path is its key; provisioning one is its row in the catalogue.
- A message is its words by kind; a redelivered message is one more message.
- Of text only what tells properties apart is kept: in `RunPresentation` output
  is a sequence of chunks and the window counts them, in `FeishuRichText` a line
  is one of fifteen kinds.
- A call of Feishu takes effect or not, and answers or not; a refused token is
  refused before it has an effect.
- The containers of Postgres and Redis go up and down together, and `restart:
  unless-stopped` of docker is left out; they begin to accept connections at any
  moment after they are started, or never.  `bun run` and the process it wraps
  are one process.
- A pid is not given to another process while a state file names it, and a state
  file is read whole: neither the reuse of pids nor a read during a write is
  modelled.
- `CardCreated` and `CardCompleted` write, in one step, two rows that the code
  updates in two calls (the delivery and the delivery status of the execution).
- In `ChatSessions` the lock of a workspace is a choice: a popped run gets it or
  does not.  That it can be had while another run is at work is what `LockLapse`
  shows.  A run may also leave the executor's hands at any point with its row as
  it is, and the reaper may end any running row at any time.
- `carvis` is installed, Codex and the Feishu credentials are good.
- A timeout that strikes while a process is still coming up is a fault; one
  that strikes when it has come to rest is not.

## 3. What is checked

The runs of run execution use one workspace and one session, where all
contention is; the proofs of section 4 cover any number.

| run | instance | what it shows |
| --- | --- | --- |
| `RunCrash` | 2 runs, 2 ticks, 1 `/abort`, 1 mishap, no sweep | `TypeOK`, `OneDelivery`, `OneTickPerWorkspace`, `CancelledOnRequest`, `LifecycleSpec` with locks and heartbeats expiring at any time and one crash of either process, or one rejected call, at any point |
| `RunReaper` | 2 runs, 2 ticks, 1 sweep at a time, no mishap | `NoStrandedRun`, `NoLeftovers`, `LifecycleSpec` against the reaper |
| `RunLive` | 2 runs, 2 ticks, codex of run 2 may work for ever | `QueuedRunEnds`: run 1 ends all the same |
| `RunAbortLive` | 1 run whose codex may work for ever, 1 `/abort` | `AbortStopsCodex` |
| `LockLapse` | 2 runs, 2 ticks | violates `SingleActiveRun` |
| `TriggerPasses` | a job due twice, a webhook, 2 passes, 1 request, 1 mishap | `TypeOK`, `NoDueTimeLost`, `RepeatNeedsOverlap`, `QueuedIsPushed`, `AcceptedIsDispatched` with passes, syncs, webhooks and runs interleaved and one crash or rejected call at any point |
| `TriggerManaged` | a configured job, one no longer configured, one an agent may create; 1 pass, 1 request, 2 operations of the agent | `NoDueTimeLost`, `DisableHolds` against updates, disables, enables and syncs in between |
| `ChatSessions` | a private and a group chat, 2 handlers, 3 messages out of 10, 3 runs, 1 mishap | `TypeOK`, `ContinuationFits`, `BindHolds`, `BindSparesActiveRun`, `ModeOnRequest`, `OldSessionNeedsActiveRun`, `AheadIsCounted` |
| `RunPresentation` | 1 run of a chat, of a schedule, or of a webhook without a chat; 2 chunks; a budget of 2 | `TypeOK`, `ChatSettles`, `OneMessage`, `RecordsHold`, `OutputShown`, `OneExpiryIsSurvived`, `MediaTold`, `LateOutputWasInFlight` |
| `CardText` | every text of up to 5 lines of 9 kinds | `KeepsLines`, `CodeStaysPlain`, `ModesAgree`, `FormsSettle` |
| `Operations` | 2 gateways, 2 executors of which one hangs on SIGTERM, 3 daemons, 2 calls, 2 configurations, 2 commands of any kind, 1 fault | `StrayNeedsOverlap`, `ReadyIsServing`, `RestartHeals`, `StopEnds` |
| `RestartStuck` | 2 configurations, 2 commands, no fault | violates `RestartLoadsConfig` |

The properties:

- `OneDelivery`: a run is never twice in a queue, in a queue and in a tick's
  hands, or in the hands of two ticks.  At risk: pop, failed lock, requeue.
- `OneTickPerWorkspace`: two ticks are under the lock of one workspace only if
  the TTL or the reaper had taken it from a run *of that workspace* while a tick
  was at work on it.  The stale GET/DEL pair of `release` is what makes this
  hard.
- `LifecycleSpec`: the step of any process, seen through `RunLifecycle`, is
  queue, start, finish or contest.  The UPDATEs check nothing, so this rests on
  who has the run in hand.
- `NoStrandedRun`, `NoLeftovers` (without mishaps): no run is in nobody's hands,
  and no lock, heartbeat, watcher, controller or child outlives its tick.
- `CancelledOnRequest`: a run is killed or cancelled only if a user asked for
  it or the reaper had failed it (signals are left behind by early
  cancellations and by aborts of finished runs, yet reach nobody else).
- `QueuedRunEnds`: every queued run whose own codex ends comes to an end, so
  requeueing is no livelock and a hung neighbour no deadlock.
- `AbortStopsCodex`: a cancellation seen while codex works, in an attempt that
  is not retried, ends the run even if codex alone would not.

- `NoDueTimeLost`: every due time of a schedule no agent has touched, from the
  creation of its row on, has an execution or is not before `next_due_at`.  At
  risk: passes with old rows, a sync that computes the due time anew, a crash
  between the two calls.  The order of these calls is what makes it hold.
- `RepeatNeedsOverlap`: the price of that order, bounded: a due time has two
  executions only if two handlers were at work at once or one was cut short.
- `QueuedIsPushed`, `AcceptedIsDispatched`: the status of an execution is never
  ahead of its run's, and none is noted and forgotten unless a call failed.
- `DisableHolds`: a schedule an agent disabled is enabled again only while an
  `enable` is at work, whatever the syncs write.

Of chats:

- `ContinuationFits`: a chat's binding offers, and a run continues, a Codex
  session only in the workspace and the sandbox mode it was made in.
- `BindHolds`, `BindSparesActiveRun`, `ModeOnRequest`: for handlers that come one
  after the other, the last `/bind` wins, a chat with an active run is not moved,
  and a mode other than the workspace's own was asked for, there, recently.
- `OldSessionNeedsActiveRun`: after `/new` an older session comes back only
  through a run that was queued or in the executor's hands then (see 3.1).
- `AheadIsCounted`: the position a run is given and the number that `/status`
  reports count every run before it in the list, and one more if any other run of
  the workspace is under way.  At risk: the active run and the list are read by
  two calls, and runs are popped, started, put back at the end and ended by the
  reaper in between.  It is a bound from below at the moment of the count, not
  the number of runs really ahead: after a lock has lapsed several may be under
  way and count as one (see 3.1), and a run that loses the race for the lock
  goes behind those that came later, so the number may also be too large, and
  what was counted once may come before the run again.

`BindHolds`, `BindSparesActiveRun`, `ModeOnRequest`, `OldSessionNeedsActiveRun` and
`AheadIsCounted` are conditional on handlers that did not overlap, as are
`RepeatNeedsOverlap` of triggers and `StrayNeedsOverlap` of processes: they say
what one handler after the other, with the executor, the reaper and the clock at
work in between, does.  A check-then-act whose two halves are taken apart by
another *handler* (a prompt during `/bind`, two passes over one due time) is
thereby excused, not covered; `ContinuationFits`, `NoDueTimeLost` and the others
without that condition hold through such overlaps.

Of a run's presentation:

- `ChatSettles`: when everybody has had his say, the chat has been told the
  status on record and the reaction is gone, unless a call that told the end
  failed or its teller died or threw.
- `OneMessage`: card or message, not both, unless the card was not recorded.
- `RecordsHold`: phases, deliveries and executions say only what the chat shows.
- `OutputShown`: a streaming card shows the end of what Codex has said.
- `LateOutputWasInFlight`: a closed card runs again only through output that was
  being told when the reaper ended the run.
- `OneExpiryIsSurvived`: only a second expiry makes a call fail for its token.
- `MediaTold`: Codex is told `sent` if and only if the file is there; `failed`
  for a file that is there takes a lost answer or a row not written.

Of text:

- `KeepsLines`, `CodeStaysPlain`, `ModesAgree`: both modes show every line with
  content once and in order, never code or tables as markup, and the terminal
  card adds nothing but rules to what was streamed.
- `FormsSettle`: a line that was shown keeps its form as the text grows; only
  lines with bars may turn into a table.

Of the processes:

- `StrayNeedsOverlap`: a process that no state file names, which no stop, status
  or start ever finds again, exists at rest only if two calls were at work at
  once or one was cut short.
- `ReadyIsServing`: the status says ready only over a live gateway and a live,
  ready executor.
- `RestartHeals`: a `daemon restart` that is through has brought the runtime
  back, whatever crashed before, if the configuration is the published one and
  the infrastructure accepted connections when the restart was given (3.1 says
  what may happen otherwise).
- `StopEnds`: a `daemon_stop` ends the daemon, whoever hangs.

### 3.1 Disagreements with the documents

- `LockLapse` -- specs/001-feishu-codex-mvp/spec.md:84 promises one active run
  per workspace.  The lock lives 30 s and nothing renews it: the second run
  starts when the first outlives it.
- `RestartStuck` -- specs/016-daemon-deployment/contracts/carvis-layered-status-and-doctor.md:53
  has `carvis daemon restart` as the remedy for a drift, and
  carvis-managed-lifecycle-cli.md:71 in the same directory has it bring the
  runtime back.  The fingerprints in Redis have no TTL.  After a change of the
  configuration the new gateway meets the fingerprint of the executor that was
  stopped, reports the drift and is not ready; `start` spawns the executor only
  behind a ready gateway (process-manager.ts:99-110), so after 30 s it rolls back,
  the executor never publishes the new fingerprint, and no later restart fares
  better.

Others were met while modelling.  They have no run of their own; the properties
above are stated so that they allow them:

- A restart of an infrastructure that was down.  README.md:48 has the gateway and
  the executor started only when the infrastructure is ready, and
  carvis-managed-lifecycle-cli.md:71 has `restart` bring both back without a
  condition.  But `docker compose up -d` returns when the containers are started,
  the generated compose file has no healthcheck, and an empty health field counts
  as ready (infra-manager.ts:269).  The gateway is spawned at once, finds a
  Postgres that does not accept connections yet and exits (postgres-client.ts:17);
  `start` rolls back after 30 s.  A restart after `infra stop`, or on a host
  whose containers are slow, leaves the runtime down with no fault anywhere, and
  nothing looks again when Postgres has come up.  The model has these behaviours;
  `RestartHeals` without `warm` is violated by `infra_stop`, `restart`.
- The number ahead when a lock has lapsed.  specs/001-feishu-codex-mvp/spec.md:47
  has `/status` say how many are ahead of a queued request.  It asks for *an*
  active run of the workspace and adds one (commands/status.ts:37-44,
  queue.ts:91-98).  After a lock has lapsed two are running, and the third run is
  told that one is ahead.  The position in the reply to a prompt is computed alike
  (bootstrap.ts:421, 437-438).  The model has this too; `AheadIsCounted` asks for
  one, however many are under way.
- An executor that dies before the first heartbeat leaves its run running: there
  is no key for the reaper to find, and later the key expires just when it
  becomes over age (heartbeat.ts:54; specs/001-feishu-codex-mvp/spec.md:73 has
  such runs failed).
- A cancellation the watcher sees before Codex is spawned, or between two
  attempts, is spent on nothing (run-controller.ts:58; the same document, line 88).
- `/abort` selects the *newest* active run, hence a waiting one before the
  running one (repositories.ts:1990); a run that loses the race for the lock goes
  to the end of the queue (run-consumer.ts:45); `timeoutSeconds` is enforced by
  nobody (run-controller.ts:166); a crashed executor leaves its Codex at work in
  a workspace whose lock expires (cli-transport.ts:67).
- A run that was active when `/new` reset its chat writes its session back when
  it completes: the guard asks whether `lastResetAt`, a Date, is a string
  (run-controller.ts:373; specs/004-codex-session-memory/spec.md:44 and :79).
- A sync computes `next_due_at` from the configured schedule, overridden or not
  (trigger-definition-sync.ts:244; specs/007-agent-managed-scheduling/quickstart.md:79),
  and the dispatcher writes `queued` over what a faster executor wrote
  (trigger-dispatcher.ts:83; specs/006-scheduler-external-webhooks/spec.md:92).
- `tool_invoker_missing` fails a run without telling its chat
  (run-controller.ts:301-309).
- `daemon start` spawns a daemon whether or not there is one, and the new one
  removes the socket of the other (daemon-command.ts:50-74, supervisor.ts:152),
  which then serves nobody and never ends; the removal by a daemon that ends may
  hit the socket of its successor.  A restart that reaches no daemon stops
  nothing, so the new daemon finds the processes ALREADY_RUNNING.
- Overlapping starts and stops, and a daemon that dies inside one, strand
  processes (`cut`); a rollback waits for its processes without a limit; after
  `infra stop`, `infra start` and `infra restart` bring no process back; after
  its start the daemon looks at nothing again.
- The status takes a file at the socket's path for a daemon
  (status.ts:229), and the answer of the health path only replaces the snapshot
  that is shown (status.ts:174).
- The loss of the websocket's connection does not reach the gateway's health
  (websocket.ts:170).
- The window of output may begin inside a block of code and is then rendered
  inside out; an open fence in an excerpt swallows the sections after it; a tag
  that is not closed passes `escapeUnsupportedHtml`.

### 3.2 Bounds, and why they are enough

- Two runs and two ticks: every property relates at most two of each; a third
  tick only adds pollers, a third run only lengthens a queue.  The properties
  that section 4 proves, here and below, do not depend on the bounds at all.
- `MaxMishaps = 1`: each mishap returns a tick to a state a sound one can be in
  (`idle`, or on its way through the finally blocks), so a second meets no new
  situation in these properties.
- `MaxAborts = 1`: a second `/abort` of the same run sets what is set.
- `Sweeps = {k1}` bounds the sweeps outstanding, not their number.
- `NoLockLapse` (in `RunReaper`) stops at states in which a lock expired under a
  tick, which `RunCrash` and `LockLapse` explore; the reaper's own release of a
  lock is explored.
- `NoStaleHeartbeat` (in `RunCrash`) stops at heartbeats that are over age, or
  missing under an attempt: without sweeps nothing looks at them.
- Ticks are symmetric; symmetry is not used with liveness.
- Deadlock is not checked: when every run has ended and no prompt is left the
  model stops.

Of the trigger runs:

- `MaxTime = 3` in `TriggerPasses` lets a job due at 1 and 2 be on time, late
  and past the dispatch window (`Window = 1`); in `TriggerManaged` one minute and
  no window are enough for a due time to come, be skipped or be moved.
- `MaxExecutions = 2` (1 in the other) is one repeat of a due time, or two due
  times; a worker that would write one more waits.
- `MaxManaged = 2`: an operation and one that undoes or follows it.
- `Loops = {l1, l2}`: two passes with rows of different ages; they are symmetric.
- Every definition of an instance is there for a case: `job1` is configured,
  `hook1` a webhook, `old1` a row the configuration has dropped, `made1` a row an
  agent may create.
- Only safety is stated of triggers.  The model stops where the clock does.

Of chats: every command, both channels and the filtered events are in
`ChatEvents`, `Handlers` are two because the properties relate a message to one
before it, and three messages are enough for /mode, /bind and a prompt in any
order, or a prompt, /new and a prompt; `OverrideTtl = MaxTime = 1` lets an
override expire.  Handlers are symmetric.  `OverlapInTime` stops at states in
which handlers have overlapped and the clock has ticked: the properties that
speak of the clock excuse overlaps, and `ContinuationFits` does not speak of it.
`ThirdMeetsOne` has the third message overlap with another only in the same chat
and if no call was rejected, and `ReapedInCalm` follows up a row that is ended
under the controller only while no handlers have overlapped: after an overlap only
the types and `ContinuationFits` say anything, and these meet the reaper in handlers
that come one after the other.  The proofs need neither bound.
Two runs under way and one behind them take three runs.  `ThirdIsAsked` follows
up the third only while no handlers have overlapped and the clock stands, and
only where the first two have got no further than Codex or are over.  A third run
takes all three messages, so what `/status` answers is checked with two runs; its
number comes from the same `AheadCount`, and the theorem covers both for any
number of runs.

Of presentation: `Budget = 2` counts everything out of the ordinary together,
so that any two may meet: a call refused, an answer lost, a rejected statement,
a collision, a dead executor, an expired token, a second chunk of output, a
second attempt.  `MaxChars = 1` makes the window overflow at the second chunk.
Chunks are symmetric.

Of text: five lines hold a fence, code, its end and what follows, or a heading, a
table of two lines and its neighbours; the nine kinds are one of each that the
code tells apart, once emphasis, links and pictures are taken as one.

Of operations: two processes of each role are what a start can confuse with
those before it, two calls what can overlap; three daemons are the first and one
for each command.  `MaxFaults = 1` is one crash, failed compose or early timeout
at any point.  `OverlapOfOne` stops at states in which calls have overlapped or
one was cut short after two commands: what they leave behind is then excused by
`StrayNeedsOverlap` and `RestartHeals` anyway, while `ReadyIsServing` and
`StopEnds` are looked at with overlaps of the daemon's own reconciliation with
one command.  Deadlock is not checked in any of these: the models stop where the
bounds do.

### 3.3 Fairness

`FairSpec` assumes, and the code justifies:

- `WF` of each tick's step, watcher, `EnqueueRun`, `/abort` and sweep:
  `setInterval` polls for ever and an awaited call settles.  The exit of codex
  and its output are part of a tick's steps, so this alone does not make codex end.
- `SF` of the exit of codex for runs outside `Hangs`, and for a codex that was
  sent SIGTERM: a program that ends does so although it prints in between.
- `WF` of expiry: Redis drops every key whose TTL is over.  A prompt's arrival,
  `/abort` and mishaps have no fairness.

For `Operations`, `FairSpec` assumes

- `WF` of `Handling`: a handler that can go on does.  Its waits poll and have
  timers (30 s, and 5 s before SIGKILL), and its calls settle.
- `WF` of `Leaving`: a process that got SIGTERM and is not one of `Hangs` leaves.

Nothing is assumed of commands, of processes that come up, or of faults.  The
other families state safety only.

## 4. What is proved

`tlapm` checks what follows for every set of runs, workspaces, sessions, ticks,
sweeps, chats, handlers, messages, definitions, schedules, passes, requests,
chunks of output, lines of text and their kinds, processes, daemons and calls,
and for every bound.

| module | theorem | states |
| --- | --- | --- |
| `RunExecutionProofs` | `TypeCorrect` | `Spec => []TypeOK` |
| | `DeliveredOnce` | `Spec => []OneDelivery` |
| | `WorkspaceExclusion` | `Spec => []OneTickPerWorkspace` |
| | `LifecycleImplemented` | `Spec => LifecycleSpec`: `RunExecution` implements `RunLifecycle` |
| | `CancellationAsked` | `Spec => []CancelledOnRequest` |
| | `NobodyStranded` | `Spec => []NoStrandedRun` |
| | `NothingLeftBehind` | `Spec => []NoLeftovers` |
| `TriggerSchedulingProofs` | `TypesHold` | `Spec => []TypeOK` |
| | `ExecutionFollowsRun` | `Spec => []QueuedIsPushed` |
| | `AcceptedIsKept` | `Spec => []AcceptedIsDispatched` |
| | `DueTimesKept` | `Spec => []NoDueTimeLost` |
| | `DisabledStays` | `Spec => DisableHolds`, an action property |
| `TriggerRepeatProofs` | `RepeatsNeedOverlap` | `Spec => []RepeatNeedsOverlap` |
| `ChatSessionsProofs` | `TypesHold` | `Spec => []TypeOK` |
| | `SessionsFit` | `Spec => []ContinuationFits` |
| | `BindIsKept` | `Spec => []BindHolds` |
| | `OldSessionsStayGone` | `Spec => []OldSessionNeedsActiveRun` |
| | `BindWaitsForRuns` | `Spec => BindSparesActiveRun`, an action property |
| | `ModeIsAskedFor` | `Spec => ModeOnRequest`, an action property |
| | `AheadCounts` | `Spec => AheadIsCounted`, an action property |
| `RunPresentationProofs` | `TypesHold` | `Spec => []TypeOK` |
| | `ExpirySurvived` | `Spec => []OneExpiryIsSurvived` |
| | `OneMessageHolds` | `Spec => []OneMessage` |
| | `LateOutputs` | `Spec => LateOutputWasInFlight`, an action property |
| | `MediaToldHolds` | `Spec => []MediaTold` |
| | `RecordsKept` | `Spec => []RecordsHold` |
| | `ChatIsTold` | `Spec => []ChatSettles` |
| | `OutputIsShown` | `Spec => []OutputShown` |
| `CardTextProofs` | `CardIsOfText` | `Spec => []CardInv`, the inductive invariant |
| | `LinesAreKept` | `Spec => []KeepsLines` |
| | `CodeIsPlain` | `Spec => []CodeStaysPlain` |
| | `BothModesAgree` | `Spec => []ModesAgree` |
| | `WhatIsShownSettles` | `Spec => FormsSettle`, an action property |
| `OperationsProofs` | `TypesHold` | `Spec => []TypeOK` |
| | `ReadyHolds` | `Spec => []ReadyIsServing` |
| | `NobodyStrays` | `Spec => []StrayNeedsOverlap` |
| | `RestartsHeal` | `Spec => []RestartHeals` |

`Spec` is that of the module in the row's family and assumes no fairness.

### 4.1 The assumptions

Those on the constants, which TLC evaluates for every instance of section 3:

- *Run execution*: run ids are numbers, `NoRun` and `NoWorkspace` are none of
  the ids, a run has one workspace and one session, bounds are numbers.
- *Triggers*: what is configured is among the definitions and has no row yet;
  what has a row at the start was written by an agent or a former
  configuration.  An agent's row is as it was created: its `next_due_at` is set
  and no later than any match after its creation.  (One that was moved on since
  would come with executions, while the history of an instance starts with
  none.)  Passes and requests are different workers.
- *Chats*: private chats are chats, registered workspaces are workspaces, the
  default one is registered, `None` is no id, every workspace has a mode.
- *Presentation*: the callers are the three tellers and the media request, each
  in a process; the output window holds at least one character; `None` is
  neither output nor a status.
- *Card text*: the lines that Codex says are among the kinds that are told apart;
  the bound on the lines is a number.
- *Operations*: no process is both a gateway and an executor, there is a
  configuration, `NoProcess` is no process, bounds are numbers.

### 4.2 Run execution

None of the first three properties is inductive.  `IInv` adds

- `TickInv`: a tick has a run exactly at the steps that use one, a workspace
  before LPOP, an outcome before it stores one (types need this);
- `SweepInv`: a sweep is at a run, and has failed it before it touches its lock;
- `QueueInv`, `JobInv`: queued and held runs were pushed by their own handler,
  a queue holds runs of its own workspace, each once, none of them held, and no
  two ticks hold one run -- so RPUSH never doubles a run and LPOP moves one;
- `LockInv`: a tick under the lock of an undisturbed workspace *is* the value
  of its key.  A release whose GET was overtaken deletes a key that names
  another run; then the releasing tick was under the lock without being its
  value, so the workspace was disturbed.

`TickSteps`, `RejectedEffect` and `WhoMoves` say what each kind of step does to
the parts the invariants speak of; the invariance proofs use them in place of
the 29 actions of a tick.

For the refinement, `StatusInv` says which status a run has by the place it is
at: `queued` in a queue or in hand before its start, `running` or contested at
work, terminal at the report, running or terminal under a sweep.  Every row
written is then one of three forms (`WritesAreSteps`), each a step of
`RunLifecycle`.

For the end of a run:

- `AskedInv`: a cancellation was asked for at every place it passes, from the
  `/abort` handler or the sweep over the signal, the controller, codex and its
  event to the row; no step makes one up, each hands one on;
- `KeptInv` (without mishaps): a queued or running run is in a queue or in a
  tick's hands, and a tick that is past the attempt has seen the run end.  The
  second half is what carries the first over the release of a tick;
- `TidyInv` (without mishaps): the lock, heartbeat, watcher, controller and child
  of a run go with the step of its tick, and a run in no tick's hands owns none.

### 4.3 Triggers

- `BaseInv`: types, `WorkerInv` and `ManagerInv` -- a worker has a job exactly
  while it dispatches one, of a definition it has still to treat; an agent's
  request is about a definition with a schedule, which is overridden before its
  row is touched.
- `ExecInv` adds `DispatchInv`, that an execution is in one worker's hand at most
  and how far it and its run have come there, and `AcceptedInv`: one that is
  accepted is the job of a worker that has still to mark it, unless a call failed.
- `DueInv`: every `next_due_at` in sight has an execution for each due time
  before it -- that of the row (`RowOK`), of the rows a pass or a sync has read,
  however old (`PassOK`, `SyncOK`), and the one a worker will write from the job
  in its hand (`JobOK`).  Then it does not matter whose UPDATE comes last.
  `GatewayInv` covers the creation of rows: until the configured ones exist
  nothing runs but the first sync.
- `RepeatInv`: while nothing overlapped and nobody was cut short, one actor is at
  work (`Alone`), what it has read is what is still there, and all executions of a
  schedule lie before its `next_due_at`, but for the one being dispatched
  (`OrderInv`).  `PastInv` says that no execution is of a due time to come, so that
  the next one computed is beyond those recorded.

### 4.4 Chat sessions

- `FitsInv`: whoever holds a Codex session -- a chat's row, what a handler has
  read, a run -- agrees in workspace and mode with the run that made it.  The
  controller and `saveBinding` are the writers.
- `QueueInv`: what is in a queue is in no hands, each run once, and no run that
  a handler has still to push.
- `CalmInv`, while no two handlers of messages overlapped: each override,
  binding and session is the one last asked for, and `AtHand` says for each step
  of a handler what of its command is done and what it has read that still
  holds.  `BindHolds`, `BindSparesActiveRun` and `ModeOnRequest` follow from it,
  `OldSessionNeedsActiveRun` from `FitsInv` and `CalmInv`.
- `AheadInv` adds, under the same condition, that a chat is in the workspace of
  its active runs (`ActiveAtHome`) and `Counts`: the key a handler counts by is
  the workspace of the run it counts for (`KeyIsBound`, `RunInHand`), and if it
  found no active run there (`SawNone`) all other runs of that workspace are over,
  and stay over until it pushes or reports, because rows do not come back to life
  and nobody else creates one.  Nothing is assumed of how many runs are under
  way, nor of the order of a list: `PlacesBound` bounds the runs before one by
  the places before it, and `CountIsEnough` and `PositionIsEnough` add the one.

### 4.5 Presentation

`BaseInv` says where each activity can be and that it waits for a call exactly
there (`PlacesHold`), and that what it writes to has a row.  The other
invariants are one per property, each over `BaseInv`:

- `TokenInv`: a call at its second try does not use the first token, and fails
  for its token only after the second one was refused;
- `CardInv`: the card of a run in whose chat nothing went wrong is on record as
  long as anybody may need it, so nobody posts a message beside it;
- `EndInv`: who has ended the run, with which outcome, and what of its output may
  still be on its way;
- `MediaInv`: the chat holds at least the files Codex was told of, and one more
  only at the price of something that went wrong;
- `ShownInv`, `PhaseInv`, `DeliveryInv`: a row that claims a card, a post or an
  end has it in the chat, and so has an activity that is about to write one;
- `SettleInv`, `ReactionInv`: an activity that is through with its telling has
  told its outcome; the reaction is there only while somebody has to take it away;
- `OutputInv`: until something overtakes it or the run is retried, the window is
  what the output said so far comes to (`Fits`), and the card shows the window, or
  is about to (`Follows`).  It rests on three lemmas about the output:
  `DedupGrows` and `LastCharsGrow` (one more chunk changes the deduplicated text,
  and its end, as the window is changed) and `LastCharsSuffix`.

Deduplication is a fold.  The community modules define a fold with a function that
is recursive over sets, so that no induction theorem with an operator parameter is
needed: `FromZero` is the induction, for a set of numbers, `FoldExists` says that
the function exists, and `DedupRuns` names the results place by place.

The proofs do not go through the actions one by one: `StepsSeen`,
`NotifierGoes`, `ExecutorGoes`, `SenderShows` and `CutPlaces` say, once, from where
to where an activity goes and what that does to the chat and the rows.

### 4.6 Card text

The invariant of the module is simple (`CardInv`: the card is that of the text so
far); what is hard is what the parser and the two renderers compute for a text of
any length.  `FoldLemmas` has the means: a fold goes from place to place, and
`FlattenSeq` from sequence to sequence (`FlattenRuns`); `FlatMapRelates` carries a
relation between what two functions make of each element to what they make of all.

- *The parse.*  `AllOf(s)` are the items of all lines that a state of the parser
  has taken up.  A line adds its own item at the end or nothing, and one with
  content adds one unless it is the separator a table was opened for
  (`LineParsed`).  So the items ascend and miss no content after every line
  (`Parsed`, `ParseHolds`).
- *The rendering.*  A fragment loses blank lines at its edges and nothing else
  (`Trimmed`, with `EdgesTrimmed`).  A rendering under way keeps its items:
  `Total`, those of the blocks and of the pending parts, grows at its end by the
  items of a part or a block, flushed or not, and the pending parts share a
  format in which each of their items may stand (`Fitting`, `Renders`).  So both
  modes show the items of the sections (`SectionRendered`, `TerminalShown`,
  `StreamShown`), and code stays code because every block fits its format.
- *The rules.*  The terminal card puts a rule before a section only when it has
  shown something before, and every section but the first has a heading
  (`HeadedLater`): at most one rule for each heading (`TerminalAdds`).
- *More text.*  A line more leaves the first line that is not blank where it was
  (`PlacesStay`).  The parser looks one line ahead, and at that only from a line
  with bars, so both texts parse alike up to the last line but one, and up to the
  last one if it has no bars (`ParsesAlike`); from there on items stay
  (`ItemsStay`).  This is `FormsSettle`.

### 4.7 Operations

- `ReadyInv`: a state file that says ready over a live process is right about it
  (`TrueFile`).
- `ShapeInv`: what a call may still have to do is one of a dozen sequences: a
  boot, a start or its rollback from some stage on, a stop from some stage on,
  waiting for a signalled process, ready, reply, close.  The proofs split on
  these and not on verbs.
- `OwnedInv`: an open call is that of a daemon that is serving or closing.
- `ReachInv`, while nothing overlapped or was cut short: one call manages at a
  time; a process that its start has been told of is named by the role's file;
  during a start and its rollback the call's handles name whatever is alive; the
  handle of a stop names the last of its role.
- `HealInv`: after a restart, a call is still stopping what was there, or
  `Mends`: the start is to come, on its way, through and successful, or the
  fingerprints are stale -- while no pending call takes anything down
  (`AllMild`) and every process that is past booting has the current configuration.
  It also says that an infrastructure which accepted connections when the restart
  was given stays up (`StaysUp`): without that a start may find a database that
  does not answer (3.1).

### 4.8 Only model-checked

- `QueuedRunEnds`, `AbortStopsCodex` and `StopEnds`: TLAPS proves neither fairness
  nor ENABLED.
- Every safety property of every run is proved.  Where one is an induction over
  data (the output window, the text of a card) the induction is over a *set* of
  numbers, `FromZero`, which needs no theorem with an operator parameter.
- `SingleActiveRun` and `RestartLoadsConfig` are false (3.1).

## 5. Plan

1. *Done*: the six families of modules and their runs.
2. *Done*: the types, every safety and action property of the runs, and that run
   execution implements its lifecycle, as theorems.

## 6. Not modelled, and why

- Install, onboarding, doctor, uninstall, docker preflight and service
  definitions (`packages/carvis-cli/src/`): prompts and files of one command at a
  time; `configure` is that the configuration changes.
- Parsing and validation of the configuration, migrations, release scripts, the
  memory benchmark: I/O and tooling without coordination.
- Workspace memory: files read and written by one run, and text of prompts.
- The connection of the websocket and its SDK, signatures of webhooks, escaping
  and emphasis within a line, wording of messages.
- Of managed schedules: matching by text, audit rows, the prompt.  Of the daemon:
  `runtime_reconcile` (no client sends it), `daemon_status` (it only refreshes)
  and `infra_rebuild`, which differs from a restart in the arguments of compose.
- `card-summary-renderer.ts` and the in-memory twins of the drivers: tests only.
