# TLA+ models of the trigger.dev V2 run engine and managed runner

This directory holds TLA+ models of the run-execution path of this repository:
- how the V2 run engine (`src/unnamed/part_002`, class `RunEngine`) creates,
  queues, dequeues and resumes runs, and the run lifecycle it promises;
- how the managed runner process
  (`src/packages/cli-v3/src/entryPoints/managed-run-controller.ts`) executes
  them against the platform;
- how a supervisor subscribes to run notifications over the `/worker` socket;
- how the run queue's Redis keys are built and parsed.

Each module is translated from the source. The line ranges each definition
models are listed under `"map"` in `PROJECT.json`.

## 1. Inventory

### Components and how they interact

| Component | Source | State | Operations |
|---|---|---|---|
| Run Engine | `part_002` 107-853 | TaskRun rows, the snapshot log per run, Waitpoint and TaskRunWaitpoint rows, TaskQueue rows, the run locks (redlock) | `trigger`, `dequeueFromMasterQueue`, the worker jobs `waitpointCompleteDateTime` / `heartbeatSnapshot` / `expireRun`, `#completeWaitpoint`, `#continueRun`, `#enqueueRun`, `#createExecutionSnapshot`, `#handleStalledSnapshot` |
| Run queue (Redis) | not under `src/`; spec.md 4.3 | queued messages, in-flight messages, queue and env concurrency limits | enqueue, dequeue from the master queue, update and remove the limit |
| Engine worker | not under `src/`; `part_002` 75-149 | pending jobs with a 5 s visibility timeout | enqueue (with `availableAt`), run, ack, redeliver |
| ManagedRunController | `managed-run-controller.ts` | `state` (phase, run, snapshot), `taskRunProcess`, the two lock flags, the poller | `start`, `waitForNextRun`, `startAndExecuteRunAttempt`, `executeRun`, `handleCompletionResult`, `handleWait`, `handleSnapshotChange`, the poller, `run:notify` |
| Workload platform | not under `src/` (part_005 is a thin route); spec.md 4.6/4.7 | the snapshot log and attempt number per run | startAttempt, completeAttempt, waitForDuration, getRunExecutionData, warm-start long poll, cancel, continue |
| SupervisorSession and worker namespace | `utilities/eventBus.ts`, `part_003` 385-517 | socket rooms per run | `run:subscribe`, `run:unsubscribe`, `run:notify` |
| RunQueueShortKeyProducer | `core/src/v3/lifecycle-hooks-api.ts` 55-227 | none (pure) | key building and parsing |
| TriggerTaskService, V1 namespaces, UI, docs | the rest of `src/` | none of their own | routing, forwarding, rendering |

How the components interact:
- The engine writes each run's snapshot log (spec 3) and pushes run ids to the
  run queue.
- A supervisor dequeues a run and hands it to a runner (by env vars, or by the
  warm-start long poll).
- The runner starts an attempt on the latest snapshot, runs the task in a
  child process and completes the attempt.
- The platform answers each completion with FINISHED, a retry on the same
  runner (RETRY_IMMEDIATELY), or a re-queue (RETRY_QUEUED).
- The runner follows later snapshot changes by polling every 5 s and through
  `run:notify`.

### The hard behaviours

- **Engine:**
  - Many trigger calls, consumers and worker executions run concurrently.
  - Each trigger takes only its own run's lock.
  - `#completeWaitpoint` reads outside its transaction and writes inside it.
  - `#continueRun` enqueues to Redis before that transaction commits.
  - Jobs are redelivered after a 5 s visibility timeout.
  - A lock may time out, or its lease may be lost mid-call.
  - The process running `trigger` may crash between its writes and the
    Redis enqueue.
- **Runner:**
  - It is one cooperative thread, but every `await` lets another continuation
    run: old attempt chains, the snapshot-change handler, the poller, the
    notify handler, `waitForNextRun`.
  - `startAndExecuteRunAttempt` and `waitForNextRun` are started without
    `await`.
  - Fields such as `this.runFriendlyId` are read after awaits.
  - Responses are applied after they were served.
  - Two lock flags drop concurrent calls instead of queueing them.
  - An exit timer and a long-poll deadline end the process.
  - The socket to the supervisor may drop and reconnect. socket.io buffers
    emits while it is down, and the server forgets rooms on every drop.
  - SIGTERM can arrive while attempt chains are in flight.

### What makes each component correct

- **Engine:**
  - The engine implements the abstract run lifecycle (`RunLifecycle`): a
    QUEUED snapshot precedes the Redis enqueue, no run is enqueued twice,
    and only a popped message is marked DEQUEUED.
  - A popped message is never left in flight.
  - Every triggered run is eventually dequeued.
  - A stale stall check is dropped.
  - The Redis queue limit agrees with the TaskQueue row.
  - Invariants about `#continueRun` (no double queueing, no early queueing
    of a delayed run, no row left on a completed waitpoint) are not stated:
    on the paths the code takes, a completion resumes no run (DELAYED is
    skipped at `part_002:658`, a parent trigger throws first), so such a
    property could only restate a guard.
- **Runner:**
  - The snapshot-change lock is always released.
  - A completion is only ever for the run whose child produced it.
  - At most one child process runs.
  - The runner never moves back to an older snapshot.
  - A platform cancel of the run reaches its running child, even when the
    notification was dropped or the subscription lost.
- **Notification channel:** a subscribed supervisor receives the
  notifications of its runs.
- **Key producer:** the keys derived from a queue key are the keys built
  from its environment and queue, and the counter scan finds exactly the queue
  counters.

The hazards, with the line where each one bites, are listed under
`"hazards"` in `PROJECT.json`.

## 2. Plan

Modules, in order of importance:

1. `RunEngine` (done): trigger, dequeue, waitpoint completion, stall checks,
   with the run queue and worker jobs from the spec.
2. `ManagedRunController` (done): the runner's continuations against a
   platform modelled from spec 4.6/4.7.
3. `NotifyChannel` (done): `SupervisorSession` against the `/worker`
   namespace. A violation run shows that subscriptions never join a room.
4. `KeyProducer` (done): the key builders and parsers as operators over
   segment sequences, with a pass run.
5. `RunLifecycle` plus refinement (done): the abstract lifecycle of spec 3
   and 4.3. `MCRunEngine` maps the engine onto it, and `engine_safety`
   checks `RefinesRunLifecycle`.
6. Engine crashes between the snapshot write and the enqueue (done:
   `TriggerCrash`; the stranded QUEUED run is a hazard, see below).
7. Composing `NotifyChannel` with the runner's notify path (later). This
   needs the supervisor application, which is not under `src/`.

## 3. Modules and their correspondence to the code

### RunEngine.tla (MCRunEngine.tla)

Constants:
- `Runs`, `Consumers` (supervisors calling `dequeueFromMasterQueue`) and
  `Executions` (worker slots) are sets of model values.
- `TriggerOptions` is the set of option records a `trigger` call may carry:
  `delay`, `ttl`, `parent`, `queue` with its concurrencyLimit.
- `LockCanTimeOut` lets redlock give up, or lose its lease.

The relational store:
- `runStatus`, `snapshots` (the status sequence per run), `waitpoint`,
  `runWaitpoints` and `taskQueueLimit` hold committed state.
- `#completeWaitpoint`'s transaction keeps its writes in `exec[e]` until its
  commit step. This is READ COMMITTED: other actors see nothing until commit.
- `deleteMany` blocks on the row locks of an uncommitted transaction that
  deleted the same rows.

Redis and the worker:
- Redis is `queued`, `inflight` and `queueLimit`.
- Pending worker jobs are the set `jobs`. A job stays in `jobs` until its
  handler returns, so any execution may take it again; this is redelivery
  after the visibility timeout.

The `trigger` call is split at its awaits that matter:

| Action | Source lines | What it does |
|---|---|---|
| `TriggerCreate` | 194-247 | run row and RUN_CREATED snapshot |
| `TriggerLock` | 249-306 | lock, associated waitpoint, parent blocking (throws), abort check, TaskQueue upsert |
| `TriggerPushLimit` | 308-316 | Redis limit |
| `TriggerSchedule` | 319-349 | delay waitpoint and job, or expireRun job; abort check; QUEUED snapshot |
| `TriggerEnqueue` | `#enqueueRun` 478 | Redis enqueue |
| `TriggerRelease` | | lock released |

Other actions:
- `DequeueMessage` and `DequeueSnapshot` / `DequeueLockTimeout` split
  `dequeueFromMasterQueue` at its pop.
- `CompleteWaitpointRead`, `Find`, `Body` and `Commit` are
  `#completeWaitpoint`. `Body` includes `#continueRun`'s immediate Redis
  enqueue and heartbeat job.
- `HandleStalledSnapshot` and `ExpireRun` are the other two job handlers.
- `TriggerCrash` is the fault model: the process running `trigger` dies at
  any of its awaits before the Redis enqueue. Its snapshot writes stay
  committed, and the redlock lease expires, so the lock is free again. The
  number of crashes is bounded by `MaxCrashes`; crashed runs are counted
  from `trig`, so no extra variable is needed.

Under the code as it is, `RunsToResume` is always empty:
- delayed runs have status DELAYED;
- parent blocking throws.

So `#continueRun` is dead code today. The project states no invariant that
only `#continueRun` could break: such a property passes without its case
ever happening. `CompleteWaitpointBody` keeps the code's order (Redis
enqueue before the commit) so that the model stays faithful if the status
filter at line 658 changes; `engine_delayed` shows what the filter costs.

### ManagedRunController.tla (MCManagedRunController.tla)

Platform variables:
- `pLog` is the run's snapshot log, each entry a status plus a
  completed-waitpoints flag.
- `pAttempt` is the attempt number.
- `warm` holds the dequeued snapshots offered to `/warm-start`.
- `accepted` holds the completions the platform took.

Runner variables:
- `state`, `taskRunProcess` and `pollerOn` mirror the fields of the class.
- `proc[a]` is the child process of attempt chain `a`.
- `att[a]` is the program counter of a `startAndExecuteRunAttempt` /
  `executeRun` chain.
- `hsc` / `hscLock` and `wfnr` / `wfnrLock` are the bodies of
  `handleSnapshotChange` and `waitForNextRun` and their lock flags.
- `poll` and `notif` are the pending `getRunExecutionData` requests of the
  poller and the notify handler.
- `sock` is the runner's socket.io connection to the supervisor's
  `/workload` namespace: `up`, the server-side `rooms` of this connection,
  `pend` (the `run:start`/`run:stop` emits socket.io buffers while
  disconnected), the number of `drops`, and `closed` after `socket.close()`.
- `stopPc` is the progress of the SIGTERM handler and `stop()`.

A request is served (`PollServed`) and delivered (`PollDone`) in separate
steps, so a response can be stale when it is applied.

Operators:
- `CallWaitForNextRun(s)` is the synchronous prefix of a `waitForNextRun()`
  call made without `await`: the lock check, `enterWarmStartPhase`, and the
  SIGKILL of whatever `this.taskRunProcess` is at that moment.
- `CompleteAndHandle` is `completeRunAttempt` followed by
  `handleCompletionResult`.

Socket and phase changes:
- `EnterRunPhase` and `OnExitRunPhase` are `enterRunPhase` and
  `onExitRunPhase`: leaving a run emits `run:stop` for it, and every start of
  a run emits `run:start` (`SubscribeToRunNotifications`).
- `SockDrop` is a transport drop (bounded by `MaxDrops`); the server forgets
  the connection's rooms.
- `SockConnect` is socket.io's reconnect. It flushes the buffered emits
  (`BufferedRooms`) and then runs the `connect` handler, which subscribes
  to the current run (`ResubscribedRooms`).
- `RunFriendlyId` and `SnapshotFriendlyId` are the class's getters, which
  are undefined outside the RUN phase.
- `WfnrPolled` takes any `LongPollResults`: a dequeued snapshot, or a failed
  long poll, after which the runner exits.
- `Sigterm` and `StopDone` are the SIGTERM handler and `stop()`: the child is
  killed, then the poller stops and the socket is closed. One SIGTERM is
  modelled.
- `HeartbeatRunIds` is the `runHeartbeat` tick (lines 298-319). The tick
  changes no runner state, so it is modelled as the pair of ids it sends.
  It is started and stopped with the snapshot poller, so it ticks while
  `pollerOn`. `HeartbeatStopsOnlyAfterExecuting` says that the heartbeat
  for a run stops only after the platform has moved the run out of
  EXECUTING.

Left out:
- The platform's stall timer behind `heartbeatRun` is not under `src/`.
- Suspension: `disableSuspend` is set.
- Where the supervisor handles `run:start`/`run:stop` (not under `src/`), a
  connection joins or leaves the run's room. This follows spec 4.6. Spec
  line 213 names these events `run:subscribe`/`run:unsubscribe`.

### RunLifecycle.tla (abstract)

This module is written from spec.md sections 3 and 4.3, not from code.

Variables, per run:
- `status`: the latest snapshot's `executionStatus`;
- `queue`: whether the run is in the queue;
- `taken`: whether the run is in flight.

Actions:
- `Create`
- `MarkQueued`: from RUN_CREATED or BLOCKED_BY_WAITPOINTS.
- `Enqueue`: only when QUEUED, and not already queued or taken.
- `Take`
- `MarkDequeued`: only for a taken run.

`MCRunEngine` defines `Lifecycle == INSTANCE RunLifecycle WITH status <- latest
snapshot, queue <- queued, taken <- inflight`. `RefinesRunLifecycle ==
Lifecycle!Spec` is checked in `engine_safety`. Every engine step not listed
above maps to a stutter: lock steps, jobs, orphaning, stall checks.

### KeyProducer.tla (MCKeyProducer.tla)

`RunQueueShortKeyProducer` (`lifecycle-hooks-api.ts` 38-227) is modelled as
operators:
- A key is the sequence of its `:`-separated segments.
- `join(":")` is `FlattenSeq`, and `split(":")` is the sequence itself.
- The regex `/:ck:.+$/` cuts at the first `ck` segment that has a segment
  after it.
- `GlobMatch` is a RECURSIVE reference for Redis `SCAN MATCH`. In it, `*`
  matches one or more whole segments.

The variables (`env`, `queue`, `ck`, `prefixed`) only pick the input. Each
state is one input, and the invariants are checked for it.

### NotifyChannel.tla (MCNotifyChannel.tla)

Supervisor side (`eventBus.ts` 80-272):
- `session` and `socket` are the state of `start`/`stop` and `this.socket`.
- `outbox` holds emitted messages; socket.io buffers them while the socket
  is disconnected.
- `wanted` is the history of subscribe and unsubscribe calls.

Server side (`part_003` 385-521):
- `connected` and `kicked` are the connection and the auth rejection.
- `rooms` is the per-connection room set, which is new on every connection.

A message is a record with the fields the client sends. The server handler
reads `runIds`; a missing field joins nothing, as `runIds.map` throws.
`ConnectionLost` drops the rooms and a prefix of the outbox, which is the
packets already written. The platform's `run:notify` sender is not under
`src/`, so `RunNotify` follows spec 4.6.

## 4. Runs

| Run | Expect | What it shows |
|---|---|---|
| `engine_safety` | pass | 2 runs over all delay/ttl/queue options (limits -1, 1, none, absent), 2 consumers, 2 worker executions, lock timeouts and one `trigger` crash. `TypeOK` checks the `Math.max` clamp; the engine refines `RunLifecycle` (about 1.6M states, 1 minute). |
| `engine_liveness` | pass | Runs without delay or parent are eventually dequeued. |
| `engine_delayed` | violation | Delayed runs are never dequeued: DELAYED is not resumed (`part_002:658`). |
| `engine_lockTimeout` | violation | A message popped under a held lock is abandoned. |
| `engine_staleStall` | violation | `#handleStalledSnapshot` passes the run id as the Prisma client and always throws. |
| `engine_limitDrift` | violation | The Redis queue limit drifts from the TaskQueue row. |
| `runner_single` | pass | One run with cancels, waits, notifies, polls, immediate and queued retries, a dropped supervisor connection and SIGTERM. A platform cancel of the run always reaches a running child, through the poller when the `run:notify` was dropped under `handleSnapshotChange`'s lock or the subscription was lost, unless the process exits or `stop()` has run (`CancelReachesChild`; about 1.06M states, under 3 minutes). |
| `keys` | pass | 4 environments (two dev in one project, production, staging), 4 queue names and 4 concurrency keys (some with `:`), prefixed or not. The derived env/org keys and queue limit key match the built ones. The scan pattern selects exactly the queue counters. Dev master queues are per environment. The global current-concurrency pattern of a queue key matches the counters of its org, project and environment type and no others (`GlobalKeyCoversEnvironments`). |
| `notify_subscribe` | violation | The supervisor emits `runFriendlyIds` and the server reads `runIds`, so a subscribed, connected supervisor is in no room (`eventBus.ts:163` vs `part_003:457`). |
| `runner_crossRun` | violation | An old `executeRun` continuation completes the next run. |
| `runner_twoChildren` | violation | A stale chain's immediate retry starts a second child. |
| `runner_abandon` | violation | The runner stops heartbeating a run that the platform still has EXECUTING (`HeartbeatStopsOnlyAfterExecuting`, below). |

Each property of a pass run has a mutant in `PROJECT.json`. The mutant is a
plausible bug in the modelled code, and TLC finds the property violated under
it. Examples:
- dropping `Math.max(0, _)`;
- resuming DELAYED runs;
- dropping the `finally` that clears the snapshot-change lock;
- entering the RUN phase without starting the poller (a cancel then reaches
  the child only through a notification, which may be dropped);
- cutting the global concurrency key at `:queue:` instead of `:env:`.

### The `runner_abandon` finding

TLC finds `HeartbeatStopsOnlyAfterExecuting` violated in 8 states: the initial state, then `Boot`,
`AttStart`, `HandleWait`, `ProcExit`, `AttExecDone`, `PlatformResume`,
`AttCleanedUp`. The run waits. The child exits while the wait is pending,
and the platform then resumes the run to EXECUTING under a new snapshot.
`executeRun` completes the attempt on the runner's cached
`snapshotFriendlyId`, which is no longer the latest. The platform rejects
the completion (spec line 221). The runner does not refetch and retry
(spec line 227 calls the error retryable at the caller). It goes to
`waitForNextRun` and its heartbeat for the run stops. The run stays
EXECUTING with no heartbeat, and the platform's stall check would be its
only way out, but that check always throws (`engine_staleStall`).

### Properties TLC finds violated that have no run of their own

The runs are capped, so these four are recorded as hazards in
`PROJECT.json`, with their traces:
- `SubscribedWhileRunning` fails in 6 steps. Boot buffers `run:start` for
  the dequeued run, and the first connect flushes it. The connection then
  drops. socket.io reconnects while the attempt is still starting, so the
  connect handler finds no run to resubscribe. The attempt then enters RUN
  in no room. The run is then observed only by the poller, and
  `CancelReachesChild` checks that a cancel still reaches the child.
- `SubscribedOnlyToCurrentRun` fails in 16 steps. A queued retry is picked
  up by `waitForNextRun` after its `run:start` was emitted, and its start
  fails. The room is never left, but the handler ignores other runs
  (`managed-run-controller.ts:773`).
- `NoChildAfterStop` fails in 5 steps: boot, SIGTERM, `stop()`, then an
  attempt chain already under way starts a child. SIGTERM kills the current
  child but does not stop the chains. Such a child is also out of reach
  of a cancel, because `stop()` stopped the poller: that is why
  `CancelReachesChild` ends its obligation at `stop()`.
- `SnapshotNeverRegresses` fails in 9 steps, under the `runner_abandon`
  configuration. A poll response served before a newer snapshot is applied
  after it, so the runner's snapshot goes back. The next poll corrects it,
  unless a retry starts first. This run slot was given to
  `runner_abandon`, whose abandonment is permanent.

## 5. Bounds and why they are enough

- **Engine:**
  - Two runs and two worker executions are the fewest that exercise the
    races: two triggers on one queue, and two deliveries of one completion
    job.
  - Queue limits -1 and 1 cover clamping and a limit that blocks.
- **Runner:**
  - `MaxSnapshots = 6` allows start, wait, resume, cancel and completion for a
    run.
  - `MaxAttempts = 2` chains allow one stale chain beside the current one.
  - `MaxRunAttempts = 2` allows one retry.
  - The violation runs use two runs, the fewest for a cross-run continuation.
- **Key producer:** two dev environments in one project are the fewest that
  can collide on a master queue. Names with one, two and three segments,
  including segments `env` and `queue`, probe the fixed-index parsing and the
  glob. Queue names with a `ck` segment are left out; see hazard
  `lifecycle-hooks-api.ts:112`.
- **Faults:** `MaxCrashes = 1` in `engine_safety` (0 elsewhere) and
  `MaxDrops = 1` are enough for a crash or a drop to hit every await.
  A second one only repeats the same interleavings.
- **Notify:** two runs and three messages are enough to subscribe, drop the
  connection and reconnect.
- Liveness runs use one consumer (engine) and one run (runner) to stay within
  minutes.

## 6. Fairness

- **Engine:**
  - Weak fairness per trigger call: an awaited call runs to its end.
  - Weak fairness per consumer and per worker execution: the supervisor's
    dequeue loop and the worker's poll loop never stop.
  - Weak fairness for the expire and stall-check jobs.
- **Runner:**
  - Weak fairness for every pending continuation (the Node event loop runs
    each one), the poller, and the platform's resume and re-dequeue.
  - No fairness on a child process finishing: a task may run for as long
    as it likes, and cancellation is what must stop it.
  - Weak fairness for `SockConnect` (socket.io reconnects on its own unless
    closed) and for `StopDone` (the SIGTERM handler runs to its end).
  - No fairness on `TriggerCrash` or `SockDrop`: faults need not happen.
  - No fairness on cancellation, notifications, `handleWait` or the exit
    timer: these depend on users and the environment.

## 7. Not modelled

| Part | Why |
|---|---|
| `sharedQueueScanPattern`, `globalCurrentConcurrencyKey`, `messageKey` | Their globs and regexes act inside a segment; no property depends on them. |
| The supervisor application and the runner's `run:start`/`run:stop` handling | Not under `src/`. |
| Stall checks for RUN_CREATED snapshots | The heartbeat jobs are modelled. The run that showed the gap was retired, because every stall check throws anyway (`engine_staleStall`). |
| Engine crashes anywhere but in `trigger` | A crash in a worker job is the redelivery that is already modelled. A crash after the dequeue pop leaves the message in flight, as the lock give-up does (`engine_lockTimeout`). |
| `stripKeyPrefix`, `globalCurrentConcurrencyKey`, `messageKey` callers | No code under `src/` calls them. |
| `availableAt` timing of jobs | Any pending job may run. |
| TriggerTaskService routing, the V1 socket namespaces, UI presenters, routes and docs | They carry no state of their own. |
