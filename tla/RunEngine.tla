----------------------------- MODULE RunEngine -----------------------------
(***************************************************************************)
(* The V2 run engine of src/unnamed/part_002 (class RunEngine): trigger,   *)
(* dequeueFromMasterQueue, the run-engine worker jobs (heartbeatSnapshot,  *)
(* waitpointCompleteDateTime, expireRun) and #completeWaitpoint with       *)
(* #continueRun.  The run queue (Redis) is modelled from spec.md section   *)
(* 4.3: a set of queued run ids, a set of in-flight ids, and the queue     *)
(* concurrency limit key.  The relational store is modelled as committed   *)
(* state; a READ COMMITTED transaction keeps its writes private until its  *)
(* commit step.                                                            *)
(***************************************************************************)
EXTENDS Naturals, Sequences, FiniteSets

CONSTANTS
    Runs,                 \* run ids (model values)
    Consumers,            \* supervisors calling dequeueFromMasterQueue
    Executions,           \* worker slots executing waitpointCompleteDateTime
    TriggerOptions,       \* the trigger parameters a call may carry
    NoParent,             \* no parent run with resumeParentOnCompletion
    NoLimit,              \* concurrencyLimit undefined / no Redis limit key
    NoRow,                \* no TaskQueue row yet
    AbsentQueue,          \* trigger called without the `queue` option
    EnvConcurrencyLimit,  \* the environment concurrency limit (default 10)
    LockCanTimeOut,       \* redlock retries may run out / lease may be lost
    MaxCrashes            \* bound on trigger calls cut short by a crash

ASSUME EnvConcurrencyLimit \in Nat \ {0}
ASSUME LockCanTimeOut \in BOOLEAN
ASSUME MaxCrashes \in Nat

VARIABLES
    runStatus,      \* TaskRun.status, "NONE" before the run row exists
    snapshots,      \* committed TaskRunExecutionSnapshot rows, oldest first
    waitpoint,      \* Waitpoint.status by waitpoint id
    runWaitpoints,  \* committed TaskRunWaitpoint rows <<run, waitpoint>>
    taskQueueLimit, \* TaskQueue.concurrencyLimit in the database
    queueLimit,     \* the queue concurrency-limit key in Redis
    queued,         \* run ids in the Redis queue
    inflight,       \* run ids dequeued and holding a concurrency slot
    jobs,           \* pending run-engine worker jobs
    trig,           \* program counter of the trigger call of each run
    opts,           \* the parameters the run was triggered with
    limitRead,      \* TaskQueue.concurrencyLimit returned to trigger
    lockHeld,       \* runs whose redlock is held by their trigger call
    consumer,       \* run a consumer has popped and not yet snapshotted
    exec,           \* state of each #completeWaitpoint execution
    orphaned,       \* <<run, why>> of popped runs whose dequeue threw
    stallFailed     \* snapshot ids whose stall check has thrown

vars == <<runStatus, snapshots, waitpoint, runWaitpoints, taskQueueLimit,
          queueLimit, queued, inflight, jobs, trig, opts, limitRead,
          lockHeld, consumer, exec, orphaned, stallFailed>>

Idle == "idle"

WaitpointIds == Runs \X {"RUN", "DATETIME"}
RunWp(r) == <<r, "RUN">>
DateTimeWp(r) == <<r, "DATETIME">>

ExecutionStatuses ==
    {"RUN_CREATED", "QUEUED", "DEQUEUED_FOR_EXECUTION", "EXECUTING",
     "BLOCKED_BY_WAITPOINTS", "FINISHED"}

Latest(r) == snapshots[r][Len(snapshots[r])]

HeartbeatJob(r, i) == [type |-> "heartbeatSnapshot", run |-> r, snap |-> i]
DateTimeJob(w) == [type |-> "waitpointCompleteDateTime", wp |-> w]
ExpireJob(r) == [type |-> "expireRun", run |-> r]

(* #createExecutionSnapshot: statuses whose creation schedules a stall    *)
(* check (a heartbeatSnapshot job keyed by the new snapshot id).          *)
HeartbeatStatuses ==
    {"RUN_CREATED", "QUEUED", "BLOCKED_BY_WAITPOINTS", "FINISHED",
     "DEQUEUED_FOR_EXECUTION", "EXECUTING"}

StartHeartbeating(r, i, status) ==
    IF status \in HeartbeatStatuses THEN {HeartbeatJob(r, i)} ELSE {}

(* Mutant of ClampedLimit: the limit stored without Math.max(0, _).      *)
ClampedLimitUnclamped(q) == q

(* trigger: the queue option's concurrencyLimit, Math.max(0, limit).      *)
ClampedLimit(q) == IF q = NoLimit THEN NoLimit ELSE IF q < 0 THEN 0 ELSE q

(* trigger: findFirst then update or create the TaskQueue row.  Prisma    *)
(* leaves a field unchanged when update gets undefined.                   *)
UpsertedLimit(old, q) ==
    IF old = NoRow THEN ClampedLimit(q)
    ELSE IF q = NoLimit THEN old
    ELSE ClampedLimit(q)

(* Mutant of ShouldEnqueue: ttl runs are held back too.                  *)
ShouldEnqueueNoTtl(r) == ~opts[r].delay /\ ~opts[r].ttl

(* trigger: enqueue the run only if it is not delayed.                    *)
ShouldEnqueue(r) == ~opts[r].delay

(* Mutant of ResumableRunStatuses: DELAYED runs continued as well.        *)
ResumableRunStatusesWithDelayed == {"PENDING", "WAITING_TO_RESUME", "DELAYED"}

(* #completeWaitpoint step 4: run statuses that are continued.            *)
ResumableRunStatuses == {"PENDING", "WAITING_TO_RESUME"}

(* dequeueFromMasterQueue: latest snapshot statuses accepted.             *)
DequeueableStatuses == {"QUEUED", "BLOCKED_BY_WAITPOINTS"}

(* The run queue's concurrency gate (spec 4.3): env and queue limits.      *)
HasCapacity ==
    /\ Cardinality(inflight) < EnvConcurrencyLimit
    /\ queueLimit # NoLimit => Cardinality(inflight) < queueLimit

IdleExec == [pc |-> Idle, wp |-> NoParent, affected |-> {}, resumed |-> {}]

Init ==
    /\ runStatus = [r \in Runs |-> "NONE"]
    /\ snapshots = [r \in Runs |-> <<>>]
    /\ waitpoint = [w \in WaitpointIds |-> "NONE"]
    /\ runWaitpoints = {}
    /\ taskQueueLimit = NoRow
    /\ queueLimit = NoLimit
    /\ queued = {}
    /\ inflight = {}
    /\ jobs = {}
    /\ trig = [r \in Runs |-> Idle]
    /\ opts = [r \in Runs |-> CHOOSE o \in TriggerOptions : TRUE]
    /\ limitRead = [r \in Runs |-> NoLimit]
    /\ lockHeld = {}
    /\ consumer = [c \in Consumers |-> Idle]
    /\ exec = [e \in Executions |-> IdleExec]
    /\ orphaned = {}
    /\ stallFailed = {}
-----------------------------------------------------------------------------
(* trigger, lines 194-247: create the run row and its RUN_CREATED          *)
(* snapshot (nested create: #createExecutionSnapshot is not called).       *)
TriggerCreate(r, o) ==
    /\ trig[r] = Idle
    /\ o.parent \in {NoParent} \cup {p \in Runs \ {r} : runStatus[p] # "NONE"}
    /\ opts' = [opts EXCEPT ![r] = o]
    /\ runStatus' = [runStatus EXCEPT ![r] = IF o.delay THEN "DELAYED" ELSE "PENDING"]
    /\ snapshots' = [snapshots EXCEPT ![r] = <<"RUN_CREATED">>]
    /\ trig' = [trig EXCEPT ![r] = "created"]
    /\ UNCHANGED <<waitpoint, runWaitpoints, taskQueueLimit, queueLimit, queued,
                   inflight, jobs, limitRead, lockHeld, consumer, exec,
                   orphaned, stallFailed>>

(* trigger, lines 249-317 up to the Redis limit push: take the run lock,  *)
(* create the associated waitpoint, block the parent (#blockRunWithWait-  *)
(* point throws NotImplementedError), check the lock, upsert TaskQueue.   *)
(* A throw releases the lock and leaves the run row behind.               *)
TriggerLock(r) ==
    /\ trig[r] = "created"
    /\ r \notin lockHeld
    /\ waitpoint' = [waitpoint EXCEPT ![RunWp(r)] = "PENDING"]
    /\ \/ /\ opts[r].parent # NoParent
          /\ trig' = [trig EXCEPT ![r] = "failed"]
          /\ UNCHANGED <<taskQueueLimit, limitRead, lockHeld>>
       \/ /\ opts[r].parent = NoParent
          /\ LockCanTimeOut
          /\ trig' = [trig EXCEPT ![r] = "failed"]
          /\ UNCHANGED <<taskQueueLimit, limitRead, lockHeld>>
       \/ /\ opts[r].parent = NoParent
          /\ opts[r].queue = AbsentQueue
          /\ trig' = [trig EXCEPT ![r] = "limited"]
          /\ lockHeld' = lockHeld \cup {r}
          /\ UNCHANGED <<taskQueueLimit, limitRead>>
       \/ /\ opts[r].parent = NoParent
          /\ opts[r].queue # AbsentQueue
          /\ taskQueueLimit' = UpsertedLimit(taskQueueLimit, opts[r].queue)
          /\ limitRead' = [limitRead EXCEPT ![r] = taskQueueLimit']
          /\ trig' = [trig EXCEPT ![r] = "upserted"]
          /\ lockHeld' = lockHeld \cup {r}
    /\ UNCHANGED <<runStatus, snapshots, runWaitpoints, queueLimit, queued,
                   inflight, jobs, opts, consumer, exec, orphaned, stallFailed>>

(* trigger, lines 308-316: push the limit read back from the row to Redis *)
(* (updateQueueConcurrencyLimits or removeQueueConcurrencyLimits).        *)
TriggerPushLimit(r) ==
    /\ trig[r] = "upserted"
    /\ queueLimit' = limitRead[r]
    /\ trig' = [trig EXCEPT ![r] = "limited"]
    /\ UNCHANGED <<runStatus, snapshots, waitpoint, runWaitpoints, taskQueueLimit,
                   queued, inflight, jobs, opts, limitRead, lockHeld, consumer,
                   exec, orphaned, stallFailed>>

(* trigger, lines 319-349 and #enqueueRun lines 470-476: the datetime     *)
(* waitpoint, its job and the run's own TaskRunWaitpoint row, or the      *)
(* expireRun job; the second lock check; the QUEUED snapshot.             *)
TriggerSchedule(r) ==
    /\ trig[r] = "limited"
    /\ LET delayed == opts[r].delay
           i == Len(snapshots[r]) + 1
       IN
       /\ waitpoint' = IF delayed
                       THEN [waitpoint EXCEPT ![DateTimeWp(r)] = "PENDING"]
                       ELSE waitpoint
       /\ runWaitpoints' = IF delayed
                           THEN runWaitpoints \cup {<<r, DateTimeWp(r)>>}
                           ELSE runWaitpoints
       /\ \/ /\ LockCanTimeOut
             /\ trig' = [trig EXCEPT ![r] = "failed"]
             /\ lockHeld' = lockHeld \ {r}
             /\ jobs' = jobs \cup (IF delayed THEN {DateTimeJob(DateTimeWp(r))}
                                   ELSE IF opts[r].ttl THEN {ExpireJob(r)} ELSE {})
             /\ UNCHANGED snapshots
          \/ /\ ShouldEnqueue(r)
             /\ snapshots' = [snapshots EXCEPT ![r] = Append(@, "QUEUED")]
             /\ jobs' = jobs \cup (IF delayed THEN {DateTimeJob(DateTimeWp(r))}
                                   ELSE IF opts[r].ttl THEN {ExpireJob(r)} ELSE {})
                             \cup StartHeartbeating(r, i, "QUEUED")
             /\ trig' = [trig EXCEPT ![r] = "enqueue"]
             /\ UNCHANGED lockHeld
          \/ /\ ~ShouldEnqueue(r)
             /\ jobs' = jobs \cup (IF delayed THEN {DateTimeJob(DateTimeWp(r))}
                                   ELSE IF opts[r].ttl THEN {ExpireJob(r)} ELSE {})
             /\ trig' = [trig EXCEPT ![r] = "locked"]
             /\ UNCHANGED <<snapshots, lockHeld>>
    /\ UNCHANGED <<runStatus, taskQueueLimit, queueLimit, queued, inflight,
                   opts, limitRead, consumer, exec, orphaned, stallFailed>>

(* #enqueueRun, lines 478-492: runQueue.enqueueMessage.                   *)
TriggerEnqueue(r) ==
    /\ trig[r] = "enqueue"
    /\ queued' = queued \cup {r}
    /\ trig' = [trig EXCEPT ![r] = "locked"]
    /\ UNCHANGED <<runStatus, snapshots, waitpoint, runWaitpoints, taskQueueLimit,
                   queueLimit, inflight, jobs, opts, limitRead, lockHeld,
                   consumer, exec, orphaned, stallFailed>>

(* redlock.using returns: the trigger call releases the run lock.         *)
TriggerRelease(r) ==
    /\ trig[r] = "locked"
    /\ lockHeld' = lockHeld \ {r}
    /\ trig' = [trig EXCEPT ![r] = "done"]
    /\ UNCHANGED <<runStatus, snapshots, waitpoint, runWaitpoints, taskQueueLimit,
                   queueLimit, queued, inflight, jobs, opts, limitRead,
                   consumer, exec, orphaned, stallFailed>>
-----------------------------------------------------------------------------
(* The webapp process dies during a trigger call.  What it committed to  *)
(* Postgres and Redis stays; the call ends, and its run lock is freed     *)
(* when the 5 s redlock lease of line 249 runs out.  A crash after the    *)
(* QUEUED snapshot and before enqueueMessage leaves a QUEUED run that is  *)
(* not in the run queue.                                                  *)
TriggerCrash(r) ==
    /\ trig[r] \in {"created", "upserted", "limited", "enqueue", "locked"}
    /\ Cardinality({x \in Runs : trig[x] = "crashed"}) < MaxCrashes
    /\ trig' = [trig EXCEPT ![r] = "crashed"]
    /\ lockHeld' = lockHeld \ {r}
    /\ UNCHANGED <<runStatus, snapshots, waitpoint, runWaitpoints, taskQueueLimit,
                   queueLimit, queued, inflight, jobs, opts, limitRead,
                   consumer, exec, orphaned, stallFailed>>
-----------------------------------------------------------------------------
(* dequeueFromMasterQueue, line 380: dequeueMessageInSharedQueue moves a  *)
(* message to the in-flight set and takes a concurrency slot atomically. *)
DequeueMessage(c, r) ==
    /\ consumer[c] = Idle
    /\ r \in queued
    /\ HasCapacity
    /\ queued' = queued \ {r}
    /\ inflight' = inflight \cup {r}
    /\ consumer' = [consumer EXCEPT ![c] = r]
    /\ UNCHANGED <<runStatus, snapshots, waitpoint, runWaitpoints, taskQueueLimit,
                   queueLimit, jobs, trig, opts, limitRead, lockHeld, exec,
                   orphaned, stallFailed>>

(* dequeueFromMasterQueue, lines 385-414: under the run lock, check the   *)
(* latest snapshot and append DEQUEUED_FOR_EXECUTION; an invalid state    *)
(* throws and the popped message is left in flight.                       *)
DequeueSnapshot(c) ==
    LET r == consumer[c] IN
    /\ r # Idle
    /\ r \notin lockHeld
    /\ IF Latest(r) \in DequeueableStatuses
       THEN /\ snapshots' = [snapshots EXCEPT ![r] = Append(@, "DEQUEUED_FOR_EXECUTION")]
            /\ jobs' = jobs \cup StartHeartbeating(r, Len(snapshots[r]) + 1,
                                                  "DEQUEUED_FOR_EXECUTION")
            /\ UNCHANGED orphaned
       ELSE /\ orphaned' = orphaned \cup {<<r, "state">>}
            /\ UNCHANGED <<snapshots, jobs>>
    /\ consumer' = [consumer EXCEPT ![c] = Idle]
    /\ UNCHANGED <<runStatus, waitpoint, runWaitpoints, taskQueueLimit, queueLimit,
                   queued, inflight, trig, opts, limitRead, lockHeld, exec,
                   stallFailed>>

(* redlock.using gives up after its retries while the lock is held.       *)
DequeueLockTimeout(c) ==
    LET r == consumer[c] IN
    /\ LockCanTimeOut
    /\ r # Idle
    /\ r \in lockHeld
    /\ orphaned' = orphaned \cup {<<r, "lock">>}
    /\ consumer' = [consumer EXCEPT ![c] = Idle]
    /\ UNCHANGED <<runStatus, snapshots, waitpoint, runWaitpoints, taskQueueLimit,
                   queueLimit, queued, inflight, jobs, trig, opts, limitRead,
                   lockHeld, exec, stallFailed>>
-----------------------------------------------------------------------------
(* heartbeatSnapshot job -> #handleStalledSnapshot, line 792: it calls    *)
(* #getLatestExecutionSnapshot(runId) with the run id as the client, so   *)
(* the handler throws before comparing ids and the job is retried.        *)
HandleStalledSnapshot(j) ==
    /\ j \in jobs
    /\ j.type = "heartbeatSnapshot"
    /\ stallFailed' = stallFailed \cup {<<j.run, j.snap>>}
    /\ UNCHANGED <<runStatus, snapshots, waitpoint, runWaitpoints, taskQueueLimit,
                   queueLimit, queued, inflight, jobs, trig, opts, limitRead,
                   lockHeld, consumer, exec, orphaned>>

(* expireRun job -> expire(runId), line 448: an empty body; job acked.    *)
ExpireRun(j) ==
    /\ j \in jobs
    /\ j.type = "expireRun"
    /\ jobs' = jobs \ {j}
    /\ UNCHANGED <<runStatus, snapshots, waitpoint, runWaitpoints, taskQueueLimit,
                   queueLimit, queued, inflight, trig, opts, limitRead, lockHeld,
                   consumer, exec, orphaned, stallFailed>>
-----------------------------------------------------------------------------
(* #completeWaitpoint, lines 617-627: the waitpointCompleteDateTime job   *)
(* reads the waitpoint outside any transaction; COMPLETED returns and the *)
(* job is acked.  A job whose 5 s visibility timeout expired while an     *)
(* execution still runs it is delivered again to another execution.       *)
CompleteWaitpointRead(e, j) ==
    /\ exec[e].pc = Idle
    /\ j \in jobs
    /\ j.type = "waitpointCompleteDateTime"
    /\ IF waitpoint[j.wp] = "COMPLETED"
       THEN /\ jobs' = jobs \ {j}
            /\ UNCHANGED exec
       ELSE /\ exec' = [exec EXCEPT ![e] = [IdleExec EXCEPT !.pc = "find", !.wp = j.wp]]
            /\ UNCHANGED jobs
    /\ UNCHANGED <<runStatus, snapshots, waitpoint, runWaitpoints, taskQueueLimit,
                   queueLimit, queued, inflight, trig, opts, limitRead, lockHeld,
                   consumer, orphaned, stallFailed>>

(* step 1, lines 633-640: find the TaskRunWaitpoint rows; none throws and *)
(* the job is retried later.                                              *)
CompleteWaitpointFind(e) ==
    LET w == exec[e].wp
        affected == {r \in Runs : <<r, w>> \in runWaitpoints}
    IN
    /\ exec[e].pc = "find"
    /\ exec' = [exec EXCEPT ![e] = IF affected = {} THEN IdleExec
                                   ELSE [@ EXCEPT !.pc = "body", !.affected = affected]]
    /\ UNCHANGED <<runStatus, snapshots, waitpoint, runWaitpoints, taskQueueLimit,
                   queueLimit, queued, inflight, jobs, trig, opts, limitRead,
                   lockHeld, consumer, orphaned, stallFailed>>

(* Rows a deleteMany for waitpoint w removes (line 643).                  *)
ClearedRows(w) == {p \in runWaitpoints : p[2] = w}

(* Runs of `affected` no longer blocked once w's rows are deleted, whose   *)
(* status allows them to be continued (lines 654-671).                    *)
RunsToResume(w, affected) ==
    {r \in affected : /\ \A p \in runWaitpoints \ ClearedRows(w) : p[1] # r
                      /\ runStatus[r] \in ResumableRunStatuses}

(* steps 2-5, lines 643-676: deleteMany (blocks on the row locks of an    *)
(* uncommitted transaction that deleted the same rows), mark COMPLETED,   *)
(* and #continueRun each resumable run under its lock: the QUEUED         *)
(* snapshot stays inside the transaction, but its heartbeat job and the   *)
(* Redis enqueue (lines 525-547) take effect at once.                     *)
CompleteWaitpointBody(e) ==
    LET w == exec[e].wp
        resumed == RunsToResume(w, exec[e].affected)
    IN
    /\ exec[e].pc = "body"
    /\ \A x \in Executions \ {e} : ~(exec[x].pc = "commit" /\ exec[x].wp = w)
    /\ resumed \cap lockHeld = {}
    /\ queued' = queued \cup resumed
    /\ jobs' = jobs \cup {HeartbeatJob(r, Len(snapshots[r]) + 1) : r \in resumed}
    /\ exec' = [exec EXCEPT ![e] = [@ EXCEPT !.pc = "commit", !.resumed = resumed]]
    /\ UNCHANGED <<runStatus, snapshots, waitpoint, runWaitpoints, taskQueueLimit,
                   queueLimit, inflight, trig, opts, limitRead, lockHeld,
                   consumer, orphaned, stallFailed>>

(* $transaction commits (line 629): the deletes, the status and the       *)
(* QUEUED snapshots become visible; the job handler returns and is acked. *)
CompleteWaitpointCommit(e) ==
    LET w == exec[e].wp IN
    /\ exec[e].pc = "commit"
    /\ runWaitpoints' = runWaitpoints \ ClearedRows(w)
    /\ waitpoint' = [waitpoint EXCEPT ![w] = "COMPLETED"]
    /\ snapshots' = [r \in Runs |-> IF r \in exec[e].resumed
                                    THEN Append(snapshots[r], "QUEUED")
                                    ELSE snapshots[r]]
    /\ jobs' = jobs \ {DateTimeJob(w)}
    /\ exec' = [exec EXCEPT ![e] = IdleExec]
    /\ UNCHANGED <<runStatus, taskQueueLimit, queueLimit, queued, inflight, trig,
                   opts, limitRead, lockHeld, consumer, orphaned, stallFailed>>
-----------------------------------------------------------------------------
TriggerStep(r) ==
    \/ TriggerLock(r)
    \/ TriggerPushLimit(r)
    \/ TriggerSchedule(r)
    \/ TriggerEnqueue(r)
    \/ TriggerRelease(r)

DequeueStep(c) ==
    \/ \E r \in Runs : DequeueMessage(c, r)
    \/ DequeueSnapshot(c)
    \/ DequeueLockTimeout(c)

CompleteWaitpointStep(e) ==
    \/ \E j \in jobs : CompleteWaitpointRead(e, j)
    \/ CompleteWaitpointFind(e)
    \/ CompleteWaitpointBody(e)
    \/ CompleteWaitpointCommit(e)

Next ==
    \/ \E r \in Runs, o \in TriggerOptions : TriggerCreate(r, o)
    \/ \E r \in Runs : TriggerStep(r)
    \/ \E r \in Runs : TriggerCrash(r)
    \/ \E c \in Consumers : DequeueStep(c)
    \/ \E j \in jobs : HandleStalledSnapshot(j) \/ ExpireRun(j)
    \/ \E e \in Executions : CompleteWaitpointStep(e)

(* A trigger call, once started, runs to its end; consumers keep polling  *)
(* and worker slots keep taking jobs (the engine's Worker loop).          *)
Fairness ==
    /\ \A r \in Runs : WF_vars(TriggerStep(r))
    /\ \A c \in Consumers : WF_vars(DequeueStep(c))
    /\ \A e \in Executions : WF_vars(CompleteWaitpointStep(e))
    /\ WF_vars(\E j \in jobs : ExpireRun(j) \/ HandleStalledSnapshot(j))

Spec == Init /\ [][Next]_vars /\ Fairness
-----------------------------------------------------------------------------
TypeOK ==
    /\ runStatus \in [Runs -> {"NONE", "PENDING", "DELAYED"}]
    /\ \A r \in Runs : snapshots[r] \in Seq(ExecutionStatuses)
    /\ waitpoint \in [WaitpointIds -> {"NONE", "PENDING", "COMPLETED"}]
    /\ runWaitpoints \subseteq Runs \X WaitpointIds
    /\ taskQueueLimit \in Nat \cup {NoRow, NoLimit}
    /\ queueLimit \in Nat \cup {NoLimit}
    /\ queued \subseteq Runs /\ inflight \subseteq Runs
    /\ lockHeld \subseteq Runs /\ orphaned \subseteq Runs \X {"state", "lock"}
    /\ trig \in [Runs -> {Idle, "created", "upserted", "limited", "enqueue",
                          "locked", "done", "failed", "crashed"}]
    /\ consumer \in [Consumers -> Runs \cup {Idle}]
    /\ \A e \in Executions : exec[e].pc \in {Idle, "find", "body", "commit"}

WasDequeued(r) ==
    \E i \in DOMAIN snapshots[r] : snapshots[r][i] = "DEQUEUED_FOR_EXECUTION"

(* A message popped by dequeueFromMasterQueue always finds its run in a   *)
(* dequeueable snapshot under the run lock; otherwise the message is      *)
(* neither acked nor nacked and its concurrency slot leaks (lines 385-    *)
(* 398).  Endangered by the Redis enqueue that #continueRun performs      *)
(* before #completeWaitpoint's transaction commits.                       *)
DequeueNeverOrphans == orphaned = {}

(* Every triggered run is eventually dequeued for execution.              *)
EveryRunDequeued ==
    \A r \in Runs : (trig[r] # Idle) ~> WasDequeued(r)

(* Spec 4.5: a stall check whose snapshot is no longer the latest is      *)
(* eventually dropped (acked) by #handleStalledSnapshot.                  *)
StaleStallCheckDropped ==
    \A r \in Runs, i \in 1..3 :
        (HeartbeatJob(r, i) \in jobs /\ i < Len(snapshots[r]))
            ~> HeartbeatJob(r, i) \notin jobs

(* Once no trigger call is between its TaskQueue upsert and its Redis     *)
(* push, the Redis queue limit equals the TaskQueue row's limit.          *)
QueueLimitInSync ==
    (\A r \in Runs : trig[r] # "upserted")
        => queueLimit = IF taskQueueLimit = NoRow THEN NoLimit ELSE taskQueueLimit
====
