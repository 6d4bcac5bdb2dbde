------------------------- MODULE ManagedRunController -------------------------
(***************************************************************************)
(* The runner process of packages/cli-v3/src/entryPoints/managed-run-     *)
(* controller.ts (class ManagedRunController) against the platform side   *)
(* of the Supervisor/Runner protocol.  The runner is one cooperative      *)
(* thread: every `await` ends a step and lets any other pending           *)
(* continuation run.  Its continuations are modelled as fibers:           *)
(*   att[a]  a startAndExecuteRunAttempt / executeRun chain (several can  *)
(*           be pending at once, since they are started without await);   *)
(*   hsc     the body of handleSnapshotChange (one, by its lock flag);    *)
(*   wfnr    the body of waitForNextRun (one, by its lock flag);          *)
(*   poll    the snapshot poller's getRunExecutionData request;           *)
(*   notif   a run:notify handler's getRunExecutionData request.          *)
(* The platform (the workload HTTP API and the engine behind it) is not   *)
(* under src/ beyond stubs: it is modelled from spec.md 4.6 and 4.7.      *)
(***************************************************************************)
EXTENDS Naturals, Sequences, FiniteSets

CONSTANTS
    Runs,           \* run friendly ids (model values)
    NoRun,          \* undefined run / snapshot id
    MaxSnapshots,   \* bound on the snapshot log of a run
    MaxAttempts,    \* bound on attempt chains started by one runner
    MaxRunAttempts, \* the platform's maxAttempts for a run
    MaxDrops        \* bound on dropped supervisor connections

ASSUME MaxSnapshots \in Nat /\ MaxAttempts \in Nat \ {0}
ASSUME MaxRunAttempts \in Nat \ {0} /\ MaxDrops \in Nat

VARIABLES
    pLog,           \* platform: snapshot log of each run, oldest first
    pAttempt,       \* platform: attempt number of each run
    warm,           \* platform: dequeued snapshots /warm-start may hand out
    accepted,       \* platform: completions accepted [by, run]
    booted,         \* start() has run
    exited,         \* the runner process has exited
    state,          \* this.state: phase, run, snapshot, attemptNumber
    pollerOn,       \* snapshotPoller started
    taskRunProcess, \* this.taskRunProcess: the attempt chain that made it
    proc,           \* child process of each attempt chain
    att,            \* attempt chains
    hscLock, hsc,   \* handleSnapshotChangeLock and the body's continuation
    wfnrLock, wfnr, \* waitForNextRunLock and the body's continuation
    poll,           \* in-flight snapshot poll
    notif,          \* in-flight run:notify fetch
    sock,           \* the /workload socket: connected, the runs the
                    \* supervisor has subscribed this connection to, the
                    \* emits buffered while disconnected, drops so far,
                    \* and whether stop() closed it
    stopPc          \* the SIGTERM handler's stop() continuation

platform == <<pLog, pAttempt, warm, accepted>>
runner == <<booted, exited, state, pollerOn, taskRunProcess,
            proc, att, hscLock, hsc, wfnrLock, wfnr, poll, notif, sock, stopPc>>
vars == <<platform, runner>>

Idle == "idle"
NoAtt == 0
Attempts == 1..MaxAttempts

(* A snapshot friendly id names its run and its place in the run's log.   *)
SnapId(r, i) == <<r, i>>
Latest(r) == SnapId(r, Len(pLog[r]))
LatestEntry(r) == pLog[r][Len(pLog[r])]
RoomInLog(r) == Len(pLog[r]) < MaxSnapshots
Append1(r, status, wps) == [pLog EXCEPT ![r] = Append(@, [status |-> status, wps |-> wps])]

(* getRunExecutionData: the run, its latest snapshot and whether the      *)
(* snapshot carries completed waitpoints.                                 *)
ExecutionData(r) ==
    [run |-> r, snap |-> Latest(r), status |-> LatestEntry(r).status,
     wps |-> LatestEntry(r).wps, attempt |-> pAttempt[r]]

IdleState == [phase |-> "IDLE", run |-> NoRun, snap |-> NoRun, attempt |-> 0]

IdleAtt == [pc |-> "unused", run |-> NoRun, snap |-> NoRun, out |-> "none"]
NoFetch == [pc |-> Idle, run |-> NoRun, data |-> NoRun]
IdleHsc == [pc |-> Idle, snap |-> NoRun]

(* Child process states; "exited" carries the completion of execute().    *)
ProcStates == {"none", "running", "killed", "ok", "fail", "retry"}

Kill(p, a) == IF a # NoAtt /\ p[a] = "running" THEN [p EXCEPT ![a] = "killed"] ELSE p

(* Starts a chain at startAndExecuteRunAttempt's first await; the caller  *)
(* also emits its run:start (SubscribeToRunNotifications, line 588).      *)
Launch(f, r, s) ==
    LET a == CHOOSE x \in Attempts : f[x].pc = "unused"
    IN [f EXCEPT ![a] = [pc |-> "start", run |-> r, snap |-> s, out |-> "none"]]

HasFreeAttempt(f) == \E x \in Attempts : f[x].pc = "unused"

(* The /workload socket (createSocket, lines 745-755): socket.io buffers  *)
(* an emit while disconnected and sends the buffer, in order, on connect. *)
(* The supervisor keeps a subscription per connection, so a buffered      *)
(* run:start/run:stop only matters by the last one sent for each run.     *)
NoSub == [r \in Runs |-> "none"]

SockEmit(k, r) ==
    IF sock.up
    THEN [sock EXCEPT !.rooms = IF k = "start" THEN @ \cup {r} ELSE @ \ {r}]
    ELSE [sock EXCEPT !.pend[r] = k]

(* subscribeToRunNotifications, lines 201-211: emit run:start.            *)
SubscribeToRunNotifications(r) == SockEmit("start", r)

(* unsubscribeFromRunNotifications, lines 213-223: emit run:stop.         *)
UnsubscribeFromRunNotifications(r) == SockEmit("stop", r)

(* onExitRunPhase(newRun), lines 178-199: outside RUN, or for the same    *)
(* run, nothing; else (the poller is stopped by the caller) unsubscribe   *)
(* from this.state.run.                                                   *)
OnExitRunPhase(s, newRun) ==
    IF s.phase = "RUN" /\ s.run # newRun THEN UnsubscribeFromRunNotifications(s.run) ELSE sock

(* Mutant of EnterRunPhase: snapshotPoller.start() is left out.           *)
EnterRunPhaseNoPoller(s, r, ns, n) ==
    /\ sock' = OnExitRunPhase(s, r)
    /\ state' = [phase |-> "RUN", run |-> r, snap |-> ns, attempt |-> n]
    /\ pollerOn' = pollerOn

(* enterRunPhase(run, snapshot), lines 97-103: onExitRunPhase(run), then  *)
(* this.state = RUN and the heartbeat and snapshot poller start.          *)
EnterRunPhase(s, r, ns, n) ==
    /\ sock' = OnExitRunPhase(s, r)
    /\ state' = [phase |-> "RUN", run |-> r, snap |-> ns, attempt |-> n]
    /\ pollerOn' = TRUE

Init ==
    /\ pLog = [r \in Runs |-> <<[status |-> "DEQUEUED_FOR_EXECUTION", wps |-> FALSE]>>]
    /\ pAttempt = [r \in Runs |-> 0]
    /\ warm = {SnapId(r, 1) : r \in Runs}
    /\ accepted = {}
    /\ exited = FALSE
    /\ state = IdleState
    /\ pollerOn = FALSE
    /\ taskRunProcess = NoAtt
    /\ proc = [a \in Attempts |-> "none"]
    /\ att = [a \in Attempts |-> IdleAtt]
    /\ hscLock = FALSE /\ hsc = IdleHsc
    /\ wfnrLock = FALSE /\ wfnr = Idle
    /\ poll = NoFetch /\ notif = NoFetch
    /\ booted = FALSE
    /\ sock = [up |-> FALSE, rooms |-> {}, pend |-> NoSub, drops |-> 0, closed |-> FALSE]
    /\ stopPc = Idle

WarmState == [IdleState EXCEPT !.phase = "WARM_START"]

(* The getters runFriendlyId and snapshotFriendlyId, lines 224-238:       *)
(* undefined outside the RUN phase.                                       *)
RunFriendlyId == IF state.phase = "RUN" THEN state.run ELSE NoRun
SnapshotFriendlyId == IF state.phase = "RUN" THEN state.snap ELSE NoRun

(* waitForNextRun() called without await, lines 677-692, up to its first  *)
(* await: a call while the lock flag is set returns; otherwise it enters   *)
(* WARM_START (onExitRunPhase stops the poller) and SIGKILLs whatever      *)
(* this.taskRunProcess is.  `s` is this.state at the call.                 *)
CallWaitForNextRun(s) ==
    /\ state' = IF wfnrLock THEN s ELSE WarmState
    /\ pollerOn' = IF ~wfnrLock /\ s.phase = "RUN" THEN FALSE ELSE pollerOn
    /\ proc' = IF wfnrLock THEN proc ELSE Kill(proc, taskRunProcess)
    /\ wfnrLock' = TRUE
    /\ wfnr' = IF wfnrLock THEN wfnr ELSE "kill"
    /\ sock' = IF wfnrLock THEN sock ELSE OnExitRunPhase(s, NoRun)

(* No waitForNextRun call in the step; this.state becomes `s`.            *)
StayInPhase(s) ==
    /\ state' = s
    /\ UNCHANGED <<pollerOn, proc, wfnrLock, wfnr, sock>>

(* updateRunPhase, lines 111-176: the outcome of its checks.              *)
RunPhaseCheck(s, run, snap, attempt) ==
    IF s.phase # "RUN" \/ s.run # run THEN "throw"
    ELSE IF s.snap = snap THEN "same"
    ELSE IF s.attempt # attempt THEN "throw"
    ELSE "ok"

UpdatedRunPhase(s, run, snap, attempt) ==
    IF RunPhaseCheck(s, run, snap, attempt) = "ok" THEN [s EXCEPT !.snap = snap] ELSE s

(* taskRunProcess?.cancel(): the child aborts with a failed completion.   *)
Cancel(p, a) == IF a # NoAtt /\ p[a] = "running" THEN [p EXCEPT ![a] = "fail"] ELSE p

(* handleSnapshotChange's switch, lines 408-559: what the new status      *)
(* leads to.  PENDING_EXECUTING with completed waitpoints only follows a  *)
(* suspension, which this runner never requests (disableSuspend).         *)
HscReaction(status) ==
    CASE status = "PENDING_CANCEL" -> "cancel"
      [] status = "EXECUTING_WITH_WAITPOINTS" -> "eww"
      [] status = "SUSPENDED" -> "wfnr"
      [] OTHER -> "return"

(* handleSnapshotChange(d), lines 333-407, up to its first await: a call  *)
(* while the lock flag is set is dropped; no or an unchanged snapshot id   *)
(* returns; a failing updateRunPhase calls waitForNextRun.                *)
HandleSnapshotChange(d) ==
    IF hscLock \/ state.phase # "RUN" \/ state.snap = d.snap
    THEN UNCHANGED <<hscLock, hsc, state, pollerOn, proc, wfnrLock, wfnr, sock>>
    ELSE LET s1 == UpdatedRunPhase(state, d.run, d.snap, d.attempt)
             re == HscReaction(d.status)
         IN IF RunPhaseCheck(state, d.run, d.snap, d.attempt) = "throw" \/ re = "wfnr"
            THEN /\ CallWaitForNextRun(s1)
                 /\ UNCHANGED <<hscLock, hsc>>
            ELSE /\ state' = s1
                 /\ UNCHANGED <<pollerOn, wfnrLock, wfnr, sock>>
                 /\ proc' = IF re = "cancel" THEN Cancel(proc, taskRunProcess) ELSE proc
                 /\ hscLock' = (re \in {"cancel", "eww"})
                 /\ hsc' = IF re \in {"cancel", "eww"} THEN [pc |-> re, snap |-> d.snap]
                           ELSE IdleHsc
-----------------------------------------------------------------------------
(* Platform completeAttempt (spec 4.6): the snapshot must be the latest   *)
(* and the attempt executing; a failure with retry params under           *)
(* maxAttempts is retried, immediately or through the queue.              *)
CompletableStatuses == {"EXECUTING", "EXECUTING_WITH_WAITPOINTS", "PENDING_CANCEL"}

CompleteAccepted(r, s) ==
    s = Latest(r) /\ LatestEntry(r).status \in CompletableStatuses /\ RoomInLog(r)

AttemptStatusesFor(r, out) ==
    IF out = "retry" /\ LatestEntry(r).status # "PENDING_CANCEL"
       /\ pAttempt[r] < MaxRunAttempts
    THEN {"RETRY_IMMEDIATELY", "RETRY_QUEUED"}
    ELSE {"RUN_FINISHED"}

SnapshotAfter == [RUN_FINISHED |-> "FINISHED", RETRY_IMMEDIATELY |-> "PENDING_EXECUTING",
                  RETRY_QUEUED |-> "QUEUED"]

(* completeRunAttempt(r, s, out) then handleCompletionResult, lines       *)
(* 862-888 / 643-670 and 895-954: a failed request or a failed            *)
(* updateRunPhase, RUN_FINISHED and RETRY_QUEUED call waitForNextRun;     *)
(* RETRY_IMMEDIATELY sleeps for the retry delay.                          *)
CompleteAndHandle(a, r, s, out) ==
    IF ~CompleteAccepted(r, s)
    THEN /\ CallWaitForNextRun(state)
         /\ att' = [att EXCEPT ![a] = IdleAtt]
         /\ UNCHANGED <<pLog, pAttempt, warm, accepted>>
    ELSE \E res \in AttemptStatusesFor(r, out) :
         LET ns == SnapId(r, Len(pLog[r]) + 1)
             s1 == UpdatedRunPhase(state, r, ns, pAttempt[r])
         IN /\ pLog' = Append1(r, SnapshotAfter[res], FALSE)
            /\ accepted' = accepted \cup {[by |-> att[a].run, run |-> r]}
            /\ UNCHANGED <<pAttempt, warm>>
            /\ IF RunPhaseCheck(state, r, ns, pAttempt[r]) = "throw"
                  \/ res # "RETRY_IMMEDIATELY"
               THEN /\ CallWaitForNextRun(s1)
                    /\ att' = [att EXCEPT ![a] = IdleAtt]
               ELSE /\ StayInPhase(s1)
                    /\ att' = [att EXCEPT ![a] = [@ EXCEPT !.pc = "retry", !.run = r]]
-----------------------------------------------------------------------------
(* start(), lines 997-1021: with TRIGGER_RUN_ID and TRIGGER_SNAPSHOT_ID   *)
(* set, start an attempt on that dequeued run; otherwise waitForNextRun.  *)
Boot ==
    /\ ~booted
    /\ booted' = TRUE
    /\ \/ \E s \in warm :
             /\ warm' = warm \ {s}
             /\ att' = Launch(att, s[1], s)
             /\ sock' = SubscribeToRunNotifications(s[1])
             /\ UNCHANGED <<state, pollerOn, proc, wfnrLock, wfnr>>
       \/ /\ CallWaitForNextRun(state)
          /\ UNCHANGED <<warm, att>>
    /\ UNCHANGED <<stopPc, pLog, pAttempt, accepted, exited, taskRunProcess, hscLock, hsc,
                   poll, notif>>

(* The 5-minute timer set by start(), line 1001: process.exit(1).         *)
ExitTimer ==
    /\ ~exited
    /\ booted
    /\ exited' = TRUE
    /\ UNCHANGED <<stopPc, platform, booted, state, pollerOn, taskRunProcess, proc, att,
                   hscLock, hsc, wfnrLock, wfnr, poll, notif, sock>>

(* waitForNextRun, line 692: the SIGKILL resolves; longPoll starts.       *)
WfnrKilled ==
    /\ ~exited
    /\ wfnr = "kill"
    /\ wfnr' = "poll"
    /\ UNCHANGED <<stopPc, platform, booted, exited, state, pollerOn, taskRunProcess, proc,
                   att, hscLock, hsc, wfnrLock, poll, notif, sock>>

(* longPoll, lines 1050-1128: a request that times out or fails is        *)
(* retried until the total duration passes.  A 2xx response carries a     *)
(* dequeued run; any other response, or running out of time with no run,  *)
(* is an error.                                                           *)
LongPollResults ==
    {[ok |-> TRUE, data |-> s] : s \in warm} \cup {[ok |-> FALSE, data |-> NoRun]}

(* waitForNextRun, lines 699-740: longPoll returns a dequeued run, whose  *)
(* attempt is started without await, and the lock flag is cleared; or it *)
(* fails and the process exits.                                           *)
WfnrPolled ==
    /\ ~exited
    /\ wfnr = "poll"
    /\ \E res \in LongPollResults :
       \/ LET s == res.data IN
             /\ res.ok
             /\ HasFreeAttempt(att)
             /\ warm' = warm \ {s}
             /\ att' = Launch(att, s[1], s)
             /\ sock' = SubscribeToRunNotifications(s[1])
             /\ wfnr' = Idle
             /\ wfnrLock' = FALSE
             /\ UNCHANGED exited
       \/ /\ ~res.ok
          /\ exited' = TRUE
          /\ UNCHANGED <<warm, att, wfnr, wfnrLock, sock>>
    /\ UNCHANGED <<stopPc, pLog, pAttempt, accepted, booted, state, pollerOn, taskRunProcess,
                   proc, hscLock, hsc, poll, notif>>

(* startAndExecuteRunAttempt, lines 590-616, and executeRun up to         *)
(* execute(), lines 817-848: the platform's startAttempt requires the     *)
(* latest snapshot; on success enterRunPhase, start the poller, make the  *)
(* child process this.taskRunProcess; on failure waitForNextRun.          *)
AttStart(a) ==
    LET r == att[a].run
        ns == SnapId(r, Len(pLog[r]) + 1)
    IN
    /\ ~exited
    /\ att[a].pc = "start"
    /\ IF att[a].snap = Latest(r) /\ RoomInLog(r)
       THEN /\ pLog' = Append1(r, "EXECUTING", FALSE)
            /\ pAttempt' = [pAttempt EXCEPT ![r] = @ + 1]
            /\ EnterRunPhase(state, r, ns, pAttempt[r] + 1)
            /\ taskRunProcess' = a
            /\ proc' = [proc EXCEPT ![a] = "running"]
            /\ att' = [att EXCEPT ![a] = [@ EXCEPT !.pc = "exec", !.snap = ns]]
            /\ UNCHANGED <<wfnrLock, wfnr>>
       ELSE /\ CallWaitForNextRun(state)
            /\ att' = [att EXCEPT ![a] = IdleAtt]
            /\ UNCHANGED <<pLog, pAttempt, taskRunProcess>>
    /\ UNCHANGED <<stopPc, warm, accepted, booted, exited, hscLock, hsc, poll, notif>>

(* The child process finishes its task: success, failure, or failure     *)
(* with retry parameters.                                                 *)
ProcExit(a) ==
    /\ proc[a] = "running"
    /\ \E o \in {"ok", "fail", "retry"} : proc' = [proc EXCEPT ![a] = o]
    /\ UNCHANGED <<stopPc, platform, booted, exited, state, pollerOn, taskRunProcess, att,
                   hscLock, hsc, wfnrLock, wfnr, poll, notif, sock>>

Outcome(p) == IF p = "killed" THEN "fail" ELSE p

(* execute() settles.  It resolves (executeRun, lines 849-858: cleanup    *)
(* kills this.taskRunProcess, whichever process that now is) or, for a    *)
(* killed child, rejects (startAndExecuteRunAttempt's catch, lines 619-   *)
(* 670: completion for the run it started, on this.snapshotFriendlyId ??  *)
(* its own snapshot).                                                     *)
AttExecDone(a) ==
    /\ ~exited
    /\ att[a].pc = "exec"
    /\ proc[a] \in {"killed", "ok", "fail", "retry"}
    /\ \/ /\ att' = [att EXCEPT ![a] = [@ EXCEPT !.pc = "cleanup", !.out = Outcome(proc[a])]]
          /\ proc' = Kill(proc, taskRunProcess)
          /\ UNCHANGED <<platform, state, pollerOn, wfnrLock, wfnr, sock>>
       \/ /\ proc[a] = "killed"
          /\ CompleteAndHandle(a, att[a].run,
                               IF SnapshotFriendlyId # NoRun THEN SnapshotFriendlyId ELSE att[a].snap,
                               "fail")
    /\ UNCHANGED <<stopPc, booted, exited, taskRunProcess, hscLock, hsc, poll, notif>>

(* executeRun, lines 860-892: after cleanup, complete on this.runFriendly *)
(* Id and this.snapshotFriendlyId as they are now.                        *)
AttCleanedUp(a) ==
    /\ ~exited
    /\ att[a].pc = "cleanup"
    /\ IF RunFriendlyId = NoRun \/ SnapshotFriendlyId = NoRun
       THEN /\ CallWaitForNextRun(state)
            /\ att' = [att EXCEPT ![a] = IdleAtt]
            /\ UNCHANGED platform
       ELSE CompleteAndHandle(a, RunFriendlyId, SnapshotFriendlyId, att[a].out)
    /\ UNCHANGED <<stopPc, booted, exited, taskRunProcess, hscLock, hsc, poll, notif>>

(* handleCompletionResult after sleep(retry.delay), lines 934-949: a new  *)
(* attempt on the response's run and the current snapshot id.             *)
AttRetry(a) ==
    /\ ~exited
    /\ att[a].pc = "retry"
    /\ IF SnapshotFriendlyId = NoRun
       THEN /\ CallWaitForNextRun(state)
            /\ att' = [att EXCEPT ![a] = IdleAtt]
       ELSE /\ att' = [att EXCEPT ![a] = [pc |-> "start", run |-> att[a].run,
                                          snap |-> state.snap, out |-> "none"]]
            /\ sock' = SubscribeToRunNotifications(att[a].run)
            /\ UNCHANGED <<state, pollerOn, proc, wfnrLock, wfnr>>
    /\ UNCHANGED <<stopPc, platform, booted, exited, taskRunProcess, hscLock, hsc, poll, notif>>

(* handleWait, lines 956-989, on the onWait event of child `a`: a         *)
(* DATETIME wait on this.runFriendlyId / this.snapshotFriendlyId; the     *)
(* platform's waitForDuration validates the snapshot and blocks the run.  *)
HandleWait(a) ==
    LET r == state.run IN
    /\ ~exited
    /\ proc[a] = "running"
    /\ state.phase = "RUN"
    /\ state.snap = Latest(r)
    /\ LatestEntry(r).status = "EXECUTING"
    /\ RoomInLog(r)
    /\ pLog' = Append1(r, "EXECUTING_WITH_WAITPOINTS", FALSE)
    /\ UNCHANGED <<pAttempt, warm, accepted, runner>>
-----------------------------------------------------------------------------
(* Mutant of HscCancelDone: the finally block does not clear the lock.   *)
HscCancelDoneNoFinally ==
    /\ ~exited
    /\ hsc.pc = "cancel"
    /\ hsc' = IdleHsc
    /\ UNCHANGED <<stopPc, platform, booted, exited, state, pollerOn, taskRunProcess, proc,
                   att, hscLock, wfnrLock, wfnr, poll, notif, sock>>

(* handleSnapshotChange, PENDING_CANCEL, lines 409-421: cancelAttempt     *)
(* settles; if it threw, waitForNextRun.  The finally clears the lock.    *)
HscCancelDone ==
    /\ ~exited
    /\ hsc.pc = "cancel"
    /\ hscLock' = FALSE
    /\ hsc' = IdleHsc
    /\ \/ UNCHANGED <<state, pollerOn, proc, wfnrLock, wfnr, sock>>
       \/ CallWaitForNextRun(state)
    /\ UNCHANGED <<stopPc, platform, booted, exited, taskRunProcess, att, poll, notif>>

(* handleSnapshotChange, EXECUTING_WITH_WAITPOINTS, lines 426-478:        *)
(* cleanup(false) and sleep(200) settle; with suspension disabled the     *)
(* body returns and the finally clears the lock.                          *)
HscWaitpointsDone ==
    /\ ~exited
    /\ hsc.pc = "eww"
    /\ hscLock' = FALSE
    /\ hsc' = IdleHsc
    /\ UNCHANGED <<stopPc, platform, booted, exited, state, pollerOn, taskRunProcess, proc,
                   att, wfnrLock, wfnr, poll, notif, sock>>

(* The snapshot poller tick, lines 255-274: with a run id, request        *)
(* getRunExecutionData for it.                                            *)
PollStart ==
    /\ ~exited
    /\ pollerOn
    /\ poll.pc = Idle
    /\ RunFriendlyId # NoRun
    /\ poll' = [pc |-> "await", run |-> RunFriendlyId, data |-> NoRun]
    /\ UNCHANGED <<stopPc, platform, booted, exited, state, pollerOn, taskRunProcess, proc,
                   att, hscLock, hsc, wfnrLock, wfnr, notif, sock>>

(* The platform serves a getRunExecutionData request: the response holds *)
(* the run's latest snapshot at this moment and is delivered later.       *)
Served(f) == [f EXCEPT !.pc = "served", !.data = ExecutionData(f.run)]

PollServed ==
    /\ ~exited
    /\ poll.pc = "await"
    /\ poll' = Served(poll)
    /\ UNCHANGED <<stopPc, platform, booted, exited, state, pollerOn, taskRunProcess, proc,
                   att, hscLock, hsc, wfnrLock, wfnr, notif, sock>>

(* lines 276-293: the response arrives, handleSnapshotChange(execution).  *)
PollDone ==
    /\ ~exited
    /\ poll.pc = "served"
    /\ poll' = NoFetch
    /\ HandleSnapshotChange(poll.data)
    /\ UNCHANGED <<stopPc, platform, booted, exited, taskRunProcess, att, notif>>

(* run:notify handler, lines 756-788: a notification for the current run  *)
(* requests getRunExecutionData (one handler in flight at a time).        *)
NotifyStart ==
    /\ ~exited
    /\ notif.pc = Idle
    /\ RunFriendlyId # NoRun
    /\ sock.up /\ RunFriendlyId \in sock.rooms
    /\ notif' = [pc |-> "await", run |-> RunFriendlyId, data |-> NoRun]
    /\ UNCHANGED <<stopPc, platform, booted, exited, state, pollerOn, taskRunProcess, proc,
                   att, hscLock, hsc, wfnrLock, wfnr, poll, sock>>

NotifyServed ==
    /\ ~exited
    /\ notif.pc = "await"
    /\ notif' = Served(notif)
    /\ UNCHANGED <<stopPc, platform, booted, exited, state, pollerOn, taskRunProcess, proc,
                   att, hscLock, hsc, wfnrLock, wfnr, poll, sock>>

NotifyDone ==
    /\ ~exited
    /\ notif.pc = "served"
    /\ notif' = NoFetch
    /\ HandleSnapshotChange(notif.data)
    /\ UNCHANGED <<stopPc, platform, booted, exited, taskRunProcess, att, poll>>

(* The transport drops (the disconnect handler, lines 807-809, only       *)
(* logs): the supervisor's subscriptions of the connection are gone.      *)
SockDrop ==
    /\ ~exited
    /\ sock.up
    /\ sock.drops < MaxDrops
    /\ sock' = [sock EXCEPT !.up = FALSE, !.rooms = {}, !.drops = @ + 1]
    /\ UNCHANGED <<stopPc, platform, booted, exited, state, pollerOn, taskRunProcess, proc,
                   att, hscLock, hsc, wfnrLock, wfnr, poll, notif>>

ResubscribedRooms == IF state.phase = "RUN" THEN {state.run} ELSE {}

BufferedRooms == {r \in Runs : sock.pend[r] = "start"}

(* socket.io (re)connects: the buffered emits are sent, then the connect  *)
(* handler, lines 794-802, sends run:start for this.state.run in RUN.     *)
SockConnect ==
    /\ ~exited
    /\ booted
    /\ ~sock.up /\ ~sock.closed
    /\ sock' = [sock EXCEPT !.up = TRUE, !.rooms = BufferedRooms \cup ResubscribedRooms,
                             !.pend = NoSub]
    /\ UNCHANGED <<stopPc, platform, booted, exited, state, pollerOn, taskRunProcess, proc,
                   att, hscLock, hsc, wfnrLock, wfnr, poll, notif>>

(* The SIGTERM handler, lines 326-329, calls stop(), lines 1022-1033:     *)
(* await this.taskRunProcess.cleanup(true), which kills the child.  The   *)
(* handler does not exit the process.  One SIGTERM is modelled.           *)
Sigterm ==
    /\ ~exited
    /\ booted
    /\ stopPc = Idle
    /\ stopPc' = "cleanup"
    /\ proc' = Kill(proc, taskRunProcess)
    /\ UNCHANGED <<platform, booted, exited, state, pollerOn, taskRunProcess, att,
                   hscLock, hsc, wfnrLock, wfnr, poll, notif, sock>>

(* stop() after the cleanup: the heartbeat and the snapshot poller stop   *)
(* and socket.close() ends the connection without reconnecting.           *)
StopDone ==
    /\ ~exited
    /\ stopPc = "cleanup"
    /\ stopPc' = "done"
    /\ pollerOn' = FALSE
    /\ sock' = [sock EXCEPT !.up = FALSE, !.rooms = {}, !.closed = TRUE]
    /\ UNCHANGED <<platform, booted, exited, state, taskRunProcess, proc, att,
                   hscLock, hsc, wfnrLock, wfnr, poll, notif>>
(* The runHeartbeat tick, lines 298-319: outside RUN it skips; else it    *)
(* sends heartbeatRun(runFriendlyId, snapshotFriendlyId), and a failed     *)
(* request only logs.  The tick changes no state of the runner, and the   *)
(* platform's stall timer is not under src/, so the tick is the pair of   *)
(* ids it sends.  runHeartbeat is started and stopped with the snapshot   *)
(* poller (lines 101-102, 193-194, 1030-1031): it ticks while pollerOn.   *)
HeartbeatRunIds ==
    IF RunFriendlyId = NoRun \/ SnapshotFriendlyId = NoRun THEN <<>>
    ELSE <<RunFriendlyId, SnapshotFriendlyId>>
-----------------------------------------------------------------------------
(* Platform transitions outside the runner (spec 4.6, 4.7).               *)
PlatformCancel(r) ==
    /\ LatestEntry(r).status \in {"EXECUTING", "EXECUTING_WITH_WAITPOINTS"}
    /\ RoomInLog(r)
    /\ pLog' = Append1(r, "PENDING_CANCEL", FALSE)
    /\ UNCHANGED <<pAttempt, warm, accepted, runner>>

(* The waitpoint completes and continueRun resumes the attached worker.   *)
PlatformResume(r) ==
    /\ LatestEntry(r).status = "EXECUTING_WITH_WAITPOINTS"
    /\ RoomInLog(r)
    /\ pLog' = Append1(r, "EXECUTING", TRUE)
    /\ UNCHANGED <<pAttempt, warm, accepted, runner>>

(* A RETRY_QUEUED run is dequeued again and offered to /warm-start.       *)
PlatformDequeue(r) ==
    /\ LatestEntry(r).status = "QUEUED"
    /\ RoomInLog(r)
    /\ pLog' = Append1(r, "DEQUEUED_FOR_EXECUTION", FALSE)
    /\ warm' = warm \cup {SnapId(r, Len(pLog[r]) + 1)}
    /\ UNCHANGED <<pAttempt, accepted, runner>>

RunnerStep ==
    \/ ExitTimer \/ WfnrKilled \/ WfnrPolled
    \/ \E a \in Attempts : AttStart(a) \/ AttExecDone(a) \/ AttCleanedUp(a)
                           \/ AttRetry(a) \/ HandleWait(a)
    \/ HscCancelDone \/ HscWaitpointsDone
    \/ PollStart \/ PollServed \/ PollDone
    \/ NotifyStart \/ NotifyServed \/ NotifyDone
    \/ SockDrop \/ SockConnect
    \/ Sigterm \/ StopDone

PlatformStep(r) == PlatformCancel(r) \/ PlatformResume(r) \/ PlatformDequeue(r)

Next ==
    \/ Boot
    \/ RunnerStep
    \/ \E a \in Attempts : ProcExit(a)
    \/ \E r \in Runs : PlatformStep(r)

(* Every pending continuation of the runner eventually runs, the poller   *)
(* keeps ticking, a waitpoint eventually completes, and socket.io         *)
(* reconnects.  A child process need not finish (a task may run as long   *)
(* as it likes: cancellation is what stops it); cancellation,             *)
(* notifications, dropped connections, waits and the exit timer are not   *)
(* forced.                                                                 *)
Fairness ==
    /\ WF_vars(Boot)
    /\ WF_vars(WfnrKilled \/ WfnrPolled)
    /\ \A a \in Attempts :
          WF_vars(AttStart(a) \/ AttExecDone(a) \/ AttCleanedUp(a) \/ AttRetry(a))
    /\ WF_vars(HscCancelDone \/ HscWaitpointsDone)
    /\ WF_vars(SockConnect)
    /\ WF_vars(StopDone)
    /\ WF_vars(PollStart \/ PollServed \/ PollDone \/ NotifyServed \/ NotifyDone)
    /\ \A r \in Runs : WF_vars(PlatformResume(r) \/ PlatformDequeue(r))

Spec == Init /\ [][Next]_vars /\ Fairness
-----------------------------------------------------------------------------
TypeOK ==
    /\ state.phase \in {"IDLE", "WARM_START", "RUN"}
    /\ (state.phase = "RUN") <=> (state.run \in Runs)
    /\ proc \in [Attempts -> ProcStates]
    /\ taskRunProcess \in Attempts \cup {NoAtt}
    /\ \A a \in Attempts : att[a].pc \in {"unused", "start", "exec", "cleanup", "retry"}
    /\ hsc.pc \in {Idle, "cancel", "eww"} /\ hscLock = (hsc.pc # Idle)
    /\ wfnr \in {Idle, "kill", "poll"} /\ (wfnr # Idle => wfnrLock)
    /\ \A c \in accepted : c.by \in Runs /\ c.run \in Runs
    /\ sock.rooms \subseteq Runs /\ sock.pend \in [Runs -> {"none", "start", "stop"}]
    /\ (sock.up => sock.pend = NoSub /\ ~sock.closed)
    /\ stopPc \in {Idle, "cleanup", "done"}

(* A completion the platform accepts for run r was produced by a child    *)
(* process executing r: executeRun reads this.runFriendlyId and           *)
(* this.snapshotFriendlyId after execute() and cleanup() have awaited.    *)
CompletionForOwnRun == \A c \in accepted : c.by = c.run

(* At most one child process runs at a time (spec 4.7: one attempt in     *)
(* flight), across attempt chains started without await.                  *)
SingleChildProcess == Cardinality({a \in Attempts : proc[a] = "running"}) <= 1

(* The runner never moves back to an older snapshot of the run it is      *)
(* executing: a response read before an await is not applied over a      *)
(* newer one (updateRunPhase accepts any different snapshot id).          *)
SnapshotNeverRegresses ==
    [][state.phase = "RUN" /\ state'.phase = "RUN" /\ state'.run = state.run
       => state'.snap[2] >= state.snap[2]]_vars

(* While connected and executing a run, the supervisor has this runner   *)
(* subscribed to that run, so run:notify reaches it: run:start is sent   *)
(* when an attempt starts and on every reconnect, run:stop when the run  *)
(* phase is left.                                                         *)
SubscribedWhileRunning ==
    (sock.up /\ state.phase = "RUN") => state.run \in sock.rooms

(* While connected, the runner is subscribed to no run but the one it is  *)
(* executing and those whose startRunAttempt is still awaited: a run:start *)
(* whose attempt fails to start, or is left, is matched by a run:stop.     *)
SubscribedOnlyToCurrentRun ==
    sock.up => sock.rooms \subseteq
                   ResubscribedRooms \cup {att[a].run : a \in {x \in Attempts : att[x].pc = "start"}}
(* Once stop() has run on SIGTERM, the runner starts no new child        *)
(* process: stop() kills the current one and stops polling.               *)
NoChildAfterStop ==
    [][stopPc = "done" => \A a \in Attempts : proc'[a] = "running" => proc[a] = "running"]_vars
(* S5 of spec.md: the platform fails an EXECUTING attempt whose run stops *)
(* being heartbeated.  The runner's heartbeat for a run stops (enterRun-   *)
(* Phase of another run, onExitRunPhase) only once the platform has moved  *)
(* the run out of EXECUTING, through a completion, a cancel or a wait:     *)
(* only the exit timer or SIGTERM abandons an executing run.               *)
Beating(r) == ~exited /\ pollerOn /\ HeartbeatRunIds # <<>> /\ HeartbeatRunIds[1] = r

HeartbeatStopsOnlyAfterExecuting ==
    [][\A r \in Runs :
          (Beating(r) /\ ~Beating(r)' /\ ~exited' /\ stopPc' = Idle)
              => LatestEntry(r)'.status # "EXECUTING"]_vars
(* Spec 4.6: a run the platform moves to PENDING_CANCEL has its attempt  *)
(* aborted.  While its child runs, the runner learns of the cancel from a *)
(* poll even if the run:notify was dropped (handleSnapshotChange's lock   *)
(* was held, or the connection lost its subscription) and cancels this.   *)
(* taskRunProcess, or leaves the run and kills it.  The obligation ends   *)
(* when the process exits or stop() has run on SIGTERM (the container is  *)
(* being shut down; NoChildAfterStop is about that window).               *)
CancelReachesChild ==
    \A a \in Attempts :
        (/\ proc[a] = "running" /\ att[a].run \in Runs
         /\ LatestEntry(att[a].run).status = "PENDING_CANCEL")
            ~> (proc[a] # "running" \/ exited \/ stopPc = "done")
====
