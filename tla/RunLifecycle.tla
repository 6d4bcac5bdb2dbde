---------------------------- MODULE RunLifecycle ----------------------------
(***************************************************************************)
(* What the run engine promises about one run's way to a worker (spec.md  *)
(* sections 3 and 4.3): the latest execution snapshot moves RUN_CREATED ->*)
(* QUEUED -> DEQUEUED_FOR_EXECUTION; a run enters the run queue only once *)
(* its latest snapshot says QUEUED and it is neither queued nor in flight,*)
(* the queue hands each message to one consumer, and only a run holding a *)
(* dequeued message is snapshotted DEQUEUED_FOR_EXECUTION.                *)
(***************************************************************************)
CONSTANTS Runs

VARIABLES
    status,  \* executionStatus of the latest snapshot, "NONE" before one
    queue,   \* runs with a message in the run queue
    taken    \* runs whose message a consumer has dequeued

vars == <<status, queue, taken>>

Init == status = [r \in Runs |-> "NONE"] /\ queue = {} /\ taken = {}

Create(r) ==
    /\ status[r] = "NONE"
    /\ status' = [status EXCEPT ![r] = "RUN_CREATED"]
    /\ UNCHANGED <<queue, taken>>

(* A new run, or a blocked run continued, gets a QUEUED snapshot.         *)
MarkQueued(r) ==
    /\ status[r] \in {"RUN_CREATED", "BLOCKED_BY_WAITPOINTS"}
    /\ r \notin queue \cup taken
    /\ status' = [status EXCEPT ![r] = "QUEUED"]
    /\ UNCHANGED <<queue, taken>>

Enqueue(r) ==
    /\ status[r] = "QUEUED"
    /\ r \notin queue \cup taken
    /\ queue' = queue \cup {r}
    /\ UNCHANGED <<status, taken>>

Take(r) ==
    /\ r \in queue
    /\ queue' = queue \ {r}
    /\ taken' = taken \cup {r}
    /\ UNCHANGED status

MarkDequeued(r) ==
    /\ r \in taken
    /\ status[r] \in {"QUEUED", "BLOCKED_BY_WAITPOINTS"}
    /\ status' = [status EXCEPT ![r] = "DEQUEUED_FOR_EXECUTION"]
    /\ UNCHANGED <<queue, taken>>

Next ==
    \E r \in Runs :
        Create(r) \/ MarkQueued(r) \/ Enqueue(r) \/ Take(r) \/ MarkDequeued(r)

Spec == Init /\ [][Next]_vars
=============================================================================
