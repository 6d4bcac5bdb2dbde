---------------------------- MODULE MCRunEngine ----------------------------
(* Instantiates RunEngine for TLC: the trigger parameters a call may      *)
(* carry are records over small sets chosen per configuration.            *)
EXTENDS RunEngine, Integers, TLC

CONSTANTS DelayChoices, TtlChoices, ParentChoices, QueueChoices

MCTriggerOptions ==
    [delay : DelayChoices, ttl : TtlChoices,
     parent : ParentChoices, queue : QueueChoices]

MCSymmetry == Permutations(Executions)
(* queue.concurrencyLimit values a trigger call may pass, a negative one *)
(* included: the SDK types it as number.                                 *)
SignedQueueChoices == {AbsentQueue, NoLimit, -1, 1}

(* The refinement mapping: the latest committed snapshot of each run, the *)
(* Redis queue and the in-flight set.                                     *)
Lifecycle == INSTANCE RunLifecycle WITH
    status <- [r \in Runs |-> IF snapshots[r] = <<>> THEN "NONE" ELSE Latest(r)],
    queue <- queued,
    taken <- inflight

(* trigger, dequeueFromMasterQueue and #completeWaitpoint/#continueRun    *)
(* together implement the run lifecycle of spec sections 3 and 4.3: no   *)
(* run is pushed to Redis before its QUEUED snapshot is committed, and no *)
(* snapshot moves a run backwards or skips a step.                        *)
RefinesRunLifecycle == Lifecycle!Spec
=============================================================================
