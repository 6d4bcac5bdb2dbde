\* Safety of trigger, dequeue and datetime-waitpoint completion with lock
\* lease loss and redlock give-up, a trigger crash, triggerAndWait children,
\* two worker slots (so that a waitpointCompleteDateTime job can be
\* redelivered) and two dequeue consumers: the engine refines RunLifecycle.
CONSTANTS
    Runs = {r1, r2}
    Consumers = {c1, c2}
    Executions = {e1, e2}
    NoParent = NoParent
    NoLimit = NoLimit
    NoRow = NoRow
    AbsentQueue = AbsentQueue
    EnvConcurrencyLimit = 2
    LockCanTimeOut = TRUE
    MaxCrashes = 1
    DelayChoices = {TRUE, FALSE}
    TtlChoices = {TRUE, FALSE}
    ParentChoices = {NoParent, r1}
    QueueChoices <- SignedQueueChoices
    TriggerOptions <- MCTriggerOptions
SPECIFICATION Spec
INVARIANT TypeOK
\* The engine is a server: once every bounded trigger call has run and no
\* job is pending it idles, which is not a deadlock of the code.
CHECK_DEADLOCK FALSE
PROPERTY RefinesRunLifecycle
