\* A run triggered with delayUntil: is it eventually dequeued?
CONSTANTS
    Runs = {r1, r2}
    Consumers = {c1}
    Executions = {e1, e2}
    NoParent = NoParent
    NoLimit = NoLimit
    NoRow = NoRow
    AbsentQueue = AbsentQueue
    EnvConcurrencyLimit = 2
    LockCanTimeOut = FALSE
    MaxCrashes = 0
    DelayChoices = {TRUE}
    TtlChoices = {FALSE}
    ParentChoices = {NoParent}
    QueueChoices = {AbsentQueue}
    TriggerOptions <- MCTriggerOptions
SPECIFICATION Spec
PROPERTY EveryRunDequeued
\* The engine is a server: once every bounded trigger call has run and no
\* job is pending it idles, which is not a deadlock of the code.
CHECK_DEADLOCK FALSE
