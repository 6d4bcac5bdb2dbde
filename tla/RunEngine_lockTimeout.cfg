\* Can a dequeue abandon a popped message when the run lock is not free?
CONSTANTS
    Runs = {r1, r2}
    Consumers = {c1}
    Executions = {e1, e2}
    NoParent = NoParent
    NoLimit = NoLimit
    NoRow = NoRow
    AbsentQueue = AbsentQueue
    EnvConcurrencyLimit = 2
    LockCanTimeOut = TRUE
    MaxCrashes = 0
    DelayChoices = {FALSE}
    TtlChoices = {FALSE}
    ParentChoices = {NoParent}
    QueueChoices = {AbsentQueue}
    TriggerOptions <- MCTriggerOptions
SPECIFICATION Spec
INVARIANT DequeueNeverOrphans
\* The engine is a server: once every bounded trigger call has run and no
\* job is pending it idles, which is not a deadlock of the code.
CHECK_DEADLOCK FALSE
