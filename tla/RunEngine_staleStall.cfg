\* Is a stall check of a superseded snapshot eventually dropped?
CONSTANTS
    Runs = {r1, r2}
    Consumers = {c1}
    Executions = {e1, e2}
    NoParent = NoParent
    NoLimit = NoLimit
    NoRow = NoRow
    AbsentQueue = AbsentQueue
    EnvConcurrencyLimit = 2
    LockCanTimeOut = FALSE
    MaxCrashes = 0
    DelayChoices = {FALSE}
    TtlChoices = {FALSE}
    ParentChoices = {NoParent}
    QueueChoices = {AbsentQueue}
    TriggerOptions <- MCTriggerOptions
SPECIFICATION Spec
PROPERTY StaleStallCheckDropped
\* The engine is a server: once every bounded trigger call has run and no
\* job is pending it idles, which is not a deadlock of the code.
CHECK_DEADLOCK FALSE
