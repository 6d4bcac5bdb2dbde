\* Can the runner stop heartbeating a run that the platform still has EXECUTING?
CONSTANTS
    Runs = {ra}
    NoRun = NoRun
    MaxSnapshots = 6
    MaxAttempts = 2
    MaxRunAttempts = 2
    MaxDrops = 1
SPECIFICATION Spec
PROPERTY HeartbeatStopsOnlyAfterExecuting
\* The runner process may exit (longPoll gives up, the exit timer fires),
\* after which it takes no step: that is not a deadlock of the code.
CHECK_DEADLOCK FALSE
