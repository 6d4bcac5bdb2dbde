\* One runner serving one run through retries, cancellation, waits, polls,
\* notifications and a dropped and re-established supervisor connection.
CONSTANTS
    Runs = {ra}
    NoRun = NoRun
    MaxSnapshots = 6
    MaxAttempts = 2
    MaxRunAttempts = 2
    MaxDrops = 1
SPECIFICATION Spec
INVARIANT TypeOK

PROPERTY CancelReachesChild
\* The runner process may exit (longPoll gives up, the exit timer fires),
\* after which it takes no step: that is not a deadlock of the code.
CHECK_DEADLOCK FALSE
