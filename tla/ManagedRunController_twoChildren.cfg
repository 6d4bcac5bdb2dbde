\* A warm-started runner: can two child processes run at once?
CONSTANTS
    Runs = {ra, rb}
    NoRun = NoRun
    MaxSnapshots = 6
    MaxAttempts = 2
    MaxRunAttempts = 2
    MaxDrops = 1
SPECIFICATION Spec
INVARIANT SingleChildProcess
\* The runner process may exit (longPoll gives up, the exit timer fires),
\* after which it takes no step: that is not a deadlock of the code.
CHECK_DEADLOCK FALSE
