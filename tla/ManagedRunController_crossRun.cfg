\* A warm-started runner: is a completion ever applied to the next run?
CONSTANTS
    Runs = {ra, rb}
    NoRun = NoRun
    MaxSnapshots = 6
    MaxAttempts = 2
    MaxRunAttempts = 2
    MaxDrops = 1
SPECIFICATION Spec
INVARIANT CompletionForOwnRun
\* The runner process may exit (longPoll gives up, the exit timer fires),
\* after which it takes no step: that is not a deadlock of the code.
CHECK_DEADLOCK FALSE
