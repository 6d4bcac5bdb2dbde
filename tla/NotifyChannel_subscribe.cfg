CONSTANTS
    Runs <- MCRuns
    MaxMsgs = 3
SPECIFICATION Spec
INVARIANT SubscriptionsJoined
CHECK_DEADLOCK FALSE
