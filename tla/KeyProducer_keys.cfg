CONSTANTS
    NoKey = NoKey
    Prefix <- MCPrefix
    Envs <- MCEnvs
    QueueNames <- MCQueueNames
    ConcurrencyKeys <- MCConcurrencyKeys
    TaskIds <- MCTaskIds
SPECIFICATION Spec
INVARIANT DerivedEnvKeysMatch
INVARIANT DerivedQueueLimitKeyMatches
INVARIANT ScanPatternSelectsQueueCounters
INVARIANT DevMasterQueuesIsolated
INVARIANT GlobalKeyCoversEnvironments
