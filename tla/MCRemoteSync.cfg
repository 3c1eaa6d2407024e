SPECIFICATION FairSpec
CONSTANTS
    Masters = {m1}
    MaxStarts = 2
    MaxUnanswered = 2
    MaxGraphs = 2
    MaxRestarts = 1
INVARIANTS TypeOK OneSyncThread StartedSyncs NobodyRobbed
PROPERTIES CacheMovesOn SyncingEnds
CHECK_DEADLOCK FALSE
