SPECIFICATION FairSpec
CONSTANTS
    Callers = {c1, c2}
    NoCaller = NoCaller
    Collectors = 2
    MaxLoops = 2
    MaxRefs = 2
    MaxRounds = 3
INVARIANT IsRunningMeansActive
CHECK_DEADLOCK FALSE
