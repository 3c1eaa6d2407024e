SPECIFICATION OfflineFairSpec
CONSTANTS
    Procs = {1}
    Subs = 2
    MaxSignals = 1
INVARIANT KilledGracefully
CHECK_DEADLOCK FALSE
