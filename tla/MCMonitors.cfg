SPECIFICATION MonitorsFairSpec
CONSTANTS
    MaxProcs = 2
    MaxLines = 2
    EntryBufferSize = 2
    HccsSessions = 3
    RdmaSessions = 2
    h1 = h1
    h2 = h2
    t1 = t1
    t2 = t2
    t3 = t3
    Hosts = {h1, h2}
    Askers = {t1, t2, t3}
    HostOf <- MCHostOf
    Nobody = Nobody
    Reports <- MCReports
    Machines <- MCMachines
INVARIANTS
    MonitorsTypeOK OneReader RunningIsRead RowsKept
    HccsNoOrphan RdmaReachable OneLaunched
PROPERTIES StopsReturn StoppedThreadsEnd
CHECK_DEADLOCK FALSE
