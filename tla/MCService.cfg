SPECIFICATION ServiceFairSpec
CONSTANTS
    o1 = o1
    o2 = o2
    o3 = o3
    t1 = t1
    t2 = t2
    Objects = {o1, o2, o3}
    Ids = {i1, i2}
    Threads = {t1, t2}
    None = None
    OwnerOf <- MCOwner
    RotationCnt = 3
    MaxSize = 2
    Writers = {w1, w2}
    MaxRows = 6
    Names = {"memory", "a"}
    Memory = "memory"
    MaxGraphs = 2
    MaxSubscribers = 3
    Procs = {1, 2}
    Subs = 2
    MaxSignals = 2
    Hosts = {h1, h2}
    Client = Client
    Nobody = Nobody
    Backlog = 3
    MaxAsked = 2
    host_a = host_a
    host_b = host_b
    host_c = host_c
    ip_a = ip_a
    ip_b = ip_b
    ip_c = ip_c
    Peers = {host_a, host_b, host_c}
    Syncs <- MCSyncs
    Loop = Loop
    Addresses <- MCAddresses
    Local = Local
    Things = {process}
    LookedUp <- MCFields
    InId <- MCFields
    Related <- MCRelated
    Missing = Missing
    MaxFound = 2
    MaxFetches = 2
INVARIANTS
    ServiceTypeOK
    EntitiesKept
    StorageKept
    BroadcastKept
    EndsClean
    ResultsOfOneRun
PROPERTIES
    SignalEndsRun
    RequestsAnswered
CHECK_DEADLOCK FALSE
