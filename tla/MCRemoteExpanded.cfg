SPECIFICATION ExchangeSpec
CONSTANTS
    host_a = host_a
    host_b = host_b
    host_c = host_c
    ip_a = ip_a
    ip_b = ip_b
    ip_c = ip_c
    Peers = {host_a, host_b, host_c}
    Syncs <- MCSyncs
    Loop = Loop
    Addresses <- MCAddresses
    Local = Local
    Things = {process}
    LookedUp <- MCFields
    InId <- MCFields
    Related <- MCRelated
    Missing = Missing
    MaxFound = 3
    MaxFetches = 1
INVARIANT
    RemoteNotExpanded
CHECK_DEADLOCK FALSE
