CONSTANTS
    MaxProcesses = 3
    Shells = {s1}
    Mac = TRUE
    NoKey = NoKey
    Torn = Torn
    Nobody = Nobody
SPECIFICATION FairSpec
INVARIANTS
    TypeOK
    PortFileIsTheServers
    PersistentIdentity
    OrphansAreTold
PROPERTIES
    ImplementsDaemonSlot
    QuitLeavesNoDaemon
    LoneStartServes
CHECK_DEADLOCK FALSE
