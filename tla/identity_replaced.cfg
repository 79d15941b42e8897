CONSTANTS
    MaxProcesses = 2
    Shells = {s1}
    Mac = TRUE
    NoKey = NoKey
    Torn = Torn
    Nobody = Nobody
SPECIFICATION FairSpec
PROPERTY
    PersistentPeerIdentity
CHECK_DEADLOCK FALSE
