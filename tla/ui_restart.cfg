CONSTANTS
    MaxStarts = 2
    MaxMounts = 1
    MaxCalls = 1
    Sockets = {s1}
    NoSocket = NoSocket
SPECIFICATION FairSpec
PROPERTIES
    DisconnectedReconnects
CHECK_DEADLOCK FALSE
