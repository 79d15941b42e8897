CONSTANTS
    MaxStarts = 3
    MaxMounts = 2
    MaxCalls = 1
    Sockets = {s1, s2}
    NoSocket = NoSocket
SPECIFICATION FairSpec
INVARIANTS
    TypeOK
    OneLoopPerMount
PROPERTIES
    EventsResume
    CallsFollowDaemon
CHECK_DEADLOCK FALSE
