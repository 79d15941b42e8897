CONSTANTS
    Events = {e1, e2}
    Conns = {c1, c2}
    Buffer = 1
    Nobody = Nobody
SPECIFICATION FairSpec
INVARIANTS
    TypeOK
    SameOrder
    ToldMeansShown
PROPERTIES
    ImplementsEventLog
    EventsArrive
    BroadcastsEnd
    TheGoneAreForgotten
CHECK_DEADLOCK FALSE
