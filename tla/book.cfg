CONSTANTS
    a = a
    b = b
    Peers = {a, b}
    Editors = {a}
    Meets <- OneMeets
    Fetchers = {f1, f2}
    MaxEdits = 2
    MaxPresses = 3
    NoRecord = NoRecord
    NoPeer = NoPeer
SPECIFICATION FairSpec
INVARIANTS
    TypeOK
PROPERTIES
    AddressesAreTheUsers
    ImplementsPeerDirectory
    ProfileSettles
