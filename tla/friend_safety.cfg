CONSTANTS
    a = a
    b = b
    c = c
    Peers = {a, b}
    MayAsk <- Distinct
    MayApprove <- Distinct
    MayRemove <- Distinct
    UserModel = "any"
    AskOnce = FALSE
    Reliable = FALSE
    MaxCalls = 2
    MaxInFlight = 1
SPECIFICATION Spec
INVARIANTS
    TypeOK
    ConsentTrace
