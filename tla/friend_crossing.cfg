CONSTANTS
    a = a
    b = b
    c = c
    Peers = {a, b}
    MayAsk <- Distinct
    MayApprove <- Distinct
    MayRemove <- Nobody
    UserModel = "recipient"
    AskOnce = TRUE
    Reliable = TRUE
    MaxCalls = 2
    MaxInFlight = 2
SPECIFICATION Spec
INVARIANTS
    SettledAgreement
CHECK_DEADLOCK FALSE
