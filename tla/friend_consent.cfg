CONSTANTS
    a = a
    b = b
    c = c
    Peers = {a, b}
    MayAsk <- Distinct
    MayApprove <- Distinct
    MayRemove <- Nobody
    UserModel = "listed"
    AskOnce = TRUE
    Reliable = TRUE
    MaxCalls = 2
    MaxInFlight = 2
SPECIFICATION Spec
INVARIANTS
    ApprovedByRecipient
CHECK_DEADLOCK FALSE
