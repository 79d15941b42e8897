CONSTANTS
    a = a
    b = b
    c = c
    Peers = {a, b, c}
    MayAsk <- OneAsks
    MayApprove <- OneAnswers
    MayRemove <- Nobody
    UserModel = "recipient"
    AskOnce = TRUE
    Reliable = TRUE
    MaxCalls = 2
    MaxInFlight = 2
SPECIFICATION FairSpec
INVARIANTS
    SettledAgreement
PROPERTIES
    ApprovalBecomesMutual
    ImplementsFriendship
CHECK_DEADLOCK FALSE
