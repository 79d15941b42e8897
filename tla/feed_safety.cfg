CONSTANTS
    a = a
    b = b
    Peers = {a, b}
    Authors = {a, b}
    PostIds = {1, 2}
    Contents = {x}
    MayKnow <- OneWay
    Worker = worker
    Startup = startup
    Handlers = {}
    NoPost = NoPost
    NoSig = NoSig
    NoPeer = NoPeer
SPECIFICATION FairSpec
INVARIANTS
    TypeOK
    RemotePostsAreAuthentic
    LocalPostsAreShown
PROPERTIES
    SignedPostsAreFinal
    RoundsAdvance
    ImplementsPublicFeed
    SignedPostsSpread
    WorkerRoundEnds
