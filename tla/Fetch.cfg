SPECIFICATION FairSpec
CONSTANTS
    Package  = {"a", "b", "s"}
    Dist     <- BothDist
    Of       <- BothOf
    Wheel    = {"s1", "s2"}
    Provided = {"s2"}
    Unhashed = {}
    Root     = "root"
    AnyUrl   <- BothAnyUrl
    Explicit <- BothExplicit
    Requires <- BothRequires
    Depends  <- BothDepends
    Answers  <- BothAnswers
    Fatal    = {"a"}
    Capacity = 1
INVARIANTS
    TypeOK
    JobsOwned
    FetchedOnce
    NoUnregisteredTask
PROPERTIES
    ResolveReturns
CHECK_DEADLOCK FALSE
