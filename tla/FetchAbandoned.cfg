SPECIFICATION FairSpec
CONSTANTS
    Package  = {"a", "b", "s", "w"}
    Dist     <- TwoBuildsDist
    Of       <- TwoBuildsOf
    Wheel    = {"s1"}
    Provided = {}
    Unhashed = {}
    Root     = "root"
    AnyUrl   <- TwoBuildsAnyUrl
    Explicit <- FailingExplicit
    Requires <- FailingRequires
    Depends  <- TwoBuildsDepends
    Answers  <- FailingAnswers
    Fatal    = {"w"}
    Capacity = 1
PROPERTIES
    JobsAnswered
CHECK_DEADLOCK FALSE
