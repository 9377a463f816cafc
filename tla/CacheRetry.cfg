SPECIFICATION FairSpec
CONSTANTS
    Client = {c1}
    Options <- RetryOptions
    Headers <- RetryHeaders
    OverrideAge = 0
    Heuristic = 1
    CdnAge = 0
    MaxRetries = 2
    Failures = {"transient", "fatal"}
    MaxTime = 2
    MaxVersion = 2
INVARIANTS
    RetriesBounded
PROPERTIES
    CallsReturn
