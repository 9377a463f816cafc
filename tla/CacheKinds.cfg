SPECIFICATION Spec
CONSTANTS
    Client = {c1}
    Options <- KindOptions
    Headers <- KindHeaders
    OverrideAge = 1
    Heuristic = 1
    CdnAge = 1
    MaxRetries = 0
    Failures = {"fatal"}
    MaxTime = 3
    MaxVersion = 2
INVARIANTS
    ServesRecent
