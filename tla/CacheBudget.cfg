SPECIFICATION Spec
CONSTANTS
    Client = {c1}
    Options <- RetryOptions
    Headers <- RetryHeaders
    OverrideAge = 0
    Heuristic = 1
    CdnAge = 0
    MaxRetries = 1
    Failures = {"transient"}
    MaxTime = 2
    MaxVersion = 2
INVARIANTS
    RetriesCounted
