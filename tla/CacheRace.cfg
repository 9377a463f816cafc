SPECIFICATION Spec
CONSTANTS
    Client = {c1, c2}
    Options <- RaceOptions
    Headers <- RaceHeaders
    OverrideAge = 0
    Heuristic = 1
    CdnAge = 0
    MaxRetries = 0
    Failures = {}
    MaxTime = 2
    MaxVersion = 2
SYMMETRY Symmetric
INVARIANTS
    RefreshSeesCurrent
    PolicyMatchesData
