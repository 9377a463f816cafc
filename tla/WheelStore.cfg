SPECIFICATION Spec
CONSTANTS
    p1 = p1
    p2 = p2
    w1 = w1
    w2 = w2
    Process = {p1, p2}
    MaxFiles = 1
    Wheel = {w1, w2}
    Kind <- KindRegistrySource
    Command = {"install", "prune", "prune_ci", "remove", "clear"}
    Forcible = TRUE
    Lockless = TRUE
    MaxArchives = 2
SYMMETRY Symmetry
INVARIANTS
    TypeOK
    InstallsWhole
    LinksResolve
    PruneCollects
    RemoveForgets
CHECK_DEADLOCK FALSE
