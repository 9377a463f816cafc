SPECIFICATION Spec
CONSTANTS
    p1 = p1
    p2 = p2
    w1 = w1
    w2 = w2
    Process = {p1, p2}
    MaxFiles = 2
    Wheel = {w1}
    Kind <- KindRegistry
    Command = {"install", "prune", "clear"}
    Forcible = FALSE
    Lockless = FALSE
    MaxArchives = 2
SYMMETRY Symmetry
INVARIANT
    LockPreventsCleaning
CHECK_DEADLOCK FALSE
