SPECIFICATION Spec
CONSTANTS
    p1 = p1
    p2 = p2
    w1 = w1
    w2 = w2
    Process = {p1, p2}
    MaxFiles = 1
    Wheel = {w1}
    Kind <- KindPath
    Command = {"install", "prune"}
    Forcible = FALSE
    Lockless = FALSE
    MaxArchives = 2
SYMMETRY Symmetry
INVARIANT
    UnzippedExists
CHECK_DEADLOCK FALSE
