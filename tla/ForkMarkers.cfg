SPECIFICATION FairSpec
CONSTANTS
    None = None
    Root <- MCRoot
    Env <- ThreePythons
    Py <- MCPy
    Target <- MCTarget
    Initial <- OneFork
    Item <- MCItem
    Extra <- MCExtra
    Base <- MCBase
    Twin <- MCTwin
    Declared <- OneOrNone
    Package <- MCPackage
    Normal <- MCNormal
    Dep <- MarkerDeps
    Deps <- MCDeps
    Marker <- MCMarker
    ItemOf <- MCItemOf
    Platforms <- OnePlatform
INVARIANTS NothingLost ConflictsCurrent
PROPERTY SolveEnds
