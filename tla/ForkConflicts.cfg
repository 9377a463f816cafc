SPECIFICATION Spec
CONSTANTS
    None = None
    Root <- MCRoot
    Env <- OnePython
    Py <- MCPy
    Target <- MCTarget
    Initial <- TwoForks
    Item <- MCItem
    Extra <- MCExtra
    Base <- MCBase
    Twin <- MCTwin
    Declared <- ConflictLists
    Package <- MCPackage
    Normal <- MCNormal
    Dep <- ItemDeps
    Deps <- MCDeps
    Marker <- MCMarker
    ItemOf <- MCItemOf
    Platforms <- NoPlatforms
INVARIANTS TypeOK Disjoint Covered NothingLost ExcludedGone ConflictFree
