SPECIFICATION Spec
CONSTANTS
    None = None
    Root <- MCRoot
    Env <- OnePython
    Py <- MCPy
    Target <- MCTarget
    Initial <- OneFork
    Item <- MCItem
    Extra <- MCExtra
    Base <- MCBase
    Twin <- MCTwin
    Declared <- SameName
    Package <- MCPackage
    Normal <- MCNormal
    Dep <- SameNameDeps
    Deps <- MCDeps
    Marker <- MCMarker
    ItemOf <- MCItemOf
    Platforms <- NoPlatforms
INVARIANT NothingLost
