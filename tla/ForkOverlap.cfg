SPECIFICATION Spec
CONSTANTS
    None = None
    Root <- MCRoot
    Env <- OnePython
    Py <- MCPy
    Target <- MCTarget
    Initial <- OneFork
    Item <- MCItem
    Extra <- MCExtra
    Base <- MCBase
    Twin <- MCTwin
    Declared <- Chain
    Package <- MCPackage
    Normal <- MCNormal
    Dep <- ChainDeps
    Deps <- MCDeps
    Marker <- MCMarker
    ItemOf <- MCItemOf
    Platforms <- NoPlatforms
INVARIANT ExcludedAlwaysGone
