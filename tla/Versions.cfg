SPECIFICATION Spec
CONSTANTS
    First = 4
    Rest = 2
    Suffix = 4
    Releases <- MCReleases
    Epochs = {0, 1}
    Pres <- MCPres
    Posts = {0, 4}
    Devs = {0, 3}
    Locals = {1}
    Top = 9
INVARIANTS
    OrderAgrees
    RangeAgrees
    ReleaseAgrees
