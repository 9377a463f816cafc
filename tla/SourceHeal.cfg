SPECIFICATION Spec
CONSTANTS
    Process = {p1}
    p1 = p1
    p2 = p2
    Nobody = Nobody
    Kinds = {"url"}
    Tag = {"py312"}
    MaxContent = 2
    MaxRevisions = 2
SYMMETRY Symmetry
INVARIANT
    HashGuaranteed
CHECK_DEADLOCK FALSE
