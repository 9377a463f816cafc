SPECIFICATION Spec
CONSTANTS
    Process = {p1, p2}
    p1 = p1
    p2 = p2
    Nobody = Nobody
    Kinds = {"url", "archive", "tree"}
    Tag = {"py311", "py312"}
    MaxContent = 2
    MaxRevisions = 2
SYMMETRY Symmetry
INVARIANTS
    ReturnsFresh
    RevisionUniform
    HashGuaranteedOnDisk
CHECK_DEADLOCK FALSE
