SPECIFICATION FairSpec
CONSTANTS
    Process = {"p1"}
    Dist = {"a", "b"}
    Source = {"a", "b"}
    Static = {"a", "b"}
    Default = {}
    Faulty = {}
    Graphs <- Mutual
    Extra <- NoExtra
    Request <- AskAll
    Resolves = {"p1"}
PROPERTIES
    CyclesReturn
