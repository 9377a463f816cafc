SPECIFICATION FairSpec
CONSTANTS
    Process = {"p1"}
    Dist = {"a", "b", "c", "w"}
    Source = {"a", "b"}
    Static = {}
    Default = {}
    Faulty = {"w"}
    Graphs <- Crossed
    Extra <- NoExtra
    Request <- AskPair
    Resolves = {"p1"}
PROPERTIES
    CommandsReturn
