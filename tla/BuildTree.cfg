SPECIFICATION FairSpec
CONSTANTS
    Process = {"p1", "p2"}
    Dist = {"a", "b", "c", "w"}
    Source = {"a", "b", "c"}
    Static = {"b"}
    Default = {"a", "b"}
    Faulty = {"w"}
    Graphs <- Layered
    Extra <- LateExtra
    Request <- AskTwo
    Resolves = {"p2"}
INVARIANTS
    BuildsOnce
    EnvironmentReady
PROPERTIES
    CommandsReturn
