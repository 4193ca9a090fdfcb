SPECIFICATION FairSpec
CONSTANTS
    Tasks = {"a", "b", "c"}
    Up <- Fork
    RulesOf <- SomeRulesForC
    Retriers = {"b"}
    Branches = {"a"}
    MaxClears = 1
PROPERTIES SkippedIsNotRun RunEnds
CHECK_DEADLOCK FALSE
