SPECIFICATION FairSpec
CONSTANTS
    Tasks = {"a", "b"}
    Up <- Chain
    RulesOf <- AnyRule
    Retriers = {}
    Branches = {}
    MaxClears = 1
PROPERTIES ClearedIsRerun
CHECK_DEADLOCK FALSE
