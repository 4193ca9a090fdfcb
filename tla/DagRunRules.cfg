SPECIFICATION Spec
CONSTANTS
    Tasks = {"a", "b", "c", "d"}
    Up <- Join
    RulesOf <- AnyRule
    Retriers = {"a"}
    Branches = {}
    MaxClears = 0
INVARIANTS TypeOK VerdictIsSound
PROPERTIES ScheduledByTheRule RunningUndisturbed
CHECK_DEADLOCK FALSE
