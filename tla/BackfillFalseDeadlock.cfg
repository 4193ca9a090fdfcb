SPECIFICATION Spec
CONSTANTS
    Tasks = {"a", "b", "c"}
    Up <- Chain3
    Rank <- Rank3
    Dates = {1}
    retries <- NoLimits
    MaxRetries = 0
    Concurrency = 2
    task_concurrency <- NoLimits
    max_active_runs = 1
    DependsOnPast = {}
    Skippers = {"a"}
    Sensors = {}
    Clearable = {}
    InitialStates <- Fresh
    MaxEvents = 0
INVARIANTS DeadlockIsReal
CHECK_DEADLOCK FALSE
