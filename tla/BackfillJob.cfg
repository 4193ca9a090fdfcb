SPECIFICATION FairSpec
CONSTANTS
    Tasks = {"a", "b"}
    Up <- Chain2
    Rank <- Rank2
    Dates = {1, 2}
    retries <- RetryA
    MaxRetries = 1
    Concurrency = 1
    task_concurrency <- NoLimits
    max_active_runs = 1
    DependsOnPast = {"b"}
    Skippers = {"a"}
    Sensors = {"b"}
    Clearable <- ClearB
    InitialStates <- Existing
    MaxEvents = 1
INVARIANTS Accounted DoneMeansDone
PROPERTIES SucceededNotRerun BackfillEnds
CHECK_DEADLOCK FALSE
