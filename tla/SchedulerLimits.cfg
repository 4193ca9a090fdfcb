SPECIFICATION Spec
CONSTANTS
    TIs = {"a1", "a2", "b1"}
    Keys <- TaskKeys
    KeyDag <- MCKeyDag
    KeyPriority <- MCKeyPriority
    Dags <- MCDags
    DagOf <- MCDagOf
    TaskOf <- MCTaskOf
    PoolOf <- MCPoolOf
    Priority <- MCPriority
    Retries <- NoRetry
    MaxRetries = 0
    Slots <- TwoSlotsForA2
    DagConcurrency <- OneEach
    TaskConcurrency <- Plenty
    PoolSlots <- TwoPoolSlots
    Parallelism = 2
    MaxTisPerQuery = 1
    Dummies = {}
    Sensors = {"b1"}
    TimeoutDags = {}
    MaxKills = 0
    MaxCrashes = 0
    MaxDbErrors = 0
    MaxFaults = 0
    MaxReschedules = 1
INVARIANT LimitsRespected
