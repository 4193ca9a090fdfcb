SPECIFICATION FairSpec
CONSTANTS
    TIs = {"a1", "a2"}
    Keys <- TaskKeys
    KeyDag <- MCKeyDag
    KeyPriority <- MCKeyPriority
    Dags <- MCDags
    DagOf <- MCDagOf
    TaskOf <- MCTaskOf
    PoolOf <- MCPoolOf
    Priority <- MCPriority
    Retries <- RetryA1Twice
    MaxRetries = 2
    Slots <- OneSlot
    DagConcurrency <- Plenty
    TaskConcurrency <- Plenty
    PoolSlots <- TwoPoolSlots
    Parallelism = 2
    MaxTisPerQuery = 0
    Dummies = {"a2"}
    Sensors = {}
    TimeoutDags = {"A"}
    MaxKills = 1
    MaxCrashes = 1
    MaxDbErrors = 1
    MaxFaults = 1
    MaxReschedules = 0
INVARIANTS TypeOK EventIsCurrent SingleRunner TriesBounded QueuedIsOwned
PROPERTIES FinishedIsFinal RunsEnd
