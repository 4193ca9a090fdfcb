SPECIFICATION FairSpec
CONSTANTS
    MaxJobs = 2
    Retries = 1
    MaxKills = 1
    MaxMisses = 1
    MaxClears = 1
    MaxEvents = 2
INVARIANTS NoFalseAlarm StartableHasTry OneExecution
PROPERTIES DeadIsNoticed UndeadStops
CHECK_DEADLOCK FALSE
