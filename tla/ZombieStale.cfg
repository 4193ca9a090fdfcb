SPECIFICATION FairSpec
CONSTANTS
    MaxJobs = 2
    Retries = 1
    MaxKills = 1
    MaxMisses = 0
    MaxClears = 0
    MaxEvents = 2
PROPERTIES OnlyZombiesAreFailed
CHECK_DEADLOCK FALSE
