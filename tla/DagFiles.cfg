SPECIFICATION FairSpec
CONSTANTS
    Files = {"f", "g"}
    Parallelism = 2
    Directories <- MCDirectories
    Edited = {"g"}
    MaxRuns <- MCMaxRuns
    PipeSize = 1
    MaxEdits = 1
    MaxFaults = 1
    MaxEvents = 1
INVARIANTS QueueConsistent DoneMeansProcessed DeactivatedIsGone
PROPERTIES EditIsSeen SchedulerEnds
CHECK_DEADLOCK FALSE
