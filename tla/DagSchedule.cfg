SPECIFICATION FairSpec
CONSTANTS
    MaxTime = 6
    Interval = 2
    NoDate = NoDate
    Dags <- MCDags
    TriggerDates = {2, 3}
    BackfillDates = {0, 4}
    MaxEvents = 2
INVARIANTS PeriodIsOver NoIntervalSkipped ActiveRunsBounded
PROPERTIES OnlyLatestInterval EveryIntervalIsRun EveryRunEnds
