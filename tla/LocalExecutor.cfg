SPECIFICATION Spec
CONSTANTS
    Keys <- MCKeys
    Dags <- MCDags
    KeyDag <- MCKeyDag
    KeyPriority <- MCKeyPriority
    Workers = {w1, w2}
    MaxLaunchErrors = 1
INVARIANTS ParallelismRespected Conservation EndedMeansDone
PROPERTIES KeepsContract EndReturns RunningIsReported
CHECK_DEADLOCK FALSE
