SPECIFICATION FairSpec
CONSTANTS
    Jobs = {j1, j2}
    Keys = {k1}
    NoKey = NoKey
    Workers = {w1, w2}
    NoWorker = NoWorker
    MaxAttempts = 2
    Batch = 2
    Prefetch = 1
    MaxDispatch = 1
    MaxEvents = 3
    MaxFaults = 2
INVARIANTS TypeOK SerialPerKey NoLostEvent
PROPERTIES ExclusiveClaim FinishedStaysFinished EventuallyServed
CHECK_DEADLOCK FALSE
