SPECIFICATION FairSpec
CONSTANTS
    NoJob = NoJob
    Job = {j1}
    Worker = {w1, w2}
    MaxTries = 2
    MaxRetries = 1
    MaxFaults = 2
INVARIANTS AttemptsAgree CompletedMeansOk SinkHasIt
PROPERTIES FenceHolds EveryJobSettles
CHECK_DEADLOCK FALSE
