SPECIFICATION Spec
CONSTANTS
    NoJob = NoJob
    Job = {j1}
    Worker = {w1, w2}
    MaxTries = 2
    MaxRetries = 1
    MaxFaults = 1
PROPERTY NoStaleCommit
CHECK_DEADLOCK FALSE
