SPECIFICATION FairSpec
CONSTANTS
    Nobody = Nobody
    Worker = {w1, w2}
    MaxWrites = 4
    MaxWritesOdd = 2
    MaxBatch = 2
    MaxFaults = 2
    Circumstances = {{}, {"legacy"}, {"purges", "foreign"}, {"purges", "replays"}}
INVARIANTS HistoryContinues LogIsPrefix NothingLost
PROPERTY EventsLand
CHECK_DEADLOCK FALSE
