SPECIFICATION FairSpec
CONSTANTS
    Nobody = Nobody
    Caller = {c1, c2, c3}
    Watcher = {w1}
INVARIANTS MutualExclusion NobodySleepsInVain
PROPERTIES ImplementsFifo EveryWaiterIsServed
