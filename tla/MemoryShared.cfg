SPECIFICATION FairSpec
CONSTANTS
    Nobody = Nobody
    r1 = r1
    r2 = r2
    w1 = w1
    w2 = w2
    Caller = {r1, r2, w1, w2}
    Watcher = {watcher}
    Mode <- Sides
INVARIANTS WriterExcludes EntryAgrees NobodySleepsInVain
PROPERTIES AdmissionInOrder WriterIsServed
