SPECIFICATION PermitSpec
CONSTANTS
    Nobody = Nobody
    c1 = c1
    c2 = c2
    c3 = c3
    c4 = c4
    Caller = {c1, c2, c3, c4}
    Watcher = {w1}
    Weight <- LightAndHeavy
    Limit <- TwoLimits
INVARIANTS Capacity CountersAgree NoIdleFit
