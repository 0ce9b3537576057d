SPECIFICATION Spec
CONSTANTS
    t1 = t1
    t2 = t2
    Token = {t1, t2}
    NoToken = NoToken
    TTL = 4
    MaxTime = 5
    MaxExtends = 1
    Resends = TRUE
    Stalls = FALSE
SYMMETRY Attempts
INVARIANTS DeadlineWithinLease FencesOrderGrants ValueMeansExclusive
CHECK_DEADLOCK FALSE
