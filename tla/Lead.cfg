SPECIFICATION FairSpec
CONSTANTS
    Candidate = {a, b}
    Nobody = Nobody
    MayFail = TRUE
INVARIANT OneLeader
PROPERTIES RestsBetweenTerms KeyIsLedAgain
CHECK_DEADLOCK FALSE
