------------------------------ MODULE MCFileLock ------------------------------
EXTENDS FileLock, TLC

AttemptSymmetry == Permutations(Token)

\* For the configurations that take one circumstance out of Counted: safety only, and
\* FileLockBlind.cfg goes no further than the first exposed attempt.
SafetySpec == Init /\ [][Next]_vars
NobodyExposed == ~exposed
=============================================================================
