SPECIFICATION FairSpec
CONSTANTS
    None = None
    Workers = {w1, w2}
    Recoverers = {r1}
    Attempts = 2
    Zombies = TRUE
    MaxFaults = 1
CHECK_DEADLOCK FALSE
INVARIANTS ClaimHeld Exclusive
PROPERTIES CompletedIsFinal Settles
