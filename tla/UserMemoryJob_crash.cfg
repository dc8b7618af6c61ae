SPECIFICATION Spec
CONSTANTS
    None = None
    Workers = {w1, w2}
    Recoverers = {r1, r2}
    Attempts = 2
    Zombies = FALSE
    MaxFaults = 2
SYMMETRY Symmetry
CHECK_DEADLOCK FALSE
INVARIANT FailedMeansFailed
