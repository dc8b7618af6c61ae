SPECIFICATION Spec
CONSTANTS
    None = None
    Requests = {q1, q2}
    Kinds = {"reprocess"}
    Workers = {w1, w2}
    Recoverers = {r1}
    Attempts = 2
    Zombies = FALSE
    MaxFaults = 0
CHECK_DEADLOCK FALSE
SYMMETRY Symmetry
INVARIANT ClaimHeld
