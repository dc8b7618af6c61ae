SPECIFICATION FairSpec
CONSTANTS
    None = None
    Requests = {q1}
    Kinds = {"reprocess", "delete"}
    Workers = {w1}
    Recoverers = {r1}
    Attempts = 2
    Zombies = TRUE
    MaxFaults = 2
CHECK_DEADLOCK FALSE
INVARIANTS FileKept
PROPERTIES ClaimKept ReadyStays LeavesProcessing
