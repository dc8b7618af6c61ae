SPECIFICATION FairSpec
CONSTANTS
    None = None
    Requests = {}
    Kinds = {"reprocess"}
    Workers = {w1}
    Recoverers = {r1}
    Attempts = 2
    Zombies = FALSE
    MaxFaults = 1
CHECK_DEADLOCK FALSE
PROPERTY Settles
