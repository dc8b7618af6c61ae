SPECIFICATION Spec
CONSTANTS
    None = None
    Instances = {i1}
    Requests = {1, 2, 3}
    Ops = {"send", "approve"}
    Sequential = TRUE
    Faults = TRUE
    SlowRuns = FALSE
    MaxCrashes = 0
CHECK_DEADLOCK FALSE
INVARIANT ApprovedIsExecuted
