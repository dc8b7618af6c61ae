SPECIFICATION Spec
CONSTANTS
    None = None
    Instances = {i1}
    Requests = {1, 2, 3, 4}
    Ops = {"send", "approve", "join"}
    Sequential = FALSE
    Faults = FALSE
    SlowRuns = FALSE
    MaxCrashes = 0
CHECK_DEADLOCK FALSE
INVARIANT ApprovedIsExecuted
