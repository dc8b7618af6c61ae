SPECIFICATION Spec
CONSTANTS
    None = None
    Instances = {i1}
    Requests = {1, 2}
    Ops = {"send", "join"}
    Sequential = TRUE
    Faults = FALSE
    SlowRuns = FALSE
    MaxCrashes = 1
CHECK_DEADLOCK FALSE
INVARIANT ApprovalsRecoverable
