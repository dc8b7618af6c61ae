SPECIFICATION Spec
CONSTANTS
    None = None
    Instances = {i1}
    Requests = {1, 2, 3, 4}
    Ops = {"send", "retry", "approve", "join"}
    Sequential = TRUE
    Faults = FALSE
    SlowRuns = FALSE
    MaxCrashes = 1
CHECK_DEADLOCK FALSE
INVARIANT AnswerSettles
