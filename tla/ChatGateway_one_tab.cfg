SPECIFICATION Spec
CONSTANTS
    None = None
    Instances = {i1}
    Requests = {1, 2, 3, 4, 5}
    Ops = {"send", "retry", "approve", "stop", "join"}
    Sequential = TRUE
    Faults = FALSE
    SlowRuns = FALSE
    MaxCrashes = 0
CHECK_DEADLOCK FALSE
INVARIANTS AnswerSettles ApprovedIsExecuted ApprovalsRecoverable MemoryIsBacked
