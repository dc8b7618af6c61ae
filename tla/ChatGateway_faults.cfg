SPECIFICATION FairSpec
CONSTANTS
    None = None
    Instances = {i1}
    Requests = {1, 2, 3}
    Ops = {"send", "retry", "approve", "stop", "join"}
    Sequential = FALSE
    Faults = TRUE
    SlowRuns = FALSE
    MaxCrashes = 1
CHECK_DEADLOCK FALSE
INVARIANTS ResumeMutex FlagsOwned RetriesAnswerOnce
PROPERTIES RequestsEnd LockFreed
