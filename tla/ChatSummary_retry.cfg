SPECIFICATION Spec
CONSTANTS
    Recent = 2
    Batch = 2
    MaxMessages = 7
    MaxFailures = 1
CHECK_DEADLOCK FALSE
INVARIANT RetriedIsRemembered
