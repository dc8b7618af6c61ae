SPECIFICATION RecordsSpec
CONSTANTS
    N = 3
    Retries = 0
    DeleteRooms = TRUE
CHECK_DEADLOCK FALSE
INVARIANT NeverResurrected
