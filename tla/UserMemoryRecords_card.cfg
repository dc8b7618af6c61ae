SPECIFICATION RecordsSpec
CONSTANTS
    N = 2
    Retries = 0
    DeleteRooms = FALSE
CHECK_DEADLOCK FALSE
INVARIANT ApprovedIsDeleted
