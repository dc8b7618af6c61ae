SPECIFICATION RecordsSpec
CONSTANTS
    N = 3
    Retries = 1
    DeleteRooms = TRUE
CHECK_DEADLOCK FALSE
INVARIANTS NewestWins EmbeddingMatches NotResurrected
