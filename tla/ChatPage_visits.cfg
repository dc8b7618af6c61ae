CONSTANTS
    a = a
    b = b
    None = None
    Rooms = {a, b}
    Stored <- MCStored
    Waiting = {b}
    PageSize = 2
    Acts <- MCAll
    MaxActs = 3
    MaxFaults = 1
    MaxDeltas = 1
SPECIFICATION Spec
INVARIANTS ShownOnce OneRunStreamed FlagsSettle NothingMissing Rejoined
CHECK_DEADLOCK FALSE
