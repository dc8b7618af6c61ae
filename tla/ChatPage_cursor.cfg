CONSTANTS
    a = a
    b = b
    None = None
    Rooms = {a, b}
    Stored <- MCStored
    Waiting = {b}
    PageSize = 2
    Acts <- MCAll
    MaxActs = 2
    MaxFaults = 0
    MaxDeltas = 1
SPECIFICATION Spec
INVARIANT OlderPageIsNew
CHECK_DEADLOCK FALSE
