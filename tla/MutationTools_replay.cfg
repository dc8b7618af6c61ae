SPECIFICATION Spec
CONSTANTS
    None = None
    c1 = c1
    c2 = c2
    m1 = m1
    m2 = m2
    Calls = {c1}
    Messages = {m1}
    MessageOf <- OneCall
    Rows = {r1}
    Batches = FALSE
    Faults = TRUE
    MaxRuns <- Four
CHECK_DEADLOCK FALSE
INVARIANT StaleIsForeign
