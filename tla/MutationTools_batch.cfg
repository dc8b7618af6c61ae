SPECIFICATION Spec
CONSTANTS
    None = None
    c1 = c1
    c2 = c2
    m1 = m1
    m2 = m2
    Calls = {c1, c2}
    Messages = {m1}
    MessageOf <- OneMessage
    Rows = {r1, r2}
    Batches = TRUE
    Faults = FALSE
    MaxRuns <- Three
CHECK_DEADLOCK FALSE
INVARIANT ApprovedOnly
