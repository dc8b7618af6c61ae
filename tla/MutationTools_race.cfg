SPECIFICATION Spec
CONSTANTS
    None = None
    c1 = c1
    c2 = c2
    m1 = m1
    m2 = m2
    Calls = {c1, c2}
    Messages = {m1, m2}
    MessageOf <- OneCallEach
    Rows = {r1}
    Batches = FALSE
    Faults = TRUE
    MaxRuns <- ThreeAndTwo
CHECK_DEADLOCK FALSE
INVARIANTS OncePerCall SuccessIsApplied ReplayRecognised
PROPERTY Implements
