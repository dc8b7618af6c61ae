SPECIFICATION Spec
CONSTANTS
    Browsers = {b1}
    TabIds = {t1, t2}
    CallIds = {c1}
    None = None
    MaxSessions = 2
    MaxTokens = 4
SYMMETRY Symmetry
CHECK_DEADLOCK FALSE
INVARIANT KeepsLogin
