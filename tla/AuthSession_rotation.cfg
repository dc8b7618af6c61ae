SPECIFICATION Spec
CONSTANTS
    Browsers = {b1}
    TabIds = {t1, t2}
    CallIds = {c1, c2}
    None = None
    MaxSessions = 1
    MaxTokens = 3
SYMMETRY Symmetry
CHECK_DEADLOCK FALSE
INVARIANTS RefreshShared RotatedOnce
PROPERTY RevokedIsFinal
