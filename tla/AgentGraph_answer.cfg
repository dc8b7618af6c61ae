SPECIFICATION Spec
CONSTANTS
    Targets = {t1, t2}
    MaxRounds = 1
    MaxAssignments = 2
    MaxCalls = 2
    MaxSearches = 0
    Corpora = {}
    Limits = {}
    TokenLists = {}
SYMMETRY Symmetry
CHECK_DEADLOCK FALSE
INVARIANT ResultsTold
