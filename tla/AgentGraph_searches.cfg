SPECIFICATION Spec
CONSTANTS
    Targets = {t1, t2}
    MaxRounds = 2
    MaxAssignments = 1
    MaxCalls = 2
    MaxSearches = 2
    Corpora = {}
    Limits = {}
    TokenLists = {}
SYMMETRY Symmetry
CHECK_DEADLOCK FALSE
INVARIANT NeverGuess
