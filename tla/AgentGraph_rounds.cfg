SPECIFICATION Spec
CONSTANTS
    Targets = {t1, t2}
    MaxRounds = 3
    MaxAssignments = 2
    MaxCalls = 2
    MaxSearches = 2
    Corpora <- MCCorpora
    Limits = {1, 2}
    TokenLists <- MCTokenLists
SYMMETRY Symmetry
CHECK_DEADLOCK FALSE
INVARIANTS NoGuess NoRepeat CitesWhatItTells FullSearches FittingContexts
