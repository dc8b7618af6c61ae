SPECIFICATION Spec
CONSTANTS
    Recent = 2
    Batch = 2
    MaxMessages = 8
    MaxFailures = 1
CHECK_DEADLOCK FALSE
INVARIANTS MergedOnce NothingForgotten
PROPERTY SummaryGrows
