SPECIFICATION Spec
CONSTANTS
    WordMax = 17
    Bottom = 2
    Top = 16
    PageSize = 2
    MaxWindow = 6
    MaxAttempts = 9
    MaxChanges = 1
INVARIANTS
    RecordsOnlyHostFacts
    LayoutLeavesNoTrace
    ExhaustedSaysNothing
CHECK_DEADLOCK FALSE
