SPECIFICATION FairSpec
CONSTANTS
    MaxDoc = 6
    Limit = 2
    Sizes = {2, 3}
    MaxNodes = 4
    MarkupLen = 1
    SrcLen <- MCSrcLen
INVARIANTS KeepsWhatItMay    BudgetHolds
PROPERTY PasteEnds
CHECK_DEADLOCK FALSE
