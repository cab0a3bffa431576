SPECIFICATION FairSpec
CONSTANTS
    Candidates = 1
    MaxLosses = 1
INVARIANTS TypeOK 
PROPERTIES  AgreesOnce
CHECK_DEADLOCK FALSE
