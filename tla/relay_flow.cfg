SPECIFICATION FairSpec
CONSTANTS
    CreditWindow = 3
    AckInterval = 3
    ChunkSize = 2
    TextSize = 2
    MaxSent = 9
INVARIANTS TypeOK WindowRespected NoStall
PROPERTY CreditReturns
CHECK_DEADLOCK FALSE
