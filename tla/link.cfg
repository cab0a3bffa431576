SPECIFICATION FairSpec
CONSTANTS
    Peers = {"p"}
    MaxJoins = 2
    MaxSess = 2
    MaxDrops = 1
    Backlog = 1
    Faults = {"timeout", "error", "silence"}
INVARIANTS   DirectIsOwn
PROPERTIES AcquireEnds 
CHECK_DEADLOCK FALSE
