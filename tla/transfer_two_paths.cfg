SPECIFICATION FairSpec
CONSTANTS
    NJobs = 3
    Kind <- FileNoteFile
    Files = 2
    Chunks = 2
    Window = 1
    Picked = {3}
    Paths = {"direct", "relay"}
    MaxTexts = 0
    Faults = {"timeout", "read", "break", "leave"}
INVARIANT IntactUndisturbed
PROPERTIES LockReleased Delivers
CHECK_DEADLOCK FALSE
