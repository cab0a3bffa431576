SPECIFICATION Spec
CONSTANTS
    NJobs = 3
    Kind <- FileDocFile
    Files = 2
    Chunks = 2
    Window = 2
    Picked = {}
    Paths = {"relay"}
    MaxTexts = 2
    Faults = {"sink", "timeout", "read", "break", "mute"}
INVARIANTS TypeOK Integrity SentMeansSaved TextsInOrder
CHECK_DEADLOCK FALSE
