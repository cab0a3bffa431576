SPECIFICATION Spec
CONSTANTS
    Requests = {"batch", "file"}
    OneFile = {"file"}
    Streams = TRUE
    Targets = {"p", "q"}
    MaxPrompts = 2
    Pastes = {1, 2}
    MaxImages = 2
INVARIANTS TypeOK NoOrphanRequest AcceptNeedsClick SendWaits
CHECK_DEADLOCK FALSE
