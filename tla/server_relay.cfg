SPECIFICATION Spec
CONSTANTS
    a = a
    b = b
    d = d
    x = x
    y = y
    z = z
    lan = lan
    wifi = wifi
    None = None
    Ids = {x, y, z}
    Rooms = {lan, wifi}
    IdOf <- UniqueIds
    RoomOf <- OneRoom
    Conn = {a, b}
    SessMax = 1
    QueueCap = 2
    Quitters = {a, b}
    Renamers = {}
    Signalers = {}
    MaxOpen = 1
    MaxFrame = 2
    Stale = {}
    Openers = {a}
INVARIANTS FramesInOrder AcceptedMeansLive
CHECK_DEADLOCK FALSE
