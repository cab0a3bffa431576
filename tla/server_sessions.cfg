SPECIFICATION Spec
CONSTANTS
    a = a
    b = b
    d = d
    x = x
    y = y
    z = z
    lan = lan
    wifi = wifi
    None = None
    Ids = {x, y, z}
    Rooms = {lan, wifi}
    IdOf <- SameIdElsewhere
    RoomOf <- TwoRooms
    Conn = {a, b, d}
    SessMax = 2
    QueueCap = 1
    Quitters = {}
    Renamers = {}
    Signalers = {a}
    MaxOpen = 3
    MaxFrame = 0
    Stale <- StaleAtD
    Openers = {a, b}
INVARIANT RoomIsolation
PROPERTY SessionNotReassigned
CHECK_DEADLOCK FALSE
