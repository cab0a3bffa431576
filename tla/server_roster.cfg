SPECIFICATION Spec
CONSTANTS
    a = a
    b = b
    d = d
    x = x
    y = y
    z = z
    lan = lan
    wifi = wifi
    None = None
    Ids = {x, y, z}
    Rooms = {lan, wifi}
    IdOf <- UniqueIds
    RoomOf <- OneRoom
    Conn = {a, b, d}
    SessMax = 1
    QueueCap = 2
    Quitters = {a}
    Renamers = {b}
    Signalers = {}
    MaxOpen = 0
    MaxFrame = 0
    Stale = {}
    Openers = {}
INVARIANTS TypeOK RosterComplete
CHECK_DEADLOCK FALSE
