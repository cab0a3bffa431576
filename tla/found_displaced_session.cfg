SPECIFICATION Spec
CONSTANTS
    a = a
    b = b
    d = d
    x = x
    y = y
    z = z
    lan = lan
    wifi = wifi
    None = None
    Ids = {x, y, z}
    Rooms = {lan, wifi}
    IdOf <- SharedId
    RoomOf <- OneRoom
    Conn = {a, b, d}
    SessMax = 1
    QueueCap = 2
    Quitters = {}
    Renamers = {}
    Signalers = {}
    MaxOpen = 1
    MaxFrame = 0
    Stale = {}
    Openers = {b}
INVARIANT FarEndThere
CHECK_DEADLOCK FALSE
