SPECIFICATION FairSpec
CONSTANTS
    a = a
    b = b
    d = d
    x = x
    y = y
    z = z
    lan = lan
    wifi = wifi
    None = None
    Ids = {x, y, z}
    Rooms = {lan, wifi}
    IdOf <- SharedId
    RoomOf <- OneRoom
    Conn = {a, b, d}
    SessMax = 1
    QueueCap = 1
    Quitters = {a, d}
    Renamers = {}
    Signalers = {}
    MaxOpen = 0
    MaxFrame = 0
    Stale = {}
    Openers = {}
INVARIANTS RegistrySound DisplacedIsClosed
PROPERTIES EvictsOnlySelf VanishedReaped
CHECK_DEADLOCK FALSE
