SPECIFICATION Spec
CONSTANTS
    None = None
    Torn = Torn
    Files = {"f", "g"}
    FileSize = 6
    BlockSizes = {1, 2, 3}
    MaxBlocks = 2
    MaxInflight = 3
    Slots = 1
    MayDamage = TRUE
    Parts = {1, 2}
    Sources = {"p"}
    NBlocks = 2
    MaxReserve = 2
    LeaseTime = 2
    IoTime = 1
    Streams = {1, 2}
    Peers = {"p"}
    Ranges = {1, 2}
    ActivityTTL = 1
    Retention = 2
    MaxRecent = 2
    MaxSessions = 3
    Paths = {"p"}
    Contents = {"a", "b"}
    Republish = {"republish_sources"}
    Cooldown = 1
    Stamps = {1, 2}
    Clients = {1, 2}
    Fields = {"roots", "level"}
    Values = {0, 1}
    Default = 0
INVARIANTS LoadIsRecent ContentIsKept OwnBlocksOnly NothingLeftBehind ActiveIsSent IndexIsTrue AnnouncedOnce PatchesLast
PROPERTIES ImplementsPool
CHECK_DEADLOCK FALSE
