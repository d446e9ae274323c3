SPECIFICATION Spec
CONSTANTS
    None = None
    Torn = Torn
    Malformed = Malformed
    NotYet = NotYet
    Keywords = {1, 2, 3}
    Files = {1, 2, 3}
    Peers = {1, 2}
    RequireInterest = TRUE
    MaxKeywords = 2
    MaxPerKeyword = 2
    MaxTotal = 3
    InterestTTL = 2
    ResultsTTL = 1
    SourceIds = {1, 2, 3}
    Me = 1
    StoreMaxKeywords = 2
    StoreMaxTotal = 2
    StoreTTL = 1
    MaxFiles = 2
    MaxPerFile = 2
    MaxSources = 3
    JobKeywords = {1}
    JobFiles = {1, 2}
    JobPeers = {1}
    SourceFiles = {1}
    ActionBatch = 1
    ActionEvery = 1
    JobTTL = 1
    MaxProbes = 1
    MaxOpen = 1
    FloodSources = {1, 2, 3}
    Opcodes = {1, 2}
    Limit = 1
    FloodWindow = 2
    MaxFloodSources = 2
    EntryTTL = 2
    CleanupEvery = 2
    Classes = {"query", "hello"}
    Second = 5
    GlobalInterval = 1
    PeerInterval = 2
    GlobalPerSec = 1
    PeerPerSec = 1
    GlobalFloor = 1
    PeerFloor = 1
    StateTTL = 3
    StateMax = 3
    Nodes = {1, 2, 3}
    Seeds = {1, 2}
    Small = 2
    MaxSaved = 2
    MaxPersist = 2
    Sizes = {0, 1, 2, 3}
    MaxSize = 2
    MaxWire = 5
    MaxSent = 2
    MinInterval = 1
    GreetBatch = 1
    MaxFailures = 2
    MaxHellos = 1
INVARIANTS CacheWithinCaps StoresWithinCaps FloodIsLimited RateIsKept DatagramsAreWhole GreetingsArePaced
PROPERTIES LocalSourceOutlives AckCoverageKeeps PoolIsKept
CHECK_DEADLOCK FALSE
