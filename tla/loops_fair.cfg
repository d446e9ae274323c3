SPECIFICATION Spec
CONSTANTS
    None = None
    Other = Other
    Peers = {"p","q"}
    Debugs = {"t","u"}
    Buckets = {"b"}
    Alpha = 1
    RefreshAlpha = 1
    PerTick = 1
    PerSparseTick = 1
    SendGoal = 1
    QueueMax = 1
    Iterations = 2
    ReqTimeout = 1
    TrackTTL = 1
    RefreshEvery = 1
    MaxRequests = 2
    Retried = {"p"}
    MaxStreams = 2
    MaxFaults = 4
INVARIANTS QueueSound PendingIsTracked
PROPERTIES DebugOutranksRefresh LookupEnds ListenerRecovers
