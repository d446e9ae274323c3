SPECIFICATION FairSpec
CONSTANTS
    p1 = p1
    Parts = {1, 2}
    Peers = {p1}
    FileSize = 1
    BlockSizes = {1}
    MaxReserveBlocks = 1
    PeerLeaseCap = 1
    DownloadLeaseCap = 1
    LeaseTime = 1
    BackoffBase = 1
    BackoffMax = 1
    RetryMax = 1
    Faults = {"kill", "create"}
    DirectMarks = TRUE
PROPERTIES LeasesComeBack CompletingIsSettled
