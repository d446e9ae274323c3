SPECIFICATION Spec
CONSTANTS
    p1 = p1
    Parts = {1}
    Peers = {p1}
    FileSize = 2
    BlockSizes = {1}
    MaxReserveBlocks = 2
    PeerLeaseCap = 2
    DownloadLeaseCap = 2
    LeaseTime = 1
    BackoffBase = 1
    BackoffMax = 1
    RetryMax = 1
    Faults = {}
    DirectMarks = FALSE
INVARIANT ReceivedUnderLease
