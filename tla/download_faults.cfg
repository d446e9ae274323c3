SPECIFICATION Spec
CONSTANTS
    p1 = p1
    p2 = p2
    Parts = {1}
    Peers = {p1, p2}
    FileSize = 2
    BlockSizes = {1, 2}
    MaxReserveBlocks = 2
    PeerLeaseCap = 1
    DownloadLeaseCap = 2
    LeaseTime = 1
    BackoffBase = 1
    BackoffMax = 1
    RetryMax = 1
    Faults <- AllButCreate
    DirectMarks = FALSE
SYMMETRY PeerSymmetry
INVARIANTS TypeOK LeaseAccounting CompletionIsWhole RecoveryIsBacked DiskNotAhead
PROPERTIES NothingReceivedIsLost
