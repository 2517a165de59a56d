\* Three peers with distinct IDs on a reliable FIFO network, no close().
CONSTANTS
    p1 = p1
    p2 = p2
    p3 = p3
    Peers = {p1, p2, p3}
    IDs = {1, 2, 3}
    HelloLimit = 2
    CountLimit = 2
    ChanCap = 2
    Lossy = FALSE
    Reorder = FALSE
    AllowClose = FALSE
    InitIDs <- MCDistinctIDs
    WriteLimit = 0
    RetryLimit = 2
SPECIFICATION Spec
INVARIANT
    QuiescentAgreement
CHECK_DEADLOCK FALSE
