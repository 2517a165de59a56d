\* Two peers with distinct IDs on a reliable FIFO network; one may close().
CONSTANTS
    p1 = p1
    p2 = p2
    p3 = p3
    Peers = {p1, p2}
    IDs = {1, 2}
    HelloLimit = 2
    CountLimit = 2
    ChanCap = 2
    Lossy = FALSE
    Reorder = FALSE
    AllowClose = TRUE
    InitIDs <- MCDistinctIDs
    WriteLimit = 0
    RetryLimit = 2
SPECIFICATION Spec
INVARIANT
    QuiescentAgreement
CHECK_DEADLOCK FALSE
