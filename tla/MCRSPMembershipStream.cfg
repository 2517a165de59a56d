\* Two peers with distinct IDs on a reliable FIFO network; each may write
\* once: stream datagrams meet peers that have not yet discovered the
\* writer or the reader.
CONSTANTS
    p1 = p1
    p2 = p2
    p3 = p3
    Peers = {p1, p2}
    IDs = {1, 2}
    HelloLimit = 2
    CountLimit = 2
    ChanCap = 2
    Lossy = FALSE
    Reorder = FALSE
    AllowClose = FALSE
    InitIDs <- MCDistinctIDs
    WriteLimit = 1
    RetryLimit = 2
SPECIFICATION Spec
INVARIANTS
    NetThreadSurvives
CHECK_DEADLOCK FALSE
