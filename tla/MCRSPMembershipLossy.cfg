\* Two peers with distinct IDs on a network that loses and reorders, and
\* may close(): fair network threads, every join completes.
CONSTANTS
    p1 = p1
    p2 = p2
    p3 = p3
    Peers = {p1, p2}
    IDs = {1, 2}
    HelloLimit = 2
    CountLimit = 2
    ChanCap = 2
    Lossy = TRUE
    Reorder = TRUE
    AllowClose = TRUE
    InitIDs <- MCDistinctIDs
    WriteLimit = 1
    RetryLimit = 2
SPECIFICATION FairSpec
INVARIANTS
    TypeOK
PROPERTIES
    JoinCompletes
    DoneMeansHeld
CHECK_DEADLOCK FALSE
