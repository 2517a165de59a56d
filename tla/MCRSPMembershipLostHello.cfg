\* Two peers whose random IDs may collide, on a network that loses
\* datagrams; no close().
CONSTANTS
    p1 = p1
    p2 = p2
    p3 = p3
    Peers = {p1, p2}
    IDs = {1, 2}
    HelloLimit = 2
    CountLimit = 2
    ChanCap = 2
    Lossy = TRUE
    Reorder = FALSE
    AllowClose = FALSE
    InitIDs <- MCAnyIDs
    WriteLimit = 0
    RetryLimit = 2
SPECIFICATION Spec
INVARIANT
    UniqueIDs
CHECK_DEADLOCK FALSE
