\* Two peers whose random IDs may collide, a reliable network that may
\* reorder, no close(): joins, collisions and the COUNTNODE exchange.
CONSTANTS
    p1 = p1
    p2 = p2
    p3 = p3
    Peers = {p1, p2}
    IDs = {1, 2}
    HelloLimit = 2
    CountLimit = 2
    ChanCap = 2
    Lossy = FALSE
    Reorder = TRUE
    AllowClose = FALSE
    InitIDs <- MCAnyIDs
    WriteLimit = 0
    RetryLimit = 2
SPECIFICATION Spec
INVARIANTS
    UniqueIDs
    QuiescentAgreement
CHECK_DEADLOCK FALSE
