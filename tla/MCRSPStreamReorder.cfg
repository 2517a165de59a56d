\* As MCRSPStream.cfg but UDP may deliver datagrams out of order.
CONSTANTS
    Writer = w
    Remotes = {r1}
    NBuffers = 2
    AckFreq = 2
    SeqIdMod <- MCSeqIdMod
    MaxWrites = 2
    ChanCap = 2
    TimeoutLimit = 3
    RepeatCap = 2
    Reorder = TRUE
    Lossy = TRUE
INIT Init
NEXT Next
INVARIANT
    StreamIntegrity
CHECK_DEADLOCK FALSE
