\* One remote peer, a FIFO network that drops a datagram only when the
\* socket buffer is full, two writes, fair threads and receives.
CONSTANTS
    Writer = w
    Remotes = {r1}
    NBuffers = 2
    AckFreq = 2
    SeqIdMod <- MCSeqIdMod
    MaxWrites = 2
    ChanCap = 2
    TimeoutLimit = 2
    RepeatCap = 2
    Reorder = FALSE
    Lossy = FALSE
SPECIFICATION FairSpec
PROPERTIES
    WriteReturns
CHECK_DEADLOCK FALSE
