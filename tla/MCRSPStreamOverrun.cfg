\* As MCRSPStream.cfg but with one write more than there are receive slots,
\* so that a reader that falls behind fills its ring.
CONSTANTS
    Writer = w
    Remotes = {r1}
    NBuffers = 2
    AckFreq = 2
    SeqIdMod <- MCSeqIdMod
    MaxWrites = 3
    ChanCap = 2
    TimeoutLimit = 3
    RepeatCap = 2
    Reorder = FALSE
    Lossy = TRUE
INIT Init
NEXT Next
PROPERTY
    CompletedSlotStable
CHECK_DEADLOCK FALSE
