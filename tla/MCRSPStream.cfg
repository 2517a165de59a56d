\* One remote peer and the Writer's own child, FIFO network with loss,
\* as many writes as receive slots.
CONSTANTS
    Writer = w
    Remotes = {r1}
    NBuffers = 2
    AckFreq = 2
    SeqIdMod <- MCSeqIdMod
    MaxWrites = 2
    ChanCap = 2
    TimeoutLimit = 3
    RepeatCap = 2
    Reorder = FALSE
    Lossy = TRUE
INIT Init
NEXT Next
INVARIANTS
    TypeOK
    StreamIntegrity
    ReturnMeansHeld
CHECK_DEADLOCK FALSE
PROPERTIES
    StreamRefined
