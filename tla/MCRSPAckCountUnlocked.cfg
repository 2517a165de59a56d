\* The code as written (no lock around _handleAck and write()'s reset):
\* the type invariant and the select()/interrupt() wake-up still hold.
\* Once the writes are done both threads block for good, so deadlock is
\* not checked.
CONSTANTS
    Writer = w
    Remotes = {r1}
    MaxWrites = 3
    Locked = FALSE
    TimeoutLimit = 2
    LossLimit = 2
SPECIFICATION FairSpec
INVARIANTS
    TypeOK
    NoLostWakeup
CHECK_DEADLOCK FALSE
