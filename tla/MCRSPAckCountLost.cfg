\* The Writer and one remote child, two writes, _handleAck and write()'s
\* reset unlocked, as in the code; one datagram may be lost, the third
\* timeout in a row is fatal.
CONSTANTS
    Writer = w
    Remotes = {r1}
    MaxWrites = 2
    Locked = FALSE
    TimeoutLimit = 3
    LossLimit = 1
SPECIFICATION FairSpec
INVARIANT
    AckCountMatchesFlags
CHECK_DEADLOCK FALSE
