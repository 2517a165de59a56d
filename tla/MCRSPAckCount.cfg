\* The Writer and one remote child, three writes, _handleAck and write()'s
\* reset made mutually exclusive; two datagrams may be lost, and the second
\* timeout in a row is fatal.  Once the writes are done both threads block
\* for good, so deadlock is not checked.
CONSTANTS
    Writer = w
    Remotes = {r1}
    MaxWrites = 3
    Locked = TRUE
    TimeoutLimit = 2
    LossLimit = 2
SPECIFICATION FairSpec
INVARIANTS
    TypeOK
    NoLostWakeup
PROPERTIES
    WriteReturns
CHECK_DEADLOCK FALSE
