\* One write of five fragments; the network thread pushes at most three
\* requests, enough for three NACK ranges to reach the merge loop together.
CONSTANTS
    NDatagrams = 5
    MaxPushes = 3
SPECIFICATION Spec
INVARIANT MergedIsUnion
\* The write returns once DONE is popped: the thread stops there.
CHECK_DEADLOCK FALSE
