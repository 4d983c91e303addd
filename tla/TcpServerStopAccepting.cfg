\* The comment of stop(): "Stop accepting and close all connections".
SPECIFICATION Spec
CONSTANTS
    a = a
    b = b
    MaxConns = 1
    MaxLines = 1
    MaxStarts = 1
    Msgs <- MCMsgs
    Posts <- MCBroadcasts
INVARIANTS
    StopCloses
CHECK_DEADLOCK FALSE
