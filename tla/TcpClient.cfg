\* A connection, lost or stopped, and a second one; two lines of the user.
SPECIFICATION Spec
CONSTANTS
    MaxCalls = 3
    MaxWrites = 2
    MaxLines = 1
INVARIANTS
    ConnectedWriteChain
    ReportedOnce
    SentInOrder
PROPERTIES
    StopReturns
    QueuedIsSent
CHECK_DEADLOCK FALSE
