\* One connection that may fail, two lines, one old text, and a key pressed at any time.
SPECIFICATION ServerSpec
CONSTANTS
    ann = ann
    red = red
    MaxConns = 1
    MaxLines = 2
    MaxStarts = 1
    Msgs <- MCMsgs
    Posts <- MCPosts
    UserOrder <- MCUserOrder
    NoName = NoName
    Colors <- MCColors
    NoColor = NoColor
    MaxOld = 1
INVARIANTS
    QuietAfterExit
    DbOutlivesHandlers
PROPERTIES
    ServerEnds
    StoredReaches
CHECK_DEADLOCK FALSE
