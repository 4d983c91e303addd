\* Two users, three lines, one stored text; no connection fails, the database may.
SPECIFICATION ChatSpec
CONSTANTS
    ann = ann
    bob = bob
    red = red
    blue = blue
    MaxConns = 2
    MaxLines = 3
    MaxStarts = 1
    Msgs <- MCMsgs
    Posts <- MCPosts
    UserOrder <- MCUserOrder
    NoName = NoName
    Colors <- MCColors
    NoColor = NoColor
    MaxOld = 1
INVARIANTS
    FullHistory
    SeenAtMostTwice
    OneColor
SYMMETRY MCSymmetry
CONSTRAINT MCConnected
CHECK_DEADLOCK FALSE
