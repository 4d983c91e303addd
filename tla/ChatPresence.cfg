\* Two users that come, go and come back, and say nothing.
SPECIFICATION ChatSpec
CONSTANTS
    ann = ann
    bob = bob
    red = red
    blue = blue
    MaxConns = 2
    MaxLines = 2
    MaxStarts = 1
    Msgs <- MCMsgs
    Posts <- MCPosts
    UserOrder <- MCUserOrder
    NoName = NoName
    Colors <- MCColors
    NoColor = NoColor
    MaxOld = 0
INVARIANTS
    ChatTypeOK
    StatusConverges
    PresenceOfUser
    OfflineHasReason
SYMMETRY MCSymmetry
CONSTRAINT MCSilent
CHECK_DEADLOCK FALSE
