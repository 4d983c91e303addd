\* Two connections, one line and the lines a disconnect causes, one life of the server.
SPECIFICATION Spec
CONSTANTS
    a = a
    b = b
    MaxConns = 2
    MaxLines = 1
    MaxStarts = 1
    Msgs <- MCMsgs
    Posts <- MCPosts
INVARIANTS
    TypeOK
    WriteChain
    NoStalledOutbox
    ListenAlive
    DisconnectReported
PROPERTIES
    KeepsPromise
CHECK_DEADLOCK FALSE
