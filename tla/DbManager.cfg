\* Two messages, three rows, two lives of the process.
SPECIFICATION Spec
CONSTANTS
    Messages = {m1, m2}
    MaxRows = 3
    MaxLives = 2
INVARIANTS
    AllFinalized
    ReadsPrefix
    StoredOrLogged
PROPERTIES
    TableOnlyGrows
CHECK_DEADLOCK FALSE
