\* The contract of sqlite3_finalize.
SPECIFICATION Spec
CONSTANTS
    Messages = {m1}
    MaxRows = 1
    MaxLives = 1
INVARIANTS
    NeverUsedAfterFinalize
CHECK_DEADLOCK FALSE
