\* "Call connect() again if desired."
SPECIFICATION Spec
CONSTANTS
    MaxCalls = 2
    MaxWrites = 0
    MaxLines = 0
PROPERTIES
    ConnectAgain
CHECK_DEADLOCK FALSE
