\* All kinds of messages, three on a connection, either way.
SPECIFICATION Spec
CONSTANTS
    Said <- MCSaid
    MaxSaid = 3
INVARIANTS
    Faithful
PROPERTIES
    AllHandedOver
CHECK_DEADLOCK FALSE
