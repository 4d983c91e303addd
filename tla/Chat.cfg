\* Two clients, of one user or of two, up to two texts, and a server that is killed once.
SPECIFICATION Spec
CONSTANTS
    c1 = c1
    c2 = c2
    ann = ann
    bob = bob
    red = red
    Clients <- MCClients
    MaxTexts = 2
    MaxKills = 1
    UserOrder <- MCUserOrder
    NoName = NoName
    Colors <- MCColors
    NoColor = NoColor
INVARIANTS
    Agreement
    NamedByAuthor
    SeenIsShown
PROPERTIES
    EchoComes
    ImplementsRoom
CONSTRAINT MCFocus
CHECK_DEADLOCK FALSE
