\* The images have any size; one user is written about, in three lines; the user writes the
\* login.
SPECIFICATION ClientSpec
CONSTANTS
    ann = ann
    red = red
    MaxCalls = 1
    MaxWrites = 1
    MaxLines = 3
    Images = 3
    Chunk = 2
    MaxSize = 9
    Names <- MCNames
    Colors <- MCColors
    Grey = Grey
INVARIANTS
    UiTypeOK
    NeverThrown
    ShownInOrder
    ColorsAreTold
    NoTextLost
PROPERTIES
    EventuallyShown
    LoadingEnds
CHECK_DEADLOCK FALSE
