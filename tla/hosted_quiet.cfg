SPECIFICATION Spec
CONSTANTS
    MaxHead = 3
    MaxMoves = 6
    Displaces = FALSE
    Lands = TRUE
CHECK_DEADLOCK FALSE
INVARIANTS
    TypeOK
    GreenIsTrue
