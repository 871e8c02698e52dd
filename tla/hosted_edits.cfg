SPECIFICATION Spec
CONSTANTS
    MaxHead = 3
    MaxMoves = 6
    Displaces = TRUE
    Lands = FALSE
CHECK_DEADLOCK FALSE
INVARIANTS
    GreenIsTrue
