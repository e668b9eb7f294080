CONSTANTS
    NWINS = 5
    INTBITS = 4
    WinSpecs <- MCWinSpecs
    Touched <- MCTouched
    Moved <- MCMoved
    Carried <- MCCarried
    Places = {0, 2}
    Sizes = {3, 4}
    Frame = 1
    QLEN = 3
    MaxSessions = 2
SPECIFICATION Spec
INVARIANTS ButtonsTrue Drawable Reopened ColoursTrue
CHECK_DEADLOCK FALSE
