SPECIFICATION Spec
CONSTANTS
    DEFTLEN = 10
    TSINTER = 3
    nsys = 1
    Intervals = {1, 2}
    gauge = FALSE
    NWINS = 6
    BAR = 1
    cwidth = 1
    cheight = 2
    BASES = 2
    Height = 16
    UNIT = 64
    Rounded <- MCRounded
    Extras = {5, 11}
    Amounts = {1, 10}
    Windows <- MCWindows
    Filled = {0, 1}
    MaxSamples = 3
INVARIANTS BarsFit HistoryShowsAll ColumnsTrue LabelsNear
CHECK_DEADLOCK FALSE
