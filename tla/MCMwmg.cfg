SPECIFICATION Spec
CONSTANTS
    DEFTLEN = 2
    nsys = 2
    interval = 1
    Tags <- MCTags
    NSections = 1
    Skew = 1
    MaxNow = 3
    MaxLines = 2
INVARIANTS BucketsTrue InOrder NeverAhead
CHECK_DEADLOCK FALSE
