CONSTANTS
    PORTMOD = 4
    MGENMOD = 8
    INTBITS = 2
    MAXFLOWS = 4
    CfgLines <- MCLines
    Reports <- MCReports
SPECIFICATION FlowSpec
INVARIANTS
    FlowTypeOK
    ClassifiedUpToInt
    PrimaryOnce
