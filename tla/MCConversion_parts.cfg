SPECIFICATION Spec
CONSTANTS
    Width = 7
    Values = {0, 1, 2, 9, 10, 11, 99, 127}
    Parts = {1, 7, 50, 100, 128}
    MaxDecimals = 7
    MaxReturns = 4
INVARIANT
    PartsNeverGrow
PROPERTY
    LeavesWhole
CHECK_DEADLOCK FALSE
