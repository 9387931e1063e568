\* Two series of different times.
SPECIFICATION Spec
CONSTANTS
    NumSeries = 2
    MaxTime = 3
    NullPoint <- MCNullPoint
INVARIANT RowsShareTime
CHECK_DEADLOCK FALSE
