\* Rows of plain queries of any kind up to three; grouped ones of five units;
\* tables of three series of up to three rows in every order.
SPECIFICATION ResponseSpec
CONSTANTS
    MaxRows = 3
    Time = {1, 2}
    LastHalf = 10
    Limits <- MCLimits
    Element <- MCElement
    TableContents <- MCTableContents
    NumSeries = 3
    MaxTime = 3
    NullPoint <- MCNullPoint
INVARIANTS NoValueLost ValuesInOrder AskedBucketsAreAnswered NoPartialPredecessor EveryPointOnce AlignedSeriesMerge
CHECK_DEADLOCK FALSE
