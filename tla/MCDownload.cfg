\* Half seconds, up to three seconds in chunks of two: the last one may be
\* shorter.  One download, then the system stops.
SPECIFICATION FairSpec
CONSTANTS
    Res = 2
    Chunk = 2
    Horizon = 3
    Limits = {0, 1}
INVARIANTS DeliveredInOrder CompleteUpToWindow
PROPERTY EveryDownloadEnds
CHECK_DEADLOCK FALSE
