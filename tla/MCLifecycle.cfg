\* A client's call, a batch or data availability of two goroutines, competes
\* with a download of two chunks for one connection, and the process stops.
SPECIFICATION FairSpec
CONSTANTS
    b1 = b1
    b2 = b2
    b3 = b3
    a1 = a1
    s1 = s1
    e1 = e1
    closedPool = closedPool
    d1 = d1
    Batch = {b1, b2, b3}
    Availability = {a1}
    Single = {s1}
    MaxQueries = 2
    MaxConnections = 1
    Failure = {e1}
    Closed = closedPool
    Outcome = {"all"}
    Download = {d1}
    ChunkCall <- MCChunkCall
    MaxRequests = 1
INVARIANTS ConnectionsAccounted NoErrorMeansResults AnsweredBeforeExit DownloadsAreWhole
PROPERTIES EveryCallReturns SignalStops
CHECK_DEADLOCK FALSE
