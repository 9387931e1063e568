\* Two downloads compete for the secrets of two prepared queries.
SPECIFICATION FairSpec
CONSTANTS
    q1 = q1
    q2 = q2
    s1 = s1
    s2 = s2
    p1 = p1
    d1 = d1
    d2 = d2
    NoQuery = NoQuery
    NoSecret = NoSecret
    Query = {q1, q2}
    Secret = {s1, s2}
    Prepare = {p1}
    Download = {d1, d2}
    TTL = 2
INVARIANTS AtMostOnce ServedWasGranted
PROPERTIES ImplementsOneTimeSecret UnclaimedQueriesLapse EveryDownloadAnswered
