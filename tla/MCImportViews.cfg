\* Two requests at two replicas for two tables; one crash.  Two connections,
\* which is what Migrate needs.  In the end nothing is left to do.
SPECIFICATION FairSpec
CONSTANTS
    t1 = t1
    t2 = t2
    s1 = s1
    s2 = s2
    q1 = q1
    q2 = q2
    r1 = r1
    r2 = r2
    Table = {t1, t2}
    Station = {s1, s2}
    Distance <- MCDistance
    Request = {q1, q2}
    Replica = {r1, r2}
    Home <- MCHome
    Asked <- MCAsked
    MaxConnections = 2
    MaxCrashes = 1
INVARIANTS OneJobPerTable FilterIsNearest
PROPERTIES LiveJobsStay EveryReplicaServes
CHECK_DEADLOCK FALSE
