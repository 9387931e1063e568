\* Two requests of any kind, while the service changes twice.
SPECIFICATION FairSpec
CONSTANTS
    m1 = m1
    m2 = m2
    Caller = {m1, m2}
    MaxVersion = 3
    TTL = 1
    Service <- MCService
    Message <- MCMessage
    Column <- MCColumn
INVARIANTS AnswersHaveTheMessage MemcachedIsOptional
PROPERTY MetadataSettles
CHECK_DEADLOCK FALSE
