\* Requests of two users for a location, up to twice in one request: what their
\* goroutines leave in the cache, and when it goes.
SPECIFICATION FairSpec
CONSTANTS
    c1 = c1
    u1 = u1
    u2 = u2
    export1 = export1
    location1 = location1
    NoUser = NoUser
    User = {u1, u2}
    Id = {location1}
    KindOf <- MCOneLocation
    OwnerOf <- MCUnowned
    Element <- MCLocation
    Call = {c1}
    MaxElements = 2
    TTL = 2
INVARIANT GrantIsBacked
PROPERTY RevocationTakesEffect
