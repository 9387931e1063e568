\* One request at a time of one user, with exports and locations.
SPECIFICATION Spec
CONSTANTS
    c1 = c1
    u1 = u1
    u2 = u2
    export1 = export1
    location1 = location1
    NoUser = NoUser
    User = {u1}
    Id = {export1, location1}
    KindOf <- MCMixedKinds
    OwnerOf <- MCMixedOwner
    Element <- MCMixedElement
    Call = {c1}
    MaxElements = 2
    TTL = 1
INVARIANTS DenialIsBacked OwnersAligned
PROPERTY ImplementsContract
