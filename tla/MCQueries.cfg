\* Requests of up to three elements, duplicates included.
SPECIFICATION FairSpec
CONSTANTS
    u1 = u1
    u2 = u2
    export1 = export1
    export2 = export2
    device1 = device1
    location1 = location1
    NoUser = NoUser
    User = {u1, u2}
    Source = {export1, export2, device1, location1}
    Export = {export1, export2}
    Location = {location1}
    OwnerOf <- MCOwnerOf
    Cachable = {device1}
    MaxElements = 3
INVARIANTS OnlyOwnTables EachElementOnce
PROPERTIES ImplementsService AnsweredOrCrashed
