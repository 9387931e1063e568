\* Requests of up to three columns of two exports and a device.
SPECIFICATION Spec
CONSTANTS
    u1 = u1
    u2 = u2
    export1 = export1
    export2 = export2
    device1 = device1
    raw1 = raw1
    math1 = math1
    NoUser = NoUser
    User = {u1, u2}
    Source = {export1, export2, device1}
    Export = {export1, export2}
    Location = {}
    OwnerOf <- MCOwnerOf
    Cachable = {device1}
    Column = {raw1, math1}
    MathColumn = {math1}
    MaxElements = 3
INVARIANT ValuesInPlace
