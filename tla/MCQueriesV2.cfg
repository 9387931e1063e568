\* Two elements of an export, services of two devices and a group of these,
\* with one or two columns.
SPECIFICATION Spec
CONSTANTS
    u1 = u1
    u2 = u2
    export1 = export1
    export2 = export2
    device1 = device1
    device2 = device2
    service1 = service1
    service2 = service2
    service3 = service3
    group1 = group1
    c1 = c1
    c2 = c2
    NoUser = NoUser
    User = {u1, u2}
    Column = {c1, c2}
    ColumnLists <- MCColumnLists
    Location = {}
    MaxElements = 2
    Source = {export1, service1, service2, service3}
    Export = {export1}
    Cachable = {service1}
    Group = {group1}
    OwnerOf <- MCOwnerOf
    DeviceOf <- MCDeviceOf
    GroupDevices <- MCDevices
    Selectables <- MCSelectables
INVARIANTS PlainElementsComplete OwnersCoverMatches NoForeignSeries
