CONSTANTS
    m1 = m1
    c1 = c1
    c2 = c2
    x = x
    y = y
    z = z
    w1 = w1
    server = server
    Server = server
    Boot = {m1}
    BootName <- OneName
    Calls = {c1, c2}
    Names = {x, y, z}
    MaxModels = 2
    Watches = {}
    Services = {server}
    Room = 1
    Unloads = 1
SPECIFICATION FairSpec
CHECK_DEADLOCK FALSE
INVARIANTS
    LoadedOnce
    UnloadedIsExpected
PROPERTIES
    OnlyItsOwnRollback
    CallsSettle
