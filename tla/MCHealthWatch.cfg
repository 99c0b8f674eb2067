CONSTANTS
    m1 = m1
    c1 = c1
    c2 = c2
    x = x
    y = y
    z = z
    w1 = w1
    server = server
    Server = server
    Boot = {}
    BootName <- NoNames
    Calls = {c1}
    Names = {y}
    MaxModels = 2
    Watches = {w1}
    Services = {server, y}
    Room = 1
    Unloads = 1
SPECIFICATION FairSpec
CHECK_DEADLOCK FALSE
PROPERTIES
    WatchConverges
    StopClosesWatches
