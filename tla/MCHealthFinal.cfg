CONSTANTS
    m1 = m1
    c1 = c1
    c2 = c2
    x = x
    y = y
    z = z
    w1 = w1
    server = server
    Server = server
    Boot = {m1}
    BootName <- OneName
    Calls = {c1}
    Names = {x, y}
    MaxModels = 2
    Watches = {w1}
    Services = {server}
    Room = 1
    Unloads = 0
SPECIFICATION Spec
CHECK_DEADLOCK FALSE
INVARIANTS
    FinalFrameIsNotServing
