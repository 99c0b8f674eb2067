CONSTANTS
    a = a
    b = b
    big = big
    s1 = s1
    Streams = {s1}
    Keys <- MCKeys
    Loads = {big}
    LoadOf <- MCLoadOf
    Sessions <- MCOneSession
    BatchLimit = 2
    Window = 2
    StreamRooms = 2
    ServerRooms = 2
    Orders <- MCAllInput
    Kinds <- MCFailing
    MaxDocs <- MCTwo
    Deadlines = {s1}
    Cancelling = {}
    Breaking = {}
SPECIFICATION Spec
CHECK_DEADLOCK FALSE
INVARIANTS
    DeadlineIsReported
