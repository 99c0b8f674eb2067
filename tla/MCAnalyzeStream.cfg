CONSTANTS
    a = a
    b = b
    big = big
    s1 = s1
    Streams = {s1}
    Keys <- MCKeys
    Loads = {big}
    LoadOf <- MCLoadOf
    Sessions <- MCOneSession
    BatchLimit = 2
    Window = 2
    StreamRooms = 3
    ServerRooms = 3
    Orders <- MCEither
    Kinds <- MCKinds
    MaxDocs <- MCFour
    Deadlines = {}
    Cancelling = {}
    Breaking = {s1}
SPECIFICATION Spec
CHECK_DEADLOCK FALSE
INVARIANTS
    EachDocumentKept
    WindowNeverWedges
PROPERTIES
    ImplementsService
