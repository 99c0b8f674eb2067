CONSTANTS
    s1 = s1
    s2 = s2
    s3 = s3
    Streams = {s1, s2, s3}
    ServerItems = 3
    ServerBytes = 3
    StreamItems = 2
    StreamBytes = 2
    DocSizes = {0, 2, 3}
    IdSizes = {1, 3}
SPECIFICATION RoomsFairSpec
CHECK_DEADLOCK FALSE
INVARIANTS
    PermitsConserved
PROPERTIES
    EveryAdmissionEnds
