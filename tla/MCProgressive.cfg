CONSTANTS
    d1 = d1
    d2 = d2
    Docs = {d1, d2}
    Room = 1
    Jobs <- MCJobs
SPECIFICATION FairSpec
CHECK_DEADLOCK FALSE
INVARIANTS
    MatchesRun
    SnapshotsAreClosed
    ReplyIsWhole
PROPERTIES
    TaskEnds
