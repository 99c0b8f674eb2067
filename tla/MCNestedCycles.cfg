CONSTANTS
    d1 = d1
    d2 = d2
    Docs = {d1}
    Room = 1
    Jobs <- MCNested
SPECIFICATION Spec
CHECK_DEADLOCK FALSE
INVARIANTS
    MatchesRun
