CONSTANTS
    v1 = v1
    v2 = v2
    live = live
    d1 = d1
    d2 = d2
    r1 = r1
    b1 = b1
    Names = {v1, v2}
    Aliases = {live, v2}
    Writes = {d1}
    Reindexes = {r1}
    Binds = {b1}
    Creations = 2
    Deletions = 0
SPECIFICATION Spec
CHECK_DEADLOCK FALSE
INVARIANTS
    ReindexFillsItsTarget
