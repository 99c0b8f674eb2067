CONSTANTS
    t1 = t1
    t2 = t2
    t3 = t3
    Threads = {t1, t2, t3}
    MaxItems = 2
    MaxBytes = 4
    Word = 8
    Sizes = {1, 3}
    MaxOffers = 4
SPECIFICATION FairSpec
CHECK_DEADLOCK FALSE
INVARIANTS
    CountsAddUp
    NoOfferTurnedAway
    ClosedIsEmpty
PROPERTIES
    CloseReturns
