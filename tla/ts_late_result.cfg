SPECIFICATION TicketsSpec
CONSTANTS
    hs1 = hs1
    hs2 = hs2
    hs3 = hs3
    Field = {hs1, hs2, hs3}
    SpPrices = {120, 300}
    Wagers <- AllKinds
    PlacesPaid = {1, 2}
INVARIANTS
    WinnerNotLost
CHECK_DEADLOCK FALSE
