SPECIFICATION Spec
CONSTANTS
    x1 = x1
    x2 = x2
    x3 = x3
    Inputs = {in1, in2}
    MaxDay = 4
    MaxRetrains = 4
    ArchiveKeep = 2
    Holders = {x1, x2, x3}
    OwnerOf <- TwoOfOneProcess
    Ttl = 2
    Patience = 2
    hs1 = hs1
    hs2 = hs2
    hs3 = hs3
    Field = {hs1, hs2, hs3}
    SpPrices = {120, 300}
    Wagers <- AllKinds
    PlacesPaid = {1, 2}
    m1 = m1
    m2 = m2
    b1 = b1
    b2 = b2
    p1 = p1
    p2 = p2
    Books = {b1, b2}
    Meets = {m1, m2}
    Horses = {h1}
    Off <- SameMinute
    Prices = {2, 3}
    CardSources <- NoneOrAll
    Procs = {p1, p2}
    MaxTime = 3
    MaxPolls = 2
    MaxPage = 1
    MaxAge = 1
    MaxSourceAge = 0
    Buffer = 1
    Walk <- TwoDays
    Start = 100
    BetPct = 5
    RacePct = 6
    DayPct = 10
    LossPct = 6
    StopPct = 8
    LiabilityCap = 4
    Minimum = 2
    KellyStakes = {0, 3, 9}
    FillOdds = {2, 4}
    Lead = 30
    OffBuffer = 1
    Latency = 1
    SourceAge = 15
    MaxOpen = 25
SYMMETRY Alike
INVARIANTS
    WindowTypeOK
    CapturedIsEvidence
    ModelsSurvive
    LockProtects
    PricedFromTheBoard
    ReplayNeverFlatters
    SourceWasWorking
    PaidByTheRules
    RefundedIfDidNotRun
    LimitsBind
PROPERTIES
    WindowMovesToToday
    CapturedIsSticky
CHECK_DEADLOCK FALSE
