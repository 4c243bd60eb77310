SPECIFICATION PaperSpec
CONSTANTS
    t1 = t1
    t2 = t2
    k1 = k1
    Threads = {t1}
    Trackers = {k1}
    TrackerOf <- SharedTracker
    Callers = {"place_paper_bet"}
    Runners = {r1}
    FreeForm = FreeForm
    BetTypes = {"win", "each_way", "lay"}
    Odds = {3}
    Stakes = {10}
    Bankrolls = {0, 60}
    InitialBankroll = 100
    StopLossPct = 15
    EwNum = 1
    EwDen = 5
    NoThread = NoThread
    MaxLog = 5
    h1 = h1
    h2 = h2
    ra = ra
    rb = rb
    m1 = m1
    m2 = m2
    Races = {ra, rb}
    MeetingOf <- OneRaceMeetings
    Runs <- TwoStarts
    Bets <- MixedBets
    EwPlaces = 3
    Passes = {p1, p2}
    MaxFetches = 2
INVARIANTS
    TypeOK
    LedgerContinuity
    NoDoubleBet
    SettledAsRan
PROPERTIES
    StopLossHonoured
    ImplementsAccount
    SettledForGood
    ResultSettlesBet
