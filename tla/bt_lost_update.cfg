SPECIFICATION Spec
CONSTANTS
    t1 = t1
    t2 = t2
    k1 = k1
    Threads = {t1, t2}
    Trackers = {k1}
    TrackerOf <- SharedTracker
    Callers = {"place_paper_bet"}
    Runners = {r1}
    FreeForm = FreeForm
    BetTypes = {"win"}
    Odds = {3}
    Stakes = {10}
    Bankrolls = {}
    InitialBankroll = 100
    StopLossPct = 15
    EwNum = 1
    EwDen = 5
    NoThread = NoThread
    MaxLog = 4
INVARIANTS
    LedgerContinuity
