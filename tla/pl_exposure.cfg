SPECIFICATION Spec
CONSTANTS
    a1 = a1
    a2 = a2
    b1 = b1
    raceA = raceA
    raceB = raceB
    Runners = {a1, a2, b1}
    RaceOf <- OneDayRaceOf
    RaceDay <- OneDayRaces
    TicketDays = {1}
    BetCap = 3
    RaceCap = 4
    DayCap = 6
    MinStake = 2
    Inputs = {in1}
    MaxDay = 1
    Kellys = {2, 3}
    SeedingMayFail = FALSE
    MaxCrashes = 1
    PollDays = {}
    StartDays = {}
    Reported = {}
    Provenance = {TRUE}
    PassPrices = {FALSE}
INVARIANTS
    CeilingsHold
