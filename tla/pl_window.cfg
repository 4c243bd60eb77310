SPECIFICATION Spec
CONSTANTS
    a1 = a1
    a2 = a2
    b1 = b1
    raceA = raceA
    raceB = raceB
    Runners = {a1}
    RaceOf <- OneDayRaceOf
    RaceDay <- SecondDayRaces
    TicketDays = {1, 2, 3}
    BetCap = 3
    RaceCap = 4
    DayCap = 6
    MinStake = 2
    Inputs = {in1, in2}
    MaxDay = 3
    Kellys = {}
    SeedingMayFail = FALSE
    MaxCrashes = 1
    PollDays = {2}
    StartDays = {1}
    Reported = {}
    Provenance = {TRUE}
    PassPrices = {FALSE}
INVARIANTS
    WeeksAreEvidence
    NoSilentGap
