SPECIFICATION FairSpec
CONSTANTS
    a1 = a1
    a2 = a2
    b1 = b1
    raceA = raceA
    raceB = raceB
    Runners = {a1}
    RaceOf <- OneDayRaceOf
    RaceDay <- OneRunnerRaces
    TicketDays = {1, 2}
    BetCap = 3
    RaceCap = 4
    DayCap = 6
    MinStake = 2
    Inputs = {in1}
    MaxDay = 2
    Kellys = {2}
    SeedingMayFail = TRUE
    MaxCrashes = 1
    PollDays = {}
    StartDays = {}
    Reported = {a1}
    Provenance = {TRUE}
    PassPrices = {TRUE}
INVARIANTS
    SettledOnEvidence
PROPERTIES
    TicketsAppendOnly
    SettledEventually
