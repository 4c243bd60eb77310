SPECIFICATION Spec
CONSTANTS
    a1 = a1
    a2 = a2
    b1 = b1
    raceA = raceA
    raceB = raceB
    Runners = {a1}
    RaceOf <- OneDayRaceOf
    RaceDay <- OneRunnerRaces
    TicketDays = {1, 2}
    BetCap = 3
    RaceCap = 4
    DayCap = 6
    MinStake = 2
    Inputs = {in1, in2}
    MaxDay = 2
    Kellys = {2}
    SeedingMayFail = FALSE
    MaxCrashes = 0
    PollDays = {}
    StartDays = {1}
    Reported = {a1}
    Provenance = {TRUE}
    PassPrices = {FALSE}
INVARIANTS
    EvidenceUnderOneInput
