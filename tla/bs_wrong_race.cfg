SPECIFICATION BetsSpec
CONSTANTS
    h1 = h1
    h2 = h2
    ra = ra
    rb = rb
    m1 = m1
    m2 = m2
    Races = {ra, rb}
    MeetingOf <- OneRaceMeetings
    Runs <- TwoStarts
    Bets <- IdBets
    EwPlaces = 3
    Passes = {p1}
    MaxFetches = 2
INVARIANTS
    SettledAsRan
