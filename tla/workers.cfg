SPECIFICATION Spec
CONSTANTS
    ta = ta
    tb = tb
    w1 = w1
    w2 = w2
    w3 = w3
    da = da
    Comments = {1, 2, 3}
    TextOf <- TwoAlike
    ma = ma
    mb = mb
    Models = {ma, mb}
    Model = ma
    WorstCost = 1
    MaxRetries = 1
    Bills = {1, 3}
    CostCaps = {5, 6}
    RequestCap = 3
    BatchSize = 2
    MaxKills = 1
    MaxUnseen = 3
    Workers = {w1, w2, w3}
    DomainOf <- OneDomain
    Rate <- OnePerDomain
    Slots <- OnePerDomain
    GlobalSlots = 2
    Proxies = {0}
    Rotating = FALSE
    Attempts = 2
    MaxFailures = 2
    Cooldown = 1
    Span = 1
    Pools = {qa, qb}
    Script <- ThreeKinds
    MaxPoolKills = 2
INVARIANTS
    BudgetHeld
    PaidForOnce
    RateHeld
    VersionIsEarned
PROPERTIES
    
    FetchEnds
    UpgradeCompletes
CHECK_DEADLOCK FALSE
