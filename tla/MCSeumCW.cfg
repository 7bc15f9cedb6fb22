\* Two workers with real coins; honor at the overflow boundary.
SPECIFICATION Spec
CONSTANTS
    BASIS_POINTS = 100
    BASE_DECAY_BP = 20
    DECAY_GROWTH_NUM = 3
    DECAY_GROWTH_DEN = 2
    VOLUNTEER_BONUS_NUM = 11
    VOLUNTEER_BONUS_DEN = 10
    VOLUNTEER_CAPITAL_MIN = 2
    VOLUNTEER_CAPITAL_PCT = 10
    MAX_DECAY_DAYS_PER_CALL = 4
    DEFAULT_SABBATH_OFFSET = 1
    INITIAL_CAPITAL_HONOR = 1
    LABOR_WEIGHT = 5
    VERIFICATION_WEIGHT = 5
    DAYS_PER_WEEK = 2
    MAX_UINT = 10000
    w1 = w1
    w2 = w2
    k1 = k1
    k2 = k2
    i1 = i1
    i2 = i2
    kwr = kwr
    dust = dust
    Worker = {w1, w2}
    Badge = {"NODE"}
    Key = {k1, k2}
    Governance = Governance
    Id = {i1, i2}
    FirstAttester = k1
    GenesisDay = 0
    MaxDay = 3
    MaxContributed = 60
    KWR = kwr
    Denom = {kwr, dust}
    Contributions <- Deposits
    HonorCalls <- Honors
    DayCalls <- Days
    Gifts <- Coins
INVARIANTS
    TypeOK
    LocksAreBacked
    LeavingNeverBlocked
PROPERTIES
    HonorIsEarned
    CivicSpec
