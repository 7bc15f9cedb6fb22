\* One citizen over three short weeks: decay, exemptions, volunteer weeks, rejoining.
SPECIFICATION Spec
CONSTANTS
    BASIS_POINTS = 100
    BASE_DECAY_BP = 20
    DECAY_GROWTH_NUM = 3
    DECAY_GROWTH_DEN = 2
    VOLUNTEER_BONUS_NUM = 11
    VOLUNTEER_BONUS_DEN = 10
    VOLUNTEER_CAPITAL_MIN = 2
    VOLUNTEER_CAPITAL_PCT = 10
    MAX_DECAY_DAYS_PER_CALL = 4
    DEFAULT_SABBATH_OFFSET = 2
    INITIAL_CAPITAL_HONOR = 1
    LABOR_WEIGHT = 5
    VERIFICATION_WEIGHT = 5
    DAYS_PER_WEEK = 3
    MAX_UINT = 100000
    w1 = w1
    w2 = w2
    k1 = k1
    k2 = k2
    i1 = i1
    i2 = i2
    i3 = i3
    i4 = i4
    i5 = i5
    i6 = i6
    Worker = {w1}
    Badge = {}
    Key = {k1}
    Governance = Governance
    Id = {i1, i2, i3, i5, i6}
    FirstAttester = k1
    GenesisDay = 0
    MaxDay = 8
    PoPAttestations <- TimePoP
    MintAttestations <- TimeMints
    HonorAttestations <- TimeHonors
    DayAttestations <- TimeDays
INVARIANTS
    RateFollowsTenure
    WeeksFollowClocks
    WeeksCountedOnce
    LivesAreSeparate
    RewardsOfThisLife
    SettleMatchesView
    MultiplierAnticipates
    SettlementSplits
    PowerSurvivesSettlement
PROPERTIES
    ClocksNeverRewind
    HonorIsEarned
