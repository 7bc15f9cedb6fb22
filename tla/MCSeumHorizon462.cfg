\* The documented day of the full decay rate, under the source's constants.
SPECIFICATION Spec
CONSTANTS
    BASIS_POINTS = 10000
    BASE_DECAY_BP = 100
    DECAY_GROWTH_NUM = 101
    DECAY_GROWTH_DEN = 100
    VOLUNTEER_BONUS_NUM = 101342
    VOLUNTEER_BONUS_DEN = 100000
    VOLUNTEER_CAPITAL_MIN = 100
    VOLUNTEER_CAPITAL_PCT = 100
    MAX_DECAY_DAYS_PER_CALL = 90
    DEFAULT_SABBATH_OFFSET = 6
    INITIAL_CAPITAL_HONOR = 1
    LABOR_WEIGHT = 5
    VERIFICATION_WEIGHT = 5
    DAYS_PER_WEEK = 7
    MAX_UINT <- Largest
    Deposit = 200000
    Gaps = {20, 65, 130}
    Horizon = 600
    ActiveDays <- DayPatterns
    RootStep = 40
CHECK_DEADLOCK FALSE
INVARIANTS
    FullRateByDay462
