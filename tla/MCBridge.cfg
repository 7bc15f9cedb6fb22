\* One life cycle of one worker over two days, with one drop, one rotation, one retry.
SPECIFICATION Spec
CONSTANTS
    BASIS_POINTS = 100
    BASE_DECAY_BP = 20
    DECAY_GROWTH_NUM = 3
    DECAY_GROWTH_DEN = 2
    VOLUNTEER_BONUS_NUM = 11
    VOLUNTEER_BONUS_DEN = 10
    VOLUNTEER_CAPITAL_MIN = 2
    VOLUNTEER_CAPITAL_PCT = 10
    MAX_DECAY_DAYS_PER_CALL = 4
    DEFAULT_SABBATH_OFFSET = 1
    INITIAL_CAPITAL_HONOR = 1
    LABOR_WEIGHT = 5
    VERIFICATION_WEIGHT = 5
    DAYS_PER_WEEK = 2
    MAX_UINT = 1000
    MAX_UINT64 = 500
    w1 = w1
    i1 = i1
    i2 = i2
    n1 = n1
    ZeroAddress = ZeroAddress
    Contract = Contract
    Nobody = Nobody
    Worker = {w1}
    Badge = {}
    Key = {k1, k2}
    Governance = Governance
    Id = {i1, i2, n1}
    FirstAttester = k1
    GenesisDay = 0
    MaxDay = 1
    ZionEvent <- BridgeEvents
    FreshNonce = {n1}
    SignatureTTL = 0
    MaxFailures = 1
    Amounts = {2, 3, 5}
    MaxEvents = 3
    MaxQueued = 1
    MaxRequests = 1
    MaxPending = 2
    MaxDrops = 1
CHECK_DEADLOCK FALSE
INVARIANTS
    EscrowExplained
    SignedAsVerified
    MarkedIsAccounted
PROPERTIES
    CustodySpec
