\* Two transactions of several events, two deliveries, a retry and a restart.
SPECIFICATION FairSpec
CONSTANTS
    t1 = t1
    t2 = t2
    i1 = i1
    i2 = i2
    i3 = i3
    Type = {"pop", "lock", "day", "other"}
    Registered = {"pop", "lock", "day"}
    PoPType = "pop"
    Id = {i1, i2, i3}
    MaxRetries = 1
    ZionTx = {t1, t2}
    Log <- Mixed
    ChannelSize = 1
    MaxRestarts = 1
    MaxDeliveries = 2
CHECK_DEADLOCK FALSE
INVARIANTS
    TypeOK
    CreditedOnce
    SentOncePerFailure
    MarkedMeansHandled
PROPERTIES
    QueueMoves
    ShutdownCompletes
