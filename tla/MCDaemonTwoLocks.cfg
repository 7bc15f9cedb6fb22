\* The documented dedup by nonce against two locks in one Zion transaction.
SPECIFICATION FairSpec
CONSTANTS
    t1 = t1
    t2 = t2
    i1 = i1
    i2 = i2
    i3 = i3
    Type = {"pop", "lock", "day", "other"}
    Registered = {"pop", "lock", "day"}
    PoPType = "pop"
    Id = {i1, i2, i3}
    MaxRetries = 1
    ZionTx = {t1}
    Log <- TwoLocks
    ChannelSize = 2
    MaxRestarts = 0
    MaxDeliveries = 1
CHECK_DEADLOCK FALSE
INVARIANT
    SkippedWasHandled
