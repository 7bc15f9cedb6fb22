\* Three requests, one of them undecodable, two deliveries of any of them, a key of the
\* pipeline and a channel of one.
SPECIFICATION FairSpec
CONSTANTS
    r1 = r1
    r2 = r2
    r3 = r3
    z1 = z1
    Thread = {"pipeline", "ragequit"}
    Request = {r1, r2, r3}
    Decodable = {r1, r2}
    PipelineKey <- ZionKeys
    ChannelSize = 1
    BroadcastMayFail = TRUE
    MaxDeliveries = 2
    MaxRestarts = 1
CHECK_DEADLOCK FALSE
INVARIANTS
    TypeOK
    RepeatsAreExplained
    NoSilentDrop
    FileIsCurrent
PROPERTIES
    RequestSettles
