SPECIFICATION FairSpec
CONSTANTS
    Senders = {s1, s2}
    Callback = cb
    Closers = {}
    NoThread = none
    Sizes = {0, 2}
    Calls = 1
    ChunkSize = 2
    LowWater = 1
    HighWater = 2
    MaxMessageSize = 2
    QueueLimit = 3
    NativeLimit = 4
    UserLow = 0
INVARIANTS
    TypeOK
    NeverOverfills
    WireInOrder
    NoStrandedQueue
    BytesAccounted
PROPERTIES
    StreamSpec
    EveryMessageLeaves
