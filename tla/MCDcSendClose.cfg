SPECIFICATION UnhurriedSpec
CONSTANTS
    Senders = {s1}
    Callback = cb
    Closers = {closer}
    NoThread = none
    Sizes = {2}
    Calls = 1
    ChunkSize = 2
    LowWater = 1
    HighWater = 2
    MaxMessageSize = 2
    QueueLimit = 3
    NativeLimit = 4
    UserLow = 0
INVARIANTS
    DrainedUpToHand
PROPERTIES
    DrainEnds
