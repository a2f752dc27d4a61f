SPECIFICATION FairSpec
CONSTANTS
    cb_thread = cb_thread
    app = app
    Callback = cb_thread
    Setters = {app}
    NoThread = none
    Sizes = {1,2,3}
    Messages = 3
    ChunkSize = 2
    MaxMessageSize = 2
    PendingLimit = 2
    Calls = 2
    Modes <- AllModes
INVARIANTS
    TypeOK
    EveryMessageAccounted
    OrderKept
    NothingLeftHeld
    NoticesInTurn
PROPERTIES
    EventsHandled
CHECK_DEADLOCK FALSE
