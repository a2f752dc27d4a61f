SPECIFICATION Spec
CONSTANTS
    cb_thread = cb_thread
    app = app
    Callback = cb_thread
    Setters = {app}
    NoThread = none
    Sizes = {1}
    Messages = 3
    ChunkSize = 2
    MaxMessageSize = 2
    PendingLimit = 2
    Calls = 1
    Modes <- ReplacingMode
INVARIANT OrderHolds
CHECK_DEADLOCK FALSE
