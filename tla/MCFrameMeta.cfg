SPECIFICATION Spec
CONSTANTS
    app = app
    app2 = app2
    Pushers = {app, app2}
    Setters = {s1, s2}
    SenderMetaCap = 2
    ReceiverMetaCap = 2
    SeenCap = 2
    MaxTime = 4
    NoMeta = NoMeta
    NoBox = NoBox
    Modes <- AllModes
INVARIANTS TypeOK OwnMetadata Embedded MetadataArrives SinkInPlace
CHECK_DEADLOCK FALSE
