SPECIFICATION FairSpec
CONSTANTS
    a = a
    b = b
    app = app
    app2 = app2
    sig = sig
    Peers = {a, b}
    AppThreads = {app, app2}
    Signaling = sig
    NoThread = none
    Channels = {c}
    Modes <- AllModes
    Refusals = 1
INVARIANTS
    TypeOK
    RefusedLeavesNoTrace
    RecordedBeforeFlowing
    TwinsAgreeUnlessMisled
PROPERTIES
    FixedOnceDecided
    EveryApplyReturns
