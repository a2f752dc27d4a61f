SPECIFICATION Spec
CONSTANTS
    a = a
    b = b
    app = app
    app2 = app2
    sig = sig
    Peers = {a, b}
    AppThreads = {app, app2}
    Signaling = sig
    NoThread = none
    Channels = {c}
    Modes <- RetryModes
    Refusals = 1
INVARIANT TwinsAgree
