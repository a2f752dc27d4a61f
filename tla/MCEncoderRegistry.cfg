\* One track with its own encoder and one without, two application threads, and
\* one encoder more than there are streams.
SPECIFICATION Spec
CONSTANTS
    a = a
    b = b
    app1 = app1
    app2 = app2
    Tracks <- TwoTracks
    Custom <- OneTrack
    NoTrack = NoTrack
    AppThreads <- Apps
    Signaling = Signaling
    NoThread = NoThread
    MaxEncoders = 3
    Listings = 1
SYMMETRY Symmetry
INVARIANTS
    TypeOK
    DeadNeverRoutes
    NoCustomMissed
    NoLockCycle
    OwnSlot
