\* A second encoder of a dropped track, while another track waits for its first.
SPECIFICATION Spec
CONSTANTS
    a = a
    b = b
    app1 = app1
    app2 = app2
    Tracks <- TwoTracks
    Custom <- TwoTracks
    NoTrack = NoTrack
    AppThreads <- Apps
    Signaling = Signaling
    NoThread = NoThread
    MaxEncoders = 3
    Listings = 1
INVARIANT NeverAnothersSlot
