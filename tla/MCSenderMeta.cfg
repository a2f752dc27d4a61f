SPECIFICATION Spec
CONSTANTS
    app = app
    app2 = app2
    Threads = {app, app2}
    Transceivers = {tc1, tc2}
    Tracks = {cam, off}
    OffTracks = {off}
    PreEncoded = {}
    Nothing = nothing
    Enabled = TRUE
    Modes <- AllModes
INVARIANTS
    TypeOK
    RunsItsSlot
    AttachedOnce
    CallbackRuns
    Wired
    SourceCurrent
