SPECIFICATION Spec
CONSTANTS
    MaxFileSize = 4
    MaxBufferSize = 7
    FullAction = "drop"
    CursorUpdateCount = 1
    Restarting = FALSE
    Ticker = FALSE
    DiskErrors = FALSE
    TornWrites = FALSE
    MaxRecs = 4
    MaxFileId = 9
    MaxStops = 1
INVARIANTS
    NothingSkipped
CHECK_DEADLOCK FALSE
