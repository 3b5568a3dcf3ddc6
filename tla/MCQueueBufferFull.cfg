SPECIFICATION Spec
CONSTANTS
    MaxFileSize = 4
    MaxBufferSize = 5
    FullAction = "block"
    CursorUpdateCount = 1
    Restarting = TRUE
    Ticker = TRUE
    DiskErrors = TRUE
    TornWrites = TRUE
    MaxRecs = 4
    MaxFileId = 3
    MaxStops = 2
INVARIANTS
    QueueSizeExact
    BoundedDisk
CHECK_DEADLOCK FALSE
