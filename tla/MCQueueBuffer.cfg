SPECIFICATION Spec
CONSTANTS
    MaxFileSize = 4
    MaxBufferSize = 0
    FullAction = "drop"
    CursorUpdateCount = 1
    Restarting = FALSE
    Ticker = FALSE
    DiskErrors = TRUE
    TornWrites = TRUE
    MaxRecs = 4
    MaxFileId = 5
    MaxStops = 2
INVARIANTS
    
    
    CursorEndsRecord

    
CHECK_DEADLOCK FALSE
