\* A driver replaces a file while it is extracted.
CONSTANTS
    Uploaded = {d1}
    Runners = {r1}
    Clients = {c1}
    ClientCalls = {"driver_upload"}
    MaxAttempts = 1
    MaxFiles = 2
    MayFail = FALSE
    MayCrash = FALSE
SPECIFICATION ExtractionSpec
INVARIANT CompletedIsExtracted
CHECK_DEADLOCK FALSE
