\* Failures and restarts; a document, two threads and a client.
CONSTANTS
    Uploaded = {d1}
    Runners = {r1, r2}
    Clients = {c1}
    ClientCalls = {"staff_upload", "driver_upload", "reprocess", "extract",
                   "delete"}
    MaxAttempts = 2
    MaxFiles = 3
    MayFail = TRUE
    MayCrash = TRUE
SPECIFICATION ExtractionSpec
PROPERTIES JobsSettle UploadsAreTried
CHECK_DEADLOCK FALSE
