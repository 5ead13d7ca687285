\* Two events, two processes, one crash and one edit.
CONSTANTS
    Events <- MCEvents
    Contents <- MCContents
    Processes = {p1, p2}
    AdminStatuses = {"canceled", "trial"}
    MaxCrashes = 1
    MaxEdits = 1
SPECIFICATION Spec
INVARIANTS StatusesAgree
PROPERTIES ImplementsLedger EventsRecorded
CHECK_DEADLOCK FALSE
