\* Three requests for two loads, and two slots.
CONSTANTS
    Requests <- MCRequests
    Capacity = 2
    Loads <- MCLoads
    PageSize = 2
    Uploads = {u1}
    MaxEvents = 1
    None = None
SPECIFICATION Spec
INVARIANTS SlotsConserved DuplicatesOverlapped NewestShowsNumber
PROPERTY RequestsEnd
CHECK_DEADLOCK FALSE
