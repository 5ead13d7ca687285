\* Two packets, one e-mail request and one generation at a time; and one
\* document, with a thread and two requests that overlap on it.
CONSTANTS
    Packets = {p1, p2}
    Docs <- MCDocs
    TypeOf <- MCTypeOf
    Fields <- MCFields
    LoadData <- MCLoadData
    Funded <- MCNoValue
    Senders = {s1}
    Destinations = {"broker", "other"}
    InitialDocs = {1, 2, 3}
    MaxEdits = 3
    Generators = {g1}
    Payments = {"paid", "disputed"}
    InitialPayments = {"disputed"}
    Uploaded = {d1}
    Runners = {t1}
    Clients = {c1, c2}
    ClientCalls = {"driver_upload", "reprocess", "extract", "delete"}
    MaxAttempts = 2
    MaxFiles = 3
    MayFail = TRUE
    MayCrash = TRUE
SPECIFICATION MCSpec
INVARIANTS MailsAreComplete SentDateMatchesTrail TasksMatchSendings
           CompletedUnlessOvertaken
SYMMETRY MCSymmetry
CHECK_DEADLOCK FALSE
