\* Two requests, two e-mails, a workspace name that is used twice, and one or
\* two rows of each table.
CONSTANTS
    Clients = {c1, c2}
    Names = {"acme"}
    MaxSuffix = 2
    Emails = {"a", "b"}
    Passwords = {"p"}
    Profiles = {1, 2}
    Secrets = {1, 2}
    Roles = {"driver", "admin", "viewer"}
    Tickets = {t1}
    Checklists = {k1}
    CustomerAccounts = {a1, a2}
    Brokers = {b1, b2}
    FactoringCompanies = {f1, f2}
    Carriers = {p1}
    Ledgers = {l1}
    Leads = {d1}
    Texts = {"x", "y"}
    Statuses = {"open", "resolved", "blocked", "completed", "active", "lost"}
    Papers = {q1}
    NoPaper = NoPaper
    Payloads <- MCPayloads
    PlanCodes = {"basic", "plus"}
    Cycles = {"weekly", "quarterly"}
    Prices = {10}
    Days = {0, 30}
    AskedStatuses = {"active"}
    MaxPlans = 2
    MaxSubscriptions = 1
    Undated = Undated
    Callers = {g1, g2}
    Senders = {s1}
    Paths = {"/auth/login", "/auth/driver-login"}
    MaxRequests <- MCMaxRequests
    WindowSeconds <- MCWindowSeconds
    TicksPerSecond = 2
    MaxCount = 4
    MaxPass = 5
    Uploads = {u1}
    Shipments = {l2, l3}
    Shippers = {a3, a4}
    Brokerages = {b3}
    NoBrokerage = NoBrokerage
    PaperTypes = {"invoice", "other"}
    MaxPapers = 1
    MaxLinks = 1
    MaxHours = 1
    Nothing = Nothing
SPECIFICATION MCSpec
SYMMETRY Symmetry
INVARIANTS MfaUsable LoginFindsAccount RecordsAgree ReviewersSeeBrokenRules SubscriptionsAgree RetriesReachTheNextWindow PortalPapersAgree
PROPERTIES UpdatesKeepOthers
CHECK_DEADLOCK FALSE
