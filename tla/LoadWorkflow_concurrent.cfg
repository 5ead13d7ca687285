\* Two overlapping requests, every way a packet is marked sent, and the
\* statuses of the main path through factoring.
CONSTANTS
    Requests = {r1, r2}
    Targets = {"docs_needs_attention", "invoice_ready",
               "submitted_to_factoring", "advance_paid", "reserve_pending",
               "fully_paid", "disputed"}
    Destinations = {"factoring", "broker"}
    SubmissionRequired = {"invoice"}
    InvoiceRequired = {}
    Days = {0}
SPECIFICATION Spec
SYMMETRY RequestSymmetry
INVARIANTS MilestonesRecorded FollowUpsComeDue
PROPERTIES MilestonesImplemented
