\* One request at a time, every status, packets sent to "other" only: the
\* engine is the only writer of the status.
CONSTANTS
    Requests = {r1}
    Targets = {"booked", "in_transit", "delivered", "docs_received",
               "docs_needs_attention", "invoice_ready", "submitted_to_broker",
               "submitted_to_factoring", "packet_rejected",
               "resubmission_needed", "advance_paid", "reserve_pending",
               "fully_paid", "short_paid", "disputed", "archived"}
    Destinations = {"other"}
    SubmissionRequired = {"rate_confirmation", "proof_of_delivery", "invoice"}
    InvoiceRequired = {"rate_confirmation", "proof_of_delivery"}
    Days = {0, 3, 7, 10, 15}
SPECIFICATION Spec
INVARIANTS TrailMatchesStatus AdviceIsAccepted StuckLoadsHaveTasks ListsAgree
PROPERTIES SubmissionHasDocuments
