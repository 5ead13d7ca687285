-------------------------- MODULE OperationalQueue --------------------------
(***************************************************************************)
(* What the dispatchers' queues say of a load                              *)
(* (services/loads/operational_queue_service.py over                       *)
(* services/loads/packet_readiness.py): the queues it is in, the action it *)
(* is said to need next, whether it is overdue and how it ranks.           *)
(*                                                                         *)
(* The service only reads.  Its operators are functions of the committed   *)
(* row and documents of LoadWorkflow, of the has_invoice flag, which PATCH *)
(* may have set to anything, and of the whole days since the column that   *)
(* the load's age is counted from.                                         *)
(***************************************************************************)
EXTENDS LoadWorkflow

CONSTANTS InvoiceRequired,  \* BASELINE_RULE_SET.invoice_required
          Days              \* the ages in days at which loads are looked at

ASSUME InvoiceAssumption == InvoiceRequired \subseteq SubmissionRequired
ASSUME DaysAssumption == Days \subseteq Nat

ready_for_invoice == InvoiceRequired \subseteq docs
ready_to_submit == SubmissionRequired \subseteq docs

QUEUE_ORDER ==
    <<"disputed_or_short_paid", "payment_overdue", "docs_needs_attention",
      "missing_documents", "ready_to_invoice", "ready_to_submit",
      "submitted_waiting_funding", "advance_paid_reserve_pending">>

FOLLOW_UP_DAYS_BY_STATUS ==
    [s \in Submitted \cup {"advance_paid", "reserve_pending"} |->
     CASE s \in Submitted -> 3
       [] s = "advance_paid" -> 7
       [] s = "reserve_pending" -> 10]

\* Mutant: the age of a load with an advance is counted from its funding only.
MutantFundedAnchor ==
    CASE load.status \in Submitted -> load.submitted_at
      [] load.status \in {"advance_paid", "reserve_pending"} -> load.funded_at
      [] load.status \in {"short_paid", "disputed"} -> load.paid_at
      [] OTHER -> TRUE

\* _state_anchor: is the column set that the load's age is counted from?  In
\* other statuses it is updated_at, which every row has.
has_anchor ==
    CASE load.status \in Submitted -> load.submitted_at
      [] load.status \in {"advance_paid", "reserve_pending"} ->
            load.funded_at \/ load.submitted_at
      [] load.status \in {"short_paid", "disputed"} -> load.paid_at
      [] OTHER -> TRUE

is_overdue(days) ==
    /\ load.status \in DOMAIN FOLLOW_UP_DAYS_BY_STATUS
    /\ has_anchor
    /\ days >= FOLLOW_UP_DAYS_BY_STATUS[load.status]

-----------------------------------------------------------------------------
NeedsRepair ==
    {"docs_needs_attention", "packet_rejected", "resubmission_needed"}

\* _queue_memberships
InQueue(queue, hasInvoice, days) ==
    CASE queue = "disputed_or_short_paid" ->
            load.status \in {"short_paid", "disputed"}
      [] queue = "payment_overdue" -> is_overdue(days)
      [] queue = "docs_needs_attention" -> load.status \in NeedsRepair
      [] queue = "missing_documents" -> ~ready_to_submit \/ ~ready_for_invoice
      [] queue = "ready_to_invoice" -> ready_for_invoice /\ ~hasInvoice
      [] queue = "ready_to_submit" ->
            ready_to_submit /\ load.status \in {"docs_received", "invoice_ready"}
      [] queue = "submitted_waiting_funding" -> load.status \in Submitted
      [] queue = "advance_paid_reserve_pending" ->
            load.status \in {"advance_paid", "reserve_pending"}

\* The first queue, in the service's order, that the load is in.
primary_queue(hasInvoice, days) ==
    LET In(i) == InQueue(QUEUE_ORDER[i], hasInvoice, days)
    IN  IF \E i \in DOMAIN QUEUE_ORDER : In(i)
        THEN QUEUE_ORDER[CHOOSE i \in DOMAIN QUEUE_ORDER :
                           In(i) /\ \A j \in 1 .. i - 1 : ~In(j)]
        ELSE "none"

\* What a load whose invoice is not attached is said to need.
InvoiceAction(hasInvoice) ==
    IF ready_for_invoice /\ ~hasInvoice THEN "generate_invoice"
    ELSE "upload_invoice"

\* Mutant: a load is submitted as soon as it can be invoiced.
MutantInvoiceSuffices(hasInvoice, days) ==
    IF load.status = "invoice_ready" /\ ready_for_invoice
    THEN "submit_to_broker" ELSE "monitor"

\* _next_action; the cases are tried in order.
next_action(hasInvoice, days) ==
    IF load.status = "disputed" THEN "resolve_dispute"
    ELSE IF load.status = "short_paid" THEN "review_short_pay"
    ELSE IF load.status \in NeedsRepair THEN "fix_missing_document"
    ELSE IF "proof_of_delivery" \in MissingForSubmission THEN "upload_pod"
    ELSE IF "invoice" \in MissingForSubmission THEN InvoiceAction(hasInvoice)
    ELSE IF load.status = "invoice_ready" /\ ready_to_submit
         THEN "submit_to_broker"
    ELSE IF load.status = "submitted_to_broker"
         THEN IF is_overdue(days) THEN "follow_up_broker" ELSE "monitor"
    ELSE IF load.status \in DOMAIN FOLLOW_UP_DAYS_BY_STATUS
         THEN IF is_overdue(days) THEN "follow_up_factoring" ELSE "monitor"
    ELSE IF ready_for_invoice /\ ~hasInvoice THEN "generate_invoice"
    ELSE "monitor"

QUEUE_SCORES ==
    [payment_overdue |-> 100, disputed_or_short_paid |-> 95,
     ready_to_submit |-> 90, ready_to_invoice |-> 85,
     submitted_waiting_funding |-> 70, advance_paid_reserve_pending |-> 60,
     docs_needs_attention |-> 50, missing_documents |-> 40, none |-> 0]

priority_score(status, queue, overdue, days) ==
    QUEUE_SCORES[queue]
    + (IF status = "invoice_ready" THEN 8
       ELSE IF status \in Submitted THEN 5 ELSE 0)
    + (IF overdue THEN 15 ELSE 0)
    + (IF days < 15 THEN days ELSE 15)

-----------------------------------------------------------------------------
(* Properties.                                                             *)

\* Every load that has a follow-up term has the date that the term is counted
\* from, so it does become overdue and is not forgotten in its queue, however
\* the status came to be and whichever requests overlapped.
FollowUpsComeDue ==
    load.status \in DOMAIN FOLLOW_UP_DAYS_BY_STATUS => has_anchor

\* The queue and the workflow engine judge a load alike: one that is said to be
\* ready for submission is one the engine lets be submitted, to the broker or
\* to the factor, unless an unresolved issue, which the queue does not look
\* at, stands in the way; and every load in invoice_ready that the engine
\* would let be submitted is said to be ready.
AdviceIsAccepted ==
    \A hasInvoice \in BOOLEAN, days \in Days :
        /\ next_action(hasInvoice, days) = "submit_to_broker" =>
              \A target \in Submitted : transition_load(target) \/ blocking
        /\ load.status = "invoice_ready" /\ transition_load("submitted_to_broker")
              => next_action(hasInvoice, days) = "submit_to_broker"

\* The scores of all loads that are not overdue, and of some that cannot be.
ScoresNotDue ==
    {priority_score(s, q, FALSE, d) :
        s \in LoadStatus, q \in DOMAIN QUEUE_SCORES \ {"payment_overdue"},
        d \in 0 .. 15}

\* The dashboard shows first what has waited too long: an overdue load ranks
\* above every load that is not overdue, whatever queues, bonuses and ages
\* the two have.
OverdueRanksFirst ==
    \A hasInvoice \in BOOLEAN, days \in Days :
        is_overdue(days) =>
            \A other \in ScoresNotDue :
                other < priority_score(load.status,
                                       primary_queue(hasInvoice, days),
                                       TRUE, days)
=============================================================================
