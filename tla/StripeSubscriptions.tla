------------------------ MODULE StripeSubscriptions ------------------------
(***************************************************************************)
(* The webhook events of one organization's Stripe subscription            *)
(* (services/billing/stripe_subscription_service.py): Stripe sends each    *)
(* event until it is acknowledged, perhaps more often, at once and out of  *)
(* order, and an administrator edits the billing settings meanwhile        *)
(* (api/v1/organizations.py).                                              *)
(*                                                                         *)
(* A delivery looks the event up, claims it by inserting its row, finds    *)
(* the organization, and commits the row and what the event changes.  One  *)
(* server process handles deliveries one by one; during a deployment two   *)
(* processes are up.  A writer's session writes only the columns that      *)
(* differ from what it read.                                               *)
(*                                                                         *)
(* An event carries what the code branches on.  Plans, trial dates and     *)
(* period dates are copied and decide nothing, and are left out.           *)
(***************************************************************************)
EXTENDS Naturals, FiniteSets

CONSTANTS
    Events,      \* the events that Stripe may emit, in order: 1 .. n
    Contents,    \* what they may carry
    Processes,   \* server processes
    AdminStatuses, \* the billing statuses that the administrator may set
    MaxCrashes,  \* bound on crashes
    MaxEdits     \* bound on the administrator's edits

Handled == {"checkout.session.completed", "customer.subscription",
            "invoice.payment_succeeded", "invoice.payment_failed"}

\* Stripe's status of a subscription, of those that the code knows or not.
StripeStatus == {"trialing", "active", "past_due", "unpaid", "canceled",
                 "incomplete", "incomplete_expired", "paused", "none"}

\* `metadata` says whether the object names the organization: invoices only
\* name the customer.  The last three are those of subscriptions.
Content ==
    [type : Handled \cup {"other"}, metadata : BOOLEAN, status : StripeStatus,
     canceledAt : BOOLEAN, atPeriodEnd : BOOLEAN]

\* ALLOWED_BILLING_STATUSES
BillingStatus == {"trial", "trialing", "active", "manual_active", "inactive",
                  "past_due", "unpaid", "canceled", "incomplete", "none"}

ASSUME EventsAssumption == Events \subseteq Nat /\ Contents \subseteq Content
ASSUME AdminAssumption == AdminStatuses \subseteq BillingStatus
ASSUME BoundsAssumption == MaxCrashes \in Nat /\ MaxEdits \in Nat
ASSUME ProcessesAssumption == "admin" \notin Processes

VARIABLES
    content,       \* of each emitted event
    recorded,      \* the status of each event's row
    org,           \* the organization's row
    process,       \* the delivery that each process handles
    admin,         \* the row that the administrator's request has read
    acknowledged,  \* the events that Stripe need not send again
    effects,       \* history: how often each event was applied
    overlapped,    \* history: did two writers of the row overlap?
    crashes, edits

history == <<effects, overlapped>>
bounds == <<crashes, edits>>
vars == <<content, recorded, org, process, admin, acknowledged, history, bounds>>

NotEmitted == [type |-> "none"]
Idle == [at |-> "idle"]
NotEditing == [editing |-> FALSE]

SubscriptionStatus == BillingStatus \ {"trial"}

Organization ==
    [subscription_status : SubscriptionStatus,
     billing_status : BillingStatus,
     customer : BOOLEAN, cancel_at_period_end : BOOLEAN]

Delivery ==
    [at : {"found", "new"}, event : Events] \cup
    [at : {"claimed"}, event : Events, seen : Organization] \cup
    [at : {"committed"}, event : Events]

StripeTypeOK ==
    /\ content \in [Events -> Contents \cup {NotEmitted}]
    /\ recorded \in [Events -> {"none", "ignored", "processed"}]
    /\ org \in Organization
    /\ process \in [Processes -> Delivery \cup {Idle}]
    /\ admin \in [editing : {TRUE}, seen : Organization] \cup {NotEditing}
    /\ acknowledged \subseteq Events
    /\ effects \in [Events -> Nat] /\ overlapped \in BOOLEAN
    /\ crashes \in 0 .. MaxCrashes /\ edits \in 0 .. MaxEdits

\* An organization that signed up; nothing of Stripe is known.
Init ==
    /\ content = [e \in Events |-> NotEmitted]
    /\ recorded = [e \in Events |-> "none"]
    /\ org = [subscription_status |-> "none", billing_status |-> "trial",
              customer |-> FALSE, cancel_at_period_end |-> FALSE]
    /\ process = [p \in Processes |-> Idle]
    /\ admin = NotEditing
    /\ acknowledged = {}
    /\ effects = [e \in Events |-> 0] /\ overlapped = FALSE
    /\ crashes = 0 /\ edits = 0

-----------------------------------------------------------------------------
(* What an event changes.                                                  *)

\* STATUS_MAP, and a subscription that was canceled and is still active.
StatusOf(c) ==
    IF c.status = "active" /\ c.canceledAt THEN "canceled"
    ELSE IF c.status \in {"incomplete_expired", "paused"} THEN "incomplete"
    ELSE c.status

Link(o, c) == [o EXCEPT !.customer = TRUE]

SetStatus(o, status, billing) ==
    [o EXCEPT !.subscription_status = status, !.billing_status = billing]

\* Mutant: the billing status is forgotten.
MutantApplyCheckoutSession(o, c) ==
    IF o.subscription_status = "none"
    THEN [Link(o, c) EXCEPT !.subscription_status = "incomplete"]
    ELSE Link(o, c)

ApplyCheckoutSession(o, c) ==
    IF o.subscription_status = "none"
    THEN SetStatus(Link(o, c), "incomplete", "inactive")
    ELSE Link(o, c)

ApplySubscription(o, c) ==
    [SetStatus(Link(o, c), StatusOf(c), StatusOf(c)) EXCEPT
        !.cancel_at_period_end = c.atPeriodEnd /\ StatusOf(c) # "canceled"]

ApplyPaymentSucceeded(o) ==
    IF o.subscription_status \in {"past_due", "unpaid", "incomplete", "none"}
    THEN SetStatus(o, "active", "active") ELSE o

ApplyPaymentFailed(o) ==
    IF o.subscription_status # "canceled"
    THEN SetStatus(o, "past_due", "past_due") ELSE o

\* _apply_event
ApplyEvent(o, c) ==
    CASE c.type = "checkout.session.completed" -> ApplyCheckoutSession(o, c)
      [] c.type = "customer.subscription" -> ApplySubscription(o, c)
      [] c.type = "invoice.payment_succeeded" -> ApplyPaymentSucceeded(o)
      [] c.type = "invoice.payment_failed" -> ApplyPaymentFailed(o)

\* What is stored when a session that saw `seen` and made it `new` commits.
Written(seen, new) ==
    [column \in DOMAIN org |->
        IF new[column] = seen[column] THEN org[column] ELSE new[column]]

-----------------------------------------------------------------------------
(* Stripe and the deliveries.                                              *)

\* A payment follows a checkout or a subscription of the customer.
Emit(e, c) ==
    /\ content[e] = NotEmitted
    /\ \A d \in Events : d < e => content[d] # NotEmitted
    /\ c.type \in {"invoice.payment_succeeded", "invoice.payment_failed"} =>
           \E d \in Events : d < e /\ content[d].type \in
               {"checkout.session.completed", "customer.subscription"}
    /\ content' = [content EXCEPT ![e] = c]
    /\ UNCHANGED <<recorded, org, process, admin, acknowledged, history, bounds>>

\* Mutant: a row that was processed does not end the delivery.
MutantProcessed(e) == FALSE

Processed(e) == recorded[e] = "processed"

\* process_webhook_event looks the event up; a processed one is a duplicate.
BeginDelivery(p, e) ==
    /\ process[p] = Idle
    /\ content[e] # NotEmitted
    /\ process' = [process EXCEPT ![p] =
           [at |-> IF Processed(e) THEN "committed"
                   ELSE IF recorded[e] = "none" THEN "new" ELSE "found",
            event |-> e]]
    /\ UNCHANGED <<content, recorded, org, admin, acknowledged, history, bounds>>

ClaimedBy(e) ==
    {q \in Processes : process[q].at = "claimed" /\ process[q].event = e}

\* Mutant: the organization is looked for by the object's metadata only.
MutantFound(c) == c.metadata

\* _find_organization_for_object: by metadata, or by the customer.
Found(c) == c.metadata \/ org.customer

\* The row is inserted, which waits for a delivery that has inserted it and
\* finds a duplicate when that one committed; then the organization is read.
\* An unknown organization, for a handled event, is an error: Stripe tries
\* again.
Claim(p) ==
    /\ process[p].at \in {"found", "new"}
    /\ LET e == process[p].event
           c == content[e]
       IN  /\ process[p].at = "new" => ClaimedBy(e) = {}
           /\ process' = [process EXCEPT ![p] =
                  IF process[p].at = "new" /\ recorded[e] # "none"
                  THEN [at |-> "committed", event |-> e]
                  ELSE IF c.type \notin Handled \/ Found(c)
                  THEN [at |-> "claimed", event |-> e, seen |-> org]
                  ELSE Idle]
    /\ UNCHANGED <<content, recorded, org, admin, acknowledged, history, bounds>>

Writers ==
    {p \in Processes : process[p].at = "claimed"} \cup
    (IF admin.editing THEN {"admin"} ELSE {})

\* The row and the organization are committed.
CommitDelivery(p) ==
    /\ process[p].at = "claimed"
    /\ LET e == process[p].event
           seen == process[p].seen
       IN  IF content[e].type \in Handled
           THEN /\ recorded' = [recorded EXCEPT ![e] = "processed"]
                /\ org' = Written(seen, ApplyEvent(seen, content[e]))
                /\ effects' = [effects EXCEPT ![e] = @ + 1]
                /\ overlapped' = (overlapped \/ Writers # {p})
           ELSE /\ recorded' = [recorded EXCEPT ![e] = "ignored"]
                /\ UNCHANGED <<org, history>>
    /\ process' = [process EXCEPT ![p] = [at |-> "committed", event |-> @.event]]
    /\ UNCHANGED <<content, admin, acknowledged, bounds>>

\* Stripe gets the answer.
Answer(p) ==
    /\ process[p].at = "committed"
    /\ acknowledged' = acknowledged \cup {process[p].event}
    /\ process' = [process EXCEPT ![p] = Idle]
    /\ UNCHANGED <<content, recorded, org, admin, history, bounds>>

\* The process ends, or its answer is lost.
Crash(p) ==
    /\ crashes < MaxCrashes /\ crashes' = crashes + 1
    /\ process[p] # Idle
    /\ process' = [process EXCEPT ![p] = Idle]
    /\ UNCHANGED <<content, recorded, org, admin, acknowledged, history, edits>>

-----------------------------------------------------------------------------
(* The administrator: update_organization.                                 *)

BeginEdit ==
    /\ edits < MaxEdits /\ edits' = edits + 1
    /\ ~admin.editing
    /\ admin' = [editing |-> TRUE, seen |-> org]
    /\ UNCHANGED <<content, recorded, org, process, acknowledged, history, crashes>>

CommitEdit(billing) ==
    /\ admin.editing
    /\ LET status == IF billing = "trial" THEN "trialing" ELSE billing
       IN  org' = Written(admin.seen, SetStatus(admin.seen, status, billing))
    /\ overlapped' = (overlapped \/ Writers # {"admin"})
    /\ admin' = NotEditing
    /\ UNCHANGED <<content, recorded, process, acknowledged, effects, bounds>>

-----------------------------------------------------------------------------
Next ==
    \/ \E e \in Events, c \in Contents : Emit(e, c)
    \/ \E p \in Processes, e \in Events : BeginDelivery(p, e)
    \/ \E p \in Processes : Claim(p)
    \/ \E p \in Processes : CommitDelivery(p)
    \/ \E p \in Processes : Answer(p)
    \/ \E p \in Processes : Crash(p)
    \/ BeginEdit
    \/ \E billing \in AdminStatuses : CommitEdit(billing)

\* Deliveries run on, and Stripe sends an event again until it is acknowledged.
Fairness ==
    /\ \A p \in Processes : WF_vars(Claim(p) \/ CommitDelivery(p) \/ Answer(p))
    /\ \A e \in Events :
           SF_vars(e \notin acknowledged /\ \E p \in Processes : BeginDelivery(p, e))

Spec == Init /\ [][Next]_vars /\ Fairness

-----------------------------------------------------------------------------
(* Properties.                                                             *)

\* The receiver keeps the sender's promise, also when two deliveries of an
\* event overlap, when the process ends before or after the commit, and when
\* answers are lost: the unique index and the commit that the row and the
\* organization share are what it rests on.
Ledger == INSTANCE WebhookLedger WITH
    recorded <- {e \in Events : recorded[e] # "none"}
ImplementsLedger == Ledger!LedgerSpec

\* Every event is on record in the end, a payment that arrived before the
\* organization was linked to its customer too.
EventsRecorded ==
    \A e \in Events : content[e] # NotEmitted ~> recorded[e] # "none"

\* The two statuses say the same unless two writers overlapped, whose columns
\* may mix: the one that is read falls back on the other only for "none".
StatusesAgree ==
    \/ overlapped \/ org.subscription_status = "none"
    \/ org.subscription_status = org.billing_status
    \/ <<org.subscription_status, org.billing_status>> \in
           {<<"trialing", "trial">>, <<"incomplete", "inactive">>}

\* A canceled organization is not revived by a payment event or a checkout
\* that is late, unless that overlapped the cancellation.
CanceledStays ==
    [][org.subscription_status = "canceled" /\ org'.subscription_status # "canceled" =>
          \/ overlapped' \/ admin.editing
          \/ \E p \in Processes :
                /\ process[p].at = "claimed" /\ process'[p].at = "committed"
                /\ content[process[p].event].type = "customer.subscription"]_vars
=============================================================================
