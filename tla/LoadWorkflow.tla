---------------------------- MODULE LoadWorkflow ----------------------------
(***************************************************************************)
(* The lifecycle of one load: the status machine, the workflow engine that *)
(* guards it, and the packet handler that moves the status around it       *)
(* (backend/app/services/workflow, services/loads, api/v1/loads.py).       *)
(*                                                                         *)
(* Every HTTP handler runs in a database session of its own.  It reads the *)
(* load row and its documents, issues and events, decides, and stages the  *)
(* columns it changed; the session's commit writes exactly those columns   *)
(* over whatever the row holds by then (no row version is compared).  One  *)
(* action per handler stages, Commit writes, and Abandon is the session    *)
(* that ends without a commit (an exception, a crash, a lost connection).  *)
(* Loads share no state here, so the module is about one load.             *)
(***************************************************************************)
EXTENDS Naturals, FiniteSets

CONSTANTS
    Requests,           \* the requests that can be in flight at once
    Targets,            \* statuses that clients ask the engine for
    Destinations,       \* destination types that mark-sent is called with
    SubmissionRequired  \* BASELINE_RULE_SET.submission_required

LoadStatus ==
    {"booked", "in_transit", "delivered", "docs_received",
     "docs_needs_attention", "invoice_ready", "submitted_to_broker",
     "submitted_to_factoring", "packet_rejected", "resubmission_needed",
     "advance_paid", "reserve_pending", "fully_paid", "short_paid",
     "disputed", "archived"}

DestinationType == {"factoring", "broker", "customer_ap", "other"}

ASSUME TargetsAssumption == Targets \subseteq LoadStatus
ASSUME DestinationsAssumption == Destinations \subseteq DestinationType

VARIABLES
    load,      \* the committed row: status and the columns the engine writes
    docs,      \* required document types attached to the load
    blocking,  \* is there an unresolved blocking validation issue?
    packet,    \* has a submission packet been created for the load?
    trail,     \* what is read of the WorkflowEvent rows: the latest
               \* new_status, and whether any is submitted_to_factoring
    factored,  \* history: the row has been in submitted_to_factoring
    active,    \* requests whose session has staged a change
    session    \* per request: the columns and rows its commit will write

vars == <<load, docs, blocking, packet, trail, factored, active, session>>

-----------------------------------------------------------------------------
Submitted == {"submitted_to_broker", "submitted_to_factoring"}

ProcessingStatus == {"pending", "failed", "completed"}

\* Timestamp columns are abstracted to whether they are set.
Row == [status : LoadStatus, processing : ProcessingStatus,
        submitted_at : BOOLEAN, funded_at : BOOLEAN, paid_at : BOOLEAN,
        follow_up : BOOLEAN]

Keep == "keep"          \* the session leaves this column or table alone
NoEvent == "none"

\* The columns and rows a session has pending.
Update == [status : LoadStatus \cup {Keep},
           processing : ProcessingStatus \cup {Keep},
           submitted_at : BOOLEAN, funded_at : BOOLEAN, paid_at : BOOLEAN,
           follow_up : {Keep, "set", "clear"},
           event : LoadStatus \cup {NoEvent},
           attached : SUBSET SubmissionRequired,
           detached : SUBSET SubmissionRequired,
           blocking : {Keep, "set", "clear"}, packet : BOOLEAN]

\* An update that leaves the load row alone.
SideUpdate(attached, detached, issue, created) ==
    [status |-> Keep, processing |-> Keep, submitted_at |-> FALSE,
     funded_at |-> FALSE, paid_at |-> FALSE, follow_up |-> Keep,
     event |-> NoEvent, attached |-> attached, detached |-> detached,
     blocking |-> issue, packet |-> created]

NoChange == SideUpdate({}, {}, Keep, FALSE)

TypeOK ==
    /\ load \in Row
    /\ docs \subseteq SubmissionRequired
    /\ blocking \in BOOLEAN
    /\ packet \in BOOLEAN
    /\ trail \in [last : LoadStatus \cup {NoEvent}, factoring : BOOLEAN]
    /\ factored \in BOOLEAN
    /\ active \subseteq Requests
    /\ session \in [Requests -> Update]

-----------------------------------------------------------------------------
(* The state machine (services/workflow/state_machine.py).                 *)

ALLOWED_TRANSITIONS ==
    [s \in LoadStatus |->
     CASE s = "booked" ->
            {"in_transit", "docs_received", "docs_needs_attention", "archived"}
       [] s = "in_transit" ->
            {"delivered", "docs_needs_attention", "archived"}
       [] s = "delivered" ->
            {"docs_received", "docs_needs_attention", "archived"}
       [] s = "docs_received" ->
            {"invoice_ready", "docs_needs_attention", "archived"}
       [] s = "docs_needs_attention" ->
            {"docs_received", "invoice_ready", "archived"}
       [] s = "invoice_ready" ->
            Submitted \cup {"docs_needs_attention", "archived"}
       [] s = "submitted_to_broker" ->
            {"fully_paid", "short_paid", "disputed", "docs_needs_attention",
             "archived"}
       [] s = "submitted_to_factoring" ->
            {"packet_rejected", "advance_paid", "disputed", "short_paid",
             "archived"}
       [] s = "packet_rejected" ->
            {"resubmission_needed", "docs_needs_attention", "archived"}
       [] s = "resubmission_needed" ->
            {"invoice_ready", "submitted_to_factoring",
             "docs_needs_attention", "archived"}
       [] s = "advance_paid" ->
            {"reserve_pending", "fully_paid", "short_paid", "disputed",
             "archived"}
       [] s = "reserve_pending" ->
            {"fully_paid", "short_paid", "disputed", "archived"}
       [] s = "short_paid" -> {"disputed", "fully_paid", "archived"}
       [] s = "disputed" ->
            {"resubmission_needed", "reserve_pending", "short_paid",
             "fully_paid", "archived"}
       [] s = "fully_paid" -> {"archived"}
       [] s = "archived" -> {}]

can_transition(current, new) ==
    current = new \/ new \in ALLOWED_TRANSITIONS[current]

-----------------------------------------------------------------------------
(* The workflow engine (services/workflow/workflow_engine.py).             *)

\* Targets that unresolved blocking issues rule out.
NeedsNoBlockingIssue ==
    Submitted \cup {"invoice_ready", "advance_paid", "reserve_pending",
                    "fully_paid", "short_paid", "disputed"}

FactoringOnly ==
    {"packet_rejected", "resubmission_needed", "advance_paid",
     "reserve_pending"}

\* calculate_packet_readiness: missing_required_documents["submission"]
MissingForSubmission == SubmissionRequired \ docs

has_factoring_path ==
    \/ load.status \in FactoringOnly \cup {"submitted_to_factoring"}
    \/ trail.factoring

\* Mutant: a resubmission is taken to have its documents.
MutantResubmission(target) ==
    /\ target \in NeedsNoBlockingIssue => ~blocking
    /\ target \in Submitted /\ load.status = "invoice_ready" =>
          MissingForSubmission = {}
    /\ target \in Submitted =>
          load.status \in {"invoice_ready", "resubmission_needed"}
    /\ target \in FactoringOnly => has_factoring_path
    /\ target \in {"fully_paid", "short_paid", "disputed"} => load.submitted_at

TransitionPreconditions(target) ==
    /\ target \in NeedsNoBlockingIssue => ~blocking
    /\ target \in Submitted => MissingForSubmission = {}
    /\ target \in Submitted =>
          load.status \in {"invoice_ready", "resubmission_needed"}
    /\ target \in FactoringOnly => has_factoring_path
    /\ target \in {"fully_paid", "short_paid", "disputed"} => load.submitted_at

\* The timestamp side of a status change, as both LoadTransitionApplier and
\* LoadService perform it: a column is stamped only if it is empty.
StampsSubmitted(target) ==
    /\ ~load.submitted_at
    /\ \/ target \in Submitted
       \/ target = "advance_paid" /\ ~load.funded_at
       \/ target \in {"fully_paid", "short_paid"} /\ ~load.paid_at

\* Mutant: full payment also records a missing funding date.
MutantPaidFunds(target) ==
    target \in {"advance_paid", "fully_paid"} /\ ~load.funded_at

StampsFunded(target) == target = "advance_paid" /\ ~load.funded_at

StampsPaid(target) == target \in {"fully_paid", "short_paid"} /\ ~load.paid_at

ProcessingFor(target) ==
    IF target \in {"booked", "in_transit", "delivered", "docs_received"}
    THEN "pending"
    ELSE IF target = "docs_needs_attention" THEN "failed" ELSE "completed"

\* A column that is assigned the value it already has is not written.
Changed(old, new) == IF new = old THEN Keep ELSE new

\* An update of the load row, with the event published beside it.
RowUpdate(status, processing, submits, funds, pays, followUp, event) ==
    [status |-> status, processing |-> processing, submitted_at |-> submits,
     funded_at |-> funds, paid_at |-> pays, follow_up |-> followUp,
     event |-> event, attached |-> {}, detached |-> {}, blocking |-> Keep,
     packet |-> FALSE]

\* Mutant: no event when the load goes back for its documents.
MutantSilentReturn(target, followUp) ==
    RowUpdate(Changed(load.status, target),
              Changed(load.processing, ProcessingFor(target)),
              StampsSubmitted(target), StampsFunded(target),
              StampsPaid(target), followUp,
              IF target = "docs_needs_attention" THEN NoEvent ELSE target)

\* LoadTransitionApplier.apply_status_change, and the status_changed event.
apply_status_change(target, followUp) ==
    RowUpdate(Changed(load.status, target),
              Changed(load.processing, ProcessingFor(target)),
              StampsSubmitted(target), StampsFunded(target),
              StampsPaid(target), followUp, target)

\* Mutant: update_load without _sync_status_timestamps.
MutantNoTimestamps(target) ==
    RowUpdate(Changed(load.status, target), Keep, FALSE, FALSE, FALSE, Keep,
              NoEvent)

\* LoadService.update_load(status = target): the timestamps follow a changed
\* status; the processing status does not, and no event is published.
update_load_status(target) ==
    RowUpdate(Changed(load.status, target), Keep,
              target # load.status /\ StampsSubmitted(target),
              target # load.status /\ StampsFunded(target),
              target # load.status /\ StampsPaid(target), Keep, NoEvent)

transition_load(target) ==
    /\ can_transition(load.status, target)
    /\ TransitionPreconditions(target)

-----------------------------------------------------------------------------
(* Handlers: each opens a session, reads, checks and stages its writes.    *)

Stage(r, update) ==
    /\ r \notin active
    /\ active' = active \cup {r}
    /\ session' = [session EXCEPT ![r] = update]
    /\ UNCHANGED <<load, docs, blocking, packet, trail, factored>>

\* POST /loads/{id}/status
TransitionLoadStatus(r, target) ==
    /\ transition_load(target)
    /\ Stage(r, apply_status_change(target, Keep))

\* POST /driver/loads/{id}/check-in
DriverLoadCheckIn(r, target) ==
    /\ target \in {"in_transit", "delivered"}
    /\ transition_load(target)
    /\ Stage(r, apply_status_change(target, Keep))

\* WorkflowEngine.apply_operational_action: the status each action stands for.
OperationalTargets ==
    Submitted \cup FactoringOnly \cup {"fully_paid", "short_paid", "disputed"}

\* submit_to_factoring also stores follow_up_required, which defaults to True;
\* it is compared with the row that transition_load has just refreshed, so the
\* stored value is the requested one.
ApplyOperationalAction(r, target, followUp) ==
    /\ target \in OperationalTargets
    /\ transition_load(target)
    /\ followUp \in IF target = "submitted_to_factoring"
                    THEN {"set", "clear"} ELSE {Keep}
    /\ Stage(r, apply_status_change(target, followUp))

\* PATCH /loads/{id}: of the columns modelled here it writes follow_up_required
\* only, and the request's value even when the request left it out (False).
UpdateLoad(r, required) ==
    Stage(r, RowUpdate(Keep, Keep, FALSE, FALSE, FALSE,
                       IF required = load.follow_up THEN Keep
                       ELSE IF required THEN "set" ELSE "clear", NoEvent))

\* POST /loads/{id}/submission-packets
CreateSubmissionPacket(r) ==
    /\ MissingForSubmission = {}
    /\ Stage(r, SideUpdate({}, {}, Keep, TRUE))

\* The status that a packet's destination stands for in mark_sent.
SentStatus(destination) ==
    CASE destination = "factoring" -> "submitted_to_factoring"
      [] destination \in {"broker", "customer_ap"} -> "submitted_to_broker"
      [] OTHER -> Keep

\* POST /loads/{id}/submission-packets/{packet_id}/mark-sent: any packet, in
\* any state of the load.
MarkSubmissionPacketSent(r, destination) ==
    /\ packet
    /\ Stage(r, IF SentStatus(destination) = Keep THEN NoChange
                ELSE update_load_status(SentStatus(destination)))

\* DocumentService.create_document: a document of a required type arrives.
CreateDocument(r, type) == Stage(r, SideUpdate({type}, {}, Keep, FALSE))

\* DocumentService.delete_document: the last document of its type goes.
DeleteDocument(r, type) ==
    /\ type \in docs
    /\ Stage(r, SideUpdate({}, {type}, Keep, FALSE))

\* ValidationOrchestrator.validate_load finds a blocking issue.
ValidateLoad(r) ==
    /\ ~blocking
    /\ Stage(r, SideUpdate({}, {}, "set", FALSE))

\* HumanReviewService.resolve_validation_issue: the last blocking one.
ResolveValidationIssue(r) ==
    /\ blocking
    /\ Stage(r, SideUpdate({}, {}, "clear", FALSE))

-----------------------------------------------------------------------------
(* The end of a session (core/database.py).                                *)

\* The staged columns over the row as it is now.
Flush(row, u) ==
    [status |-> IF u.status = Keep THEN row.status ELSE u.status,
     processing |-> IF u.processing = Keep THEN row.processing
                    ELSE u.processing,
     submitted_at |-> row.submitted_at \/ u.submitted_at,
     funded_at |-> row.funded_at \/ u.funded_at,
     paid_at |-> row.paid_at \/ u.paid_at,
     follow_up |-> IF u.follow_up = Keep THEN row.follow_up
                   ELSE u.follow_up = "set"]

\* Mutant: the event holds the written column, not the requested status.
MutantEventFromColumn(u) ==
    IF u.event = NoEvent THEN trail
    ELSE [last |-> u.status,
          factoring |-> trail.factoring \/ u.event = "submitted_to_factoring"]

\* EventPublisher.publish_load_event
publish_load_event(u) ==
    IF u.event = NoEvent THEN trail
    ELSE [last |-> u.event,
          factoring |-> trail.factoring \/ u.event = "submitted_to_factoring"]

Commit(r) ==
    LET u == session[r]
    IN  /\ r \in active
        /\ active' = active \ {r}
        /\ session' = [session EXCEPT ![r] = NoChange]
        /\ load' = Flush(load, u)
        /\ docs' = (docs \cup u.attached) \ u.detached
        /\ blocking' = IF u.blocking = Keep THEN blocking
                       ELSE u.blocking = "set"
        /\ packet' = (packet \/ u.packet)
        /\ trail' = publish_load_event(u)
        /\ factored' = (factored \/ u.status = "submitted_to_factoring")

\* The session is closed, or the process dies, before the commit.
Abandon(r) ==
    /\ r \in active
    /\ active' = active \ {r}
    /\ session' = [session EXCEPT ![r] = NoChange]
    /\ UNCHANGED <<load, docs, blocking, packet, trail, factored>>

\* LoadService.create_load
Init ==
    /\ load = [status |-> "booked", processing |-> "pending",
               submitted_at |-> FALSE, funded_at |-> FALSE, paid_at |-> FALSE,
               follow_up |-> FALSE]
    /\ docs = {}
    /\ blocking = FALSE
    /\ packet = FALSE
    /\ trail = [last |-> NoEvent, factoring |-> FALSE]
    /\ factored = FALSE
    /\ active = {}
    /\ session = [r \in Requests |-> NoChange]

Next ==
    \E r \in Requests :
        \/ \E target \in Targets :
              \/ TransitionLoadStatus(r, target)
              \/ DriverLoadCheckIn(r, target)
              \/ \E followUp \in {Keep, "set", "clear"} :
                    ApplyOperationalAction(r, target, followUp)
        \/ \E required \in BOOLEAN : UpdateLoad(r, required)
        \/ CreateSubmissionPacket(r)
        \/ \E destination \in Destinations :
              MarkSubmissionPacketSent(r, destination)
        \/ \E type \in SubmissionRequired :
              CreateDocument(r, type) \/ DeleteDocument(r, type)
        \/ ValidateLoad(r)
        \/ ResolveValidationIssue(r)
        \/ Commit(r)
        \/ Abandon(r)

Spec == Init /\ [][Next]_vars

-----------------------------------------------------------------------------
(* Properties that hold however many requests overlap.                     *)

\* Statuses that only a load that has been submitted may have.
AfterSubmission ==
    Submitted \cup FactoringOnly \cup {"fully_paid", "short_paid", "disputed"}

\* The status and the timestamp columns, though they are written by sessions
\* that saw different rows, agree: a status from submission on has
\* submitted_at, advance_paid has funded_at, a paid status has paid_at, and
\* money is never recorded on a load without a submission.
MilestonesRecorded ==
    /\ load.status \in AfterSubmission => load.submitted_at
    /\ load.status = "advance_paid" => load.funded_at
    /\ load.status \in {"fully_paid", "short_paid"} => load.paid_at
    /\ load.funded_at \/ load.paid_at => load.submitted_at

\* A load is in a status that only factoring leads to (packet rejected,
\* resubmission, advance, reserve) only if it has been submitted to factoring,
\* also when the submission came from mark_sent, which leaves no event for
\* _has_factoring_path to find.
FactoringNeedsSubmission == load.status \in FactoringOnly => factored

Milestones == INSTANCE LoadMilestones
    WITH submitted <- load.submitted_at, funded <- load.funded_at,
         paid <- load.paid_at

\* The sessions implement the promise of LoadMilestones: no commit, stale or
\* not, records funding or payment on a load whose submission is not already
\* committed, two milestones at once, or erases one.
MilestonesImplemented == Milestones!Spec

-----------------------------------------------------------------------------
(* Properties of requests that do not overlap and go through the engine.   *)

\* The event log tells the current status: the latest event's new_status is
\* the row's, or there is no event and the load is as it was created.  And the
\* processing status is the one that the transition applier gives that status,
\* although a column whose value does not change is left out of the write.
TrailMatchesStatus ==
    /\ IF trail.last = NoEvent THEN load.status = "booked"
       ELSE load.status = trail.last
    /\ load.processing = ProcessingFor(load.status)

\* No load advances to billing, submission or money while a blocking
\* validation issue is unresolved.
BlockingIssuesPreventForward ==
    [][load'.status # load.status /\ load'.status \in NeedsNoBlockingIssue
         => ~blocking]_vars

\* No load is submitted while a required document is missing.
SubmissionHasDocuments ==
    [][load'.status # load.status /\ load'.status \in Submitted
         => MissingForSubmission = {}]_vars
=============================================================================
