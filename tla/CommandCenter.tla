---------------------------- MODULE CommandCenter ----------------------------
(***************************************************************************)
(* What the dispatchers' command center says of one load                   *)
(* (services/operations/command_center_service.py): whether its packet is  *)
(* held to be blocked, the alerts and tasks that are derived from that,    *)
(* and its lines in the readiness and stalled-load lists.  It reads the    *)
(* committed rows of LoadWorkflow; the payment half is Receivables.        *)
(*                                                                         *)
(* "failed" stands for a packet of the load in one of                      *)
(* BLOCKED_PACKET_STATUSES, "blockers" for the number of its unresolved    *)
(* blocking issues, and "days" for the whole days since its last update.   *)
(***************************************************************************)
EXTENDS OperationalQueue

ACTIVE_LOAD_STATUSES == LoadStatus \ {"fully_paid", "archived"}

\* Packets of the load can only have failed if there are any.
PacketOutcomes == {failed \in BOOLEAN : failed => packet}

\* More than two count like two.
BlockerCounts == IF blocking THEN {1, 2} ELSE {0}

severity(priority) ==
    IF priority >= 80 THEN "critical"
    ELSE IF priority >= 50 THEN "warning" ELSE "info"

Notice(type, level, priority) ==
    [type |-> type, severity |-> level, priority |-> priority]

If(condition, notices) == IF condition THEN notices ELSE {}

Points(condition, score) == IF condition THEN score ELSE 0

AtMost100(score) == IF score < 100 THEN score ELSE 100

AtLeast90(score) == IF score > 90 THEN score ELSE 90

-----------------------------------------------------------------------------
(* The load's item in the list of missing documents.                       *)

\* _missing_doc_item: blocked_from_packet_send
blocked_from_packet_send(failed) ==
    MissingForSubmission # {} \/ failed \/ blocking

\* The loads that _missing_doc_item is kept for.
MissingDocItem(failed) ==
    /\ load.status \in ACTIVE_LOAD_STATUSES
    /\ blocked_from_packet_send(failed)

missing_doc_priority(failed, blockers) ==
    AtMost100(
        Points(blocked_from_packet_send(failed), 35)
        + Points(/\ "proof_of_delivery" \in MissingForSubmission
                 /\ load.status \in {"delivered", "docs_received",
                                     "docs_needs_attention", "invoice_ready"},
                 45)
        + Points("rate_confirmation" \in MissingForSubmission, 25)
        + Points(/\ "invoice" \in MissingForSubmission
                 /\ load.status \in {"docs_received", "invoice_ready"}
                                       \cup Submitted,
                 30)
        + Points(load.status \in NeedsRepair, 30)
        + Points(blockers > 0, IF blockers > 1 THEN 30 ELSE 15))

-----------------------------------------------------------------------------
(* _build_alerts and _build_tasks, for the load itself.                    *)

document_alerts(failed, blockers) ==
    LET p == missing_doc_priority(failed, blockers)
    IN  If(MissingDocItem(failed),
           If("proof_of_delivery" \in MissingForSubmission,
              {Notice("missing_pod", severity(p), p)})
           \cup If("rate_confirmation" \in MissingForSubmission,
                   {Notice("missing_rate_confirmation", severity(p), p)})
           \cup If(packet \/ blocking,
                   {Notice("blocked_packet_send", "critical", AtLeast90(p))}))

\* A load whose row was last written more than seven days ago.
IsStale(days) ==
    load.status \in {"booked", "in_transit", "delivered"} /\ days >= 7

load_alerts(days) ==
    If(IsStale(days), {Notice("stale_load_activity", "info", 35)})
    \cup If(load.status \in ACTIVE_LOAD_STATUSES /\ blocking,
            {Notice("packet_intelligence_blocker", "critical", 90)})

\* Mutant: blockers are only reviewed once a packet has failed.
MutantReviewsFailures(failed, blockers) ==
    LET p == missing_doc_priority(failed, blockers)
    IN  If(MissingDocItem(failed),
           {Notice("missing_document", severity(p), p) :
               d \in MissingForSubmission}
           \cup If(blocking /\ failed,
                   {Notice("review_blocked_packet", "critical", AtLeast90(p))})
           \cup If(failed /\ MissingForSubmission = {},
                   {Notice("resend_packet", severity(p), p)}))

\* Mutant: the review of a blocked packet is as urgent as the item it is for.
MutantItemsSeverity(failed, blockers) ==
    LET p == missing_doc_priority(failed, blockers)
    IN  If(MissingDocItem(failed),
           {Notice("missing_document", severity(p), p) :
               d \in MissingForSubmission}
           \cup If(blocking, {Notice("review_blocked_packet", severity(p), p)})
           \cup If(~blocking /\ MissingForSubmission = {},
                   {Notice("resend_packet", severity(p), p)}))

\* The tasks made from the load's item.
document_tasks(failed, blockers) ==
    LET p == missing_doc_priority(failed, blockers)
    IN  If(MissingDocItem(failed),
           {Notice("missing_document", severity(p), p) :
               d \in MissingForSubmission}
           \cup If(blocking,
                   {Notice("review_blocked_packet", "critical", AtLeast90(p))})
           \cup If(~blocking /\ MissingForSubmission = {},
                   {Notice("resend_packet", severity(p), p)}))

\* The tasks made from the alerts.
activity_tasks(days) ==
    If(IsStale(days), {Notice("review_load_activity", "info", 35)})

-----------------------------------------------------------------------------
(* The lists of the operational intelligence.                              *)

\* _readiness_item: what the load is said to need
readiness_action ==
    IF ready_to_submit THEN "submit"
    ELSE IF ready_for_invoice THEN "create_invoice" ELSE "collect_documents"

\* _stalled_load_items: the priority, or 0 if the load is not listed; its age
\* is counted in calendar days.
stalled_priority(calendarDays) ==
    LET threshold == IF load.status \in {"delivered", "docs_received",
                                         "docs_needs_attention"}
                     THEN 5 ELSE 7
    IN  Points(/\ load.status \in ACTIVE_LOAD_STATUSES
               /\ calendarDays >= threshold,
               AtMost100(35 + calendarDays * 5))

-----------------------------------------------------------------------------
(* Properties.                                                             *)

\* The statuses that bring a load on, and that the engine would let it take.
MovesOpen ==
    {target \in ALLOWED_TRANSITIONS[load.status] \
                    {"archived", "docs_needs_attention"} :
        TransitionPreconditions(target)}

TypesOf(notices) == {notice.type : notice \in notices}

\* No load is stuck unnoticed: if the workflow engine refuses every way on from
\* a load's status, whatever it refuses for, the command center names a task
\* that would lift the refusal: the documents that are missing, or the review
\* of what blocks it.  A load is refused nothing else.
StuckLoadsHaveTasks ==
    load.status \in ACTIVE_LOAD_STATUSES /\ MovesOpen = {} =>
        \A failed \in PacketOutcomes, blockers \in BlockerCounts :
            /\ document_tasks(failed, blockers) # {}
            /\ "resend_packet" \notin TypesOf(document_tasks(failed, blockers))

\* The tasks that answer an alert.
TasksFor ==
    [missing_pod |-> {"missing_document"},
     missing_rate_confirmation |-> {"missing_document"},
     blocked_packet_send |-> {"missing_document", "review_blocked_packet",
                              "resend_packet"},
     packet_intelligence_blocker |-> {"review_blocked_packet"},
     stale_load_activity |-> {"review_load_activity"}]

AlertsHaveTasks(alerts, tasks) ==
    \A alert \in alerts : \E task \in tasks :
        /\ task.type \in TasksFor[alert.type]
        /\ \/ task.priority >= alert.priority
           \/ alert.type = "blocked_packet_send" /\ ~blocking

\* What the lists say of a load fits together.  Every alert comes with a task
\* that answers it and is as urgent, so that the tasks, cut off after the most
\* urgent, keep what the alerts keep; only a packet that cannot be sent may have
\* a task no more urgent than the documents it lacks.  Urgency and severity
\* never disagree.  A load with a stale alert is in the list of stalled loads.
\* What the dispatchers' queues want submitted or invoiced, the readiness list
\* does not send back for documents, and the other way round; and an overdue
\* load ranks above all others (OverdueRanksFirst).
ListsAgree ==
    /\ OverdueRanksFirst
    /\ \A failed \in PacketOutcomes, blockers \in BlockerCounts, days \in Days :
         LET alerts == document_alerts(failed, blockers) \cup load_alerts(days)
             tasks == document_tasks(failed, blockers) \cup activity_tasks(days)
         IN  /\ AlertsHaveTasks(alerts, tasks)
             /\ \A notice \in alerts \cup tasks :
                  notice.severity = severity(notice.priority)
             /\ IsStale(days) =>
                  \A date \in {days, days + 1} : stalled_priority(date) > 0
    /\ \A hasInvoice \in BOOLEAN, days \in Days :
         LET advice == next_action(hasInvoice, days)
         IN  /\ advice = "submit_to_broker" => readiness_action = "submit"
             /\ advice = "generate_invoice" =>
                   readiness_action # "collect_documents"
             /\ readiness_action = "submit" =>
                   advice \notin {"upload_pod", "upload_invoice"}
=============================================================================
