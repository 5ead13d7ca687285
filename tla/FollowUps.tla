----------------------------- MODULE FollowUps -----------------------------
(***************************************************************************)
(* The follow-up tasks that services/followups/follow_up_service.py        *)
(* derives from a load's packets and its payment record, together with the *)
(* packets themselves: a generation reads both and commits its tasks       *)
(* later, and an e-mailed packet closes the tasks of that packet.          *)
(*                                                                         *)
(* Of the tasks only the system's open ones are counted; snoozed ones are  *)
(* treated alike.  The endpoints that generate, complete, snooze and       *)
(* cancel never commit, so that the daily task and the e-mails are the     *)
(* only writers.                                                           *)
(***************************************************************************)
EXTENDS SubmissionPackets

CONSTANTS
    Generators,   \* runs of daily_follow_up_generation that may overlap
    Payments,     \* the payment statuses that the load's record takes
    InitialPayments \* those it has at first, or "none"

VARIABLES
    payment,      \* the status of the load's payment record, or "none"
    packetTasks,  \* the number of open PACKET_FOLLOW_UP tasks of each packet
    paymentTasks, \* the number of open tasks of each payment type
    generator     \* what each generation is about to commit

vars == <<packetVars, payment, packetTasks, paymentTasks, generator>>

PAYMENT_TASK_TYPES ==
    {"payment_overdue", "reserve_follow_up", "partial_payment_follow_up",
     "short_pay_follow_up", "dispute_follow_up"}

LoadPaymentStatus ==
    {"not_submitted", "submitted", "awaiting_payment", "partially_paid",
     "advance_paid", "reserve_pending", "paid", "short_paid", "disputed"}

ASSUME PaymentsAssumption ==
    /\ Payments \subseteq LoadPaymentStatus
    /\ InitialPayments \subseteq Payments \cup {"none"}

NoPlan == [active |-> FALSE]
Plan == [active : {TRUE}, packets : SUBSET Packets,
         payments : SUBSET PAYMENT_TASK_TYPES, paid : BOOLEAN]

FollowUpsTypeOK ==
    /\ TypeOK
    /\ payment \in Payments \cup {"none"}
    /\ packetTasks \in [Packets -> Nat]
    /\ paymentTasks \in [PAYMENT_TASK_TYPES -> Nat]
    /\ generator \in [Generators -> Plan \cup {NoPlan}]

Init ==
    /\ PacketsInit
    /\ payment \in InitialPayments
    /\ packetTasks = [p \in Packets |-> 0]
    /\ paymentTasks = [t \in PAYMENT_TASK_TYPES |-> 0]
    /\ generator = [g \in Generators |-> NoPlan]

taskVars == <<payment, packetTasks, paymentTasks, generator>>

-----------------------------------------------------------------------------
Older(age) == IF age = "fresh" THEN "week"
              ELSE IF age \in {"week", "month"} THEN "month" ELSE "never"

\* Days pass: seven after a sending, thirty after the submission.
Wait ==
    /\ Counted
    /\ packet' = [p \in Packets |-> [packet[p] EXCEPT !.sent = Older(@)]]
    /\ submitted' = Older(submitted)
    /\ UNCHANGED <<events, rows, files, shared, loadStatus, sender, mailed,
                   overlapped, taskVars>>

\* The payment reconciliation sets the record's status.
SetPayment(status) ==
    /\ Edit
    /\ payment' = status
    /\ UNCHANGED <<packet, rows, files, shared, packetTasks, paymentTasks,
                   generator>>

-----------------------------------------------------------------------------
(* generate_followups_for_load                                             *)

StoredPackets == {p \in Packets : Stored(p)}

\* A packet is due a week after it was sent, unless it was accepted.
Unanswered(p) ==
    /\ Stored(p)
    /\ packet[p].sent \in {"week", "month"}
    /\ ~packet[p].accepted

\* The load's submitted_at, or the date of whichever packet comes first.
SubmittedAges ==
    IF submitted # "never" THEN {submitted}
    ELSE IF StoredPackets = {} THEN {"never"}
    ELSE {packet[p].sent : p \in StoredPackets}

\* The payment tasks that a record that is not paid asks for.
Wanted(age) ==
    {t \in PAYMENT_TASK_TYPES :
        \/ t = "payment_overdue" /\ age = "month" /\ payment # "not_submitted"
        \/ t = "reserve_follow_up" /\ payment = "reserve_pending"
        \/ t = "partial_payment_follow_up" /\ payment = "partially_paid"
        \/ t = "short_pay_follow_up" /\ payment = "short_paid"
        \/ t = "dispute_follow_up" /\ payment = "disputed"}

\* Mutant: an open task is not looked for.
MutantMissing(wanted, count) == wanted

\* upsert_system_followup: an open task of the kind is updated, not added.
Missing(wanted, count) == {x \in wanted : count[x] = 0}

BeginGenerate(g) ==
    /\ ~generator[g].active
    /\ \E age \in SubmittedAges :
         generator' = [generator EXCEPT ![g] =
             [active |-> TRUE,
              packets |-> Missing({p \in Packets : Unanswered(p)}, packetTasks),
              payments |-> IF payment \in {"none", "paid"} THEN {}
                           ELSE Missing(Wanted(age), paymentTasks),
              paid |-> payment = "paid"]]
    /\ UNCHANGED <<packetVars, payment, packetTasks, paymentTasks>>

\* _cancel_open_payment_tasks for a paid record, or the new tasks.
PaymentTasksAfter(plan) ==
    [t \in PAYMENT_TASK_TYPES |->
        IF plan.paid THEN 0
        ELSE IF t \in plan.payments THEN paymentTasks[t] + 1
        ELSE paymentTasks[t]]

\* The organization's tasks are committed.
CommitGenerate(g) ==
    /\ generator[g].active
    /\ packetTasks' = [p \in Packets |->
           packetTasks[p] + IF p \in generator[g].packets THEN 1 ELSE 0]
    /\ paymentTasks' = PaymentTasksAfter(generator[g])
    /\ generator' = [generator EXCEPT ![g] = NoPlan]
    /\ UNCHANGED <<packetVars, payment>>

\* The task fails or its worker ends: the session is rolled back.
AbortGenerate(g) ==
    /\ generator[g].active
    /\ generator' = [generator EXCEPT ![g] = NoPlan]
    /\ UNCHANGED <<packetVars, payment, packetTasks, paymentTasks>>

\* CommitEmail closes the open tasks of the packet.
CommitEmailAndTasks(s) ==
    /\ CommitEmail(s)
    /\ packetTasks' = [packetTasks EXCEPT ![sender[s].packet] = 0]
    /\ UNCHANGED <<payment, paymentTasks, generator>>

-----------------------------------------------------------------------------
PacketStep ==
    \/ \E d \in Docs : UploadDocument(d)
    \/ \E d \in Docs : DeleteDocument(d)
    \/ \E d \in Docs : LoseFile(d)
    \/ RenumberInvoice
    \/ MoveLoad
    \/ \E p \in Packets : BeginCreate(p)
    \/ \E p \in Packets : CommitCreate(p)
    \/ \E p \in Packets, destination \in Destinations :
           MarkSent(p, destination)
    \/ \E p \in Packets : MarkAccepted(p)
    \/ \E p \in Packets, resubmission \in BOOLEAN : MarkRejected(p, resubmission)
    \/ \E s \in Senders, p \in Packets : BeginEmail(s, p)
    \/ \E s \in Senders : Deliver(s)
    \/ \E s \in Senders : Refuse(s)
    \/ \E s \in Senders : CrashEmail(s)

Next ==
    \/ PacketStep /\ UNCHANGED taskVars
    \/ \E s \in Senders : CommitEmailAndTasks(s)
    \/ Wait
    \/ \E status \in Payments : SetPayment(status)
    \/ \E g \in Generators : BeginGenerate(g)
    \/ \E g \in Generators : CommitGenerate(g)
    \/ \E g \in Generators : AbortGenerate(g)

Spec == Init /\ [][Next]_vars

-----------------------------------------------------------------------------
(* Properties.                                                             *)

\* Every mail that left carried all three required documents, whatever was
\* uploaded, deleted or lost while packets were created and sent.
OnlyCompleteMailed ==
    \A p \in Packets : \A types \in mailed[p] : REQUIRED_DOC_TYPES \subseteq types

\* The audit does not pass a packet that could not be sent, or downloaded as a
\* complete archive, but for lost files and a snapshot that is empty; a packet
\* that fails it scores at most 75, and one that passes it, at least 85.  One
\* that was e-mailed before no longer passes.
AuditForetellsSending ==
    \A p \in StoredPackets :
        LET findings == Findings(Evidence(p))
            status == AuditStatus(findings)
            score == confidence_score(Evidence(p), findings)
        IN  /\ status # "failed" /\ packet[p].snapshot # {} /\ files = rows
                  => REQUIRED_DOC_TYPES \subseteq Archive(p)
            /\ status = "failed" => score <= 75
            /\ status = "passed" =>
                  score >= 85 /\ "packet_email_sent" \notin events[p]

\* Packets leave complete, and the audit says beforehand which can
\* (OnlyCompleteMailed, AuditForetellsSending).
MailsAreComplete == OnlyCompleteMailed /\ AuditForetellsSending

\* A packet has a date of sending exactly when its trail has a sending, also
\* when it was marked, or e-mailed twice, while a mail was under way.
SentDateMatchesTrail ==
    \A p \in Packets :
        packet[p].sent # "never" <=>
            events[p] \cap {"packet_sent", "packet_email_sent"} # {}

\* The trail never records an e-mail that did not leave.  (The converse does
\* not hold: a process that ends after the mail has left records nothing.)
RecordedMailsLeft ==
    \A p \in Packets : "packet_email_sent" \in events[p] => mailed[p] # {}

\* Two packets of the load have one reference only if they were created at
\* the same time: the reference is the number of packets plus one.
ReferencesDistinct ==
    \A p, q \in Packets :
        p # q /\ Stored(p) /\ Stored(q) /\ packet[p].reference = packet[q].reference
            => {p, q} \in overlapped

\* One generation at a time never leaves two open tasks of one kind, also
\* when e-mails close tasks between its reading and its commit.
OneOpenTask ==
    /\ \A p \in Packets : packetTasks[p] <= 1
    /\ \A t \in PAYMENT_TASK_TYPES : paymentTasks[t] <= 1

\* Only packets whose sending is on record are followed up.
TaskHasSending ==
    \A p \in Packets : packetTasks[p] > 0 =>
        events[p] \cap {"packet_sent", "packet_email_sent"} # {}

\* Each sending that is on record is followed up by one open task at most, and
\* nothing else is, although a generation commits what it has read before
\* others mailed, marked or rejected (generate_follow_ups).
TasksMatchSendings == OneOpenTask /\ TaskHasSending
=============================================================================
