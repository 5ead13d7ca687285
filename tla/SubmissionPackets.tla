------------------------- MODULE SubmissionPackets -------------------------
(***************************************************************************)
(* The submission packets of one load: creation from the load's documents  *)
(* (services/loads/submission_packet_service.py), marking sent, accepted   *)
(* and rejected, and sending by e-mail (api/v1/loads.py) behind the audit  *)
(* of services/packet_intelligence/packet_audit_service.py.                *)
(*                                                                         *)
(* A document row is a number, a later one being a later upload, and has   *)
(* one of four types; the types after the bill of lading only add          *)
(* attachments.  A packet's row keeps what the code branches on; dates are *)
(* the age of the event, in the steps that the follow-ups distinguish.     *)
(*                                                                         *)
(* A creation reads the documents and the number of packets, and commits   *)
(* later.  An e-mail request reads the packet, the documents and the audit *)
(* and hands the mail to the server before it writes and commits anything, *)
(* so that other requests, or the end of the process, come in between.     *)
(***************************************************************************)
EXTENDS PacketAudit

CONSTANTS
    Packets,    \* the packets that may be created
    Docs,       \* the document rows, by time of upload: a set of numbers
    TypeOf,     \* the type of each row
    Fields,     \* what was extracted from each row
    LoadData,   \* the load's amount, reference, notes and confidence
    Funded,     \* what its payment record says was paid, or NoValue
    Senders,    \* e-mail requests
    Destinations, \* the destinations that packets are marked sent to
    InitialDocs, \* the rows that the load has at first
    MaxEdits    \* bound on the edits: all that happens but creations,
                \* e-mails and generations

DocType ==
    {"invoice", "rate_confirmation", "proof_of_delivery", "bill_of_lading",
     "lumper_receipt"}

ASSUME DocsAssumption ==
    /\ Docs \subseteq Nat /\ TypeOf \in [Docs -> DocType]
    /\ InitialDocs \subseteq Docs /\ IsFiniteSet(InitialDocs)
ASSUME FieldsAssumption == Fields \in [Docs -> Field]
ASSUME EditsAssumption == MaxEdits \in Nat

VARIABLES
    packet,       \* the rows of submission_packets
    events,       \* the kinds of submission_events of each packet
    rows,         \* the load's document rows
    files,        \* the rows whose file is in the storage
    shared,       \* does another load have this load's invoice number?
    loadStatus,   \* of the load: is it one of the submitted statuses?
    submitted,    \* the age of the load's submitted_at
    sender,       \* the e-mail requests
    mailed,       \* the required types that each mail carried that left, per packet
    overlapped,   \* history: the pairs of packets created at the same time
    edits         \* edits made so far

packetVars ==
    <<packet, events, rows, files, shared, loadStatus, submitted, sender,
      mailed, overlapped, edits>>

REQUIRED_DOC_TYPES == {"invoice", "rate_confirmation", "proof_of_delivery"}

Age == {"never", "fresh", "week", "month"}

\* The events that the properties tell apart: those of attempts that failed
\* are left out, and the decisions are in the packet's row.
Event == {"packet_created", "packet_sent", "packet_email_sent"}

Status == {"none", "creating", "ready", "sent", "accepted", "rejected",
           "resubmission_required"}

Packet == [status : Status, reference : Nat, snapshot : SUBSET Docs,
           sent : Age, accepted : BOOLEAN, rejected : BOOLEAN]

NoPacket == [status |-> "none", reference |-> 0, snapshot |-> {},
             sent |-> "never", accepted |-> FALSE, rejected |-> FALSE]

Idle == [at |-> "idle"]
Sending == [at : {"sending", "delivered"}, packet : Packets,
            markedSent : BOOLEAN, dated : BOOLEAN,
            types : SUBSET REQUIRED_DOC_TYPES]

TypeOK ==
    /\ packet \in [Packets -> Packet]
    /\ events \in [Packets -> SUBSET Event]
    /\ files \subseteq rows /\ rows \subseteq Docs
    /\ shared \in BOOLEAN
    /\ loadStatus \in {"other", "submitted_to_broker", "submitted_to_factoring"}
    /\ submitted \in Age
    /\ sender \in [Senders -> Sending \cup {Idle}]
    /\ mailed \in [Packets -> SUBSET SUBSET REQUIRED_DOC_TYPES]
    /\ overlapped \subseteq SUBSET Packets
    /\ edits \in 0 .. MaxEdits

PacketsInit ==
    /\ packet = [p \in Packets |-> NoPacket]
    /\ events = [p \in Packets |-> {}]
    /\ rows = InitialDocs /\ files = InitialDocs
    /\ shared = FALSE
    /\ loadStatus = "other" /\ submitted = "never"
    /\ sender = [s \in Senders |-> Idle]
    /\ mailed = [p \in Packets |-> {}]
    /\ overlapped = {}
    /\ edits = 0

Stored(p) == packet[p].status \notin {"none", "creating"}
TypesOf(D) == {TypeOf[d] : d \in D}

-----------------------------------------------------------------------------
(* What other components do to the load.                                   *)

Counted == edits < MaxEdits /\ edits' = edits + 1

Edit ==
    /\ Counted
    /\ UNCHANGED <<events, loadStatus, submitted, sender, mailed, overlapped>>

UploadDocument(d) ==
    /\ Edit
    /\ d \notin rows
    /\ \A e \in rows : TypeOf[e] = TypeOf[d] => e < d
    /\ rows' = rows \cup {d} /\ files' = files \cup {d}
    /\ UNCHANGED <<packet, shared>>

\* The document's row, its snapshot rows and later its file are deleted.
DeleteDocument(d) ==
    /\ Edit
    /\ d \in rows
    /\ rows' = rows \ {d} /\ files' = files \ {d}
    /\ packet' = [p \in Packets |->
           IF Stored(p) THEN [packet[p] EXCEPT !.snapshot = @ \ {d}]
           ELSE packet[p]]
    /\ UNCHANGED shared

LoseFile(d) ==
    /\ Edit
    /\ d \in files
    /\ files' = files \ {d}
    /\ UNCHANGED <<packet, rows, shared>>

\* Another load takes, or gives up, this load's invoice number.
RenumberInvoice ==
    /\ Edit
    /\ shared' = ~shared
    /\ UNCHANGED <<packet, rows, files>>

\* The workflow or the reconciliation moves the load on.
MoveLoad ==
    /\ Counted
    /\ loadStatus # "other"
    /\ loadStatus' = "other"
    /\ UNCHANGED <<packet, events, rows, files, shared, submitted, sender,
                   mailed, overlapped>>

-----------------------------------------------------------------------------
(* Creation.                                                               *)

Creating == {p \in Packets : packet[p].status = "creating"}

\* _next_packet_reference
NextReference == Cardinality({q \in Packets : Stored(q)}) + 1

\* create_packet_from_load reads the documents and counts the packets.
BeginCreate(p) ==
    /\ packet[p] = NoPacket
    /\ REQUIRED_DOC_TYPES \subseteq TypesOf(rows)
    /\ packet' = [packet EXCEPT ![p] =
           [NoPacket EXCEPT !.status = "creating", !.snapshot = rows,
                            !.reference = NextReference]]
    /\ overlapped' = overlapped \cup {{p, q} : q \in Creating}
    /\ UNCHANGED <<events, rows, files, shared, loadStatus, submitted, sender,
                   mailed, edits>>

\* The packet, its snapshot and its event are committed.  A snapshot row of a
\* document that is gone violates its foreign key, and the request fails.
CommitCreate(p) ==
    /\ packet[p].status = "creating"
    /\ IF packet[p].snapshot \subseteq rows
       THEN /\ packet' = [packet EXCEPT ![p].status = "ready"]
            /\ events' = [events EXCEPT ![p] = {"packet_created"}]
       ELSE /\ packet' = [packet EXCEPT ![p] = NoPacket]
            /\ UNCHANGED events
    /\ overlapped' = IF packet[p].snapshot \subseteq rows THEN overlapped
                     ELSE {pair \in overlapped : p \notin pair}
    /\ UNCHANGED <<rows, files, shared, loadStatus, submitted, sender, mailed,
                   edits>>

-----------------------------------------------------------------------------
(* Marking.  Each of these reads and commits at once, and from any status. *)

\* _sync_status_timestamps, for the submitted statuses
SubmittedAt(status) ==
    IF status # loadStatus /\ submitted = "never" THEN "fresh" ELSE submitted

\* mark_sent: the packet and the load's status afterwards, whatever they were.
mark_sent(p, destination) ==
    [packet |-> [packet[p] EXCEPT !.sent = "fresh", !.status = "sent"],
     load |-> IF destination = "factoring" THEN "submitted_to_factoring"
              ELSE IF destination \in {"broker", "customer_ap"}
              THEN "submitted_to_broker" ELSE loadStatus]

\* mark_submission_packet_sent
MarkSent(p, destination) ==
    /\ Counted
    /\ Stored(p)
    /\ packet' = [packet EXCEPT ![p] = mark_sent(p, destination).packet]
    /\ events' = [events EXCEPT ![p] = @ \cup {"packet_sent"}]
    /\ loadStatus' = mark_sent(p, destination).load
    /\ submitted' = SubmittedAt(loadStatus')
    /\ UNCHANGED <<rows, files, shared, sender, mailed, overlapped>>

Mark(p, row) ==
    /\ Counted
    /\ Stored(p)
    /\ packet' = [packet EXCEPT ![p] = row]
    /\ UNCHANGED <<events, rows, files, shared, loadStatus, submitted, sender,
                   mailed, overlapped>>

MarkAccepted(p) ==
    Mark(p, [packet[p] EXCEPT !.status = "accepted", !.accepted = TRUE])

MarkRejected(p, resubmission) ==
    Mark(p, [packet[p] EXCEPT
                 !.status = IF resubmission THEN "resubmission_required" ELSE "rejected",
                 !.rejected = TRUE])

-----------------------------------------------------------------------------
(* E-mail.                                                                 *)

\* _resolve_download_document: the newest row of a type whose file exists.
\* (Not necessarily the one in the packet's snapshot.)
Resolved(type) ==
    {d \in files : TypeOf[d] = type /\ \A e \in files : TypeOf[e] = type => e <= d}

\* Mutant: a required document without a file is left out, as others are.
MutantAttachable(p) == REQUIRED_DOC_TYPES \subseteq TypesOf(packet[p].snapshot)

\* build_packet_email_attachments does not raise.
Attachable(p) ==
    /\ REQUIRED_DOC_TYPES \subseteq TypesOf(packet[p].snapshot)
    /\ \A type \in REQUIRED_DOC_TYPES : Resolved(type) # {}

Attached == {type \in DocType : Resolved(type) # {}}

\* build_packet_zip: the archive that download_submission_packet_zip answers,
\* one numbered file per attachment, or nothing when they cannot be built.
Archive(p) ==
    IF Attachable(p) THEN Attached ELSE {}

\* What audit_load reads for the packet.
Evidence(p) ==
    [rows |-> rows, snapshot |-> packet[p].snapshot, type |-> TypeOf,
     field |-> Fields, load |-> LoadData, funded |-> Funded,
     duplicate |-> shared, emailed |-> "packet_email_sent" \in events[p]]

\* has_blocking_findings
Blocked(p) == AuditStatus(Findings(Evidence(p))) = "failed"

\* send_submission_packet_email, up to the mail server; otherwise it fails.
BeginEmail(s, p) ==
    /\ sender[s] = Idle
    /\ Stored(p)
    /\ Attachable(p) /\ ~Blocked(p)
    /\ sender' = [sender EXCEPT ![s] =
           [at |-> "sending", packet |-> p,
            markedSent |-> packet[p].status = "sent",
            dated |-> packet[p].sent # "never", types |-> Attached \cap REQUIRED_DOC_TYPES]]
    /\ UNCHANGED <<packet, events, rows, files, shared, loadStatus, submitted,
                   mailed, overlapped, edits>>

\* The mail server takes the mail, and it is on its way.
Deliver(s) ==
    /\ sender[s].at = "sending"
    /\ sender' = [sender EXCEPT ![s].at = "delivered", ![s].types = {}]
    /\ mailed' = [mailed EXCEPT ![sender[s].packet] = @ \cup {sender[s].types}]
    /\ UNCHANGED <<packet, events, rows, files, shared, loadStatus, submitted,
                   overlapped, edits>>

\* The mail server refuses the mail, or mail is disabled: the failure is
\* answered and the packet stays as it is.
Refuse(s) ==
    /\ sender[s].at = "sending"
    /\ sender' = [sender EXCEPT ![s] = Idle]
    /\ UNCHANGED <<packet, events, rows, files, shared, loadStatus, submitted,
                   mailed, overlapped, edits>>

\* Mutant: the date is left as it is.
MutantAfterEmail(row, seen) ==
    [row EXCEPT !.status = IF seen.markedSent THEN @ ELSE "sent"]

\* What the accepted mail changes in the packet's row: only the columns that
\* differ from what the request read are written.
AfterEmail(row, seen) ==
    [row EXCEPT !.status = IF seen.markedSent THEN @ ELSE "sent",
                !.sent = IF seen.dated THEN @ ELSE "fresh"]

\* The rest of the handler, after the mail server has taken the mail.
CommitEmail(s) ==
    /\ sender[s].at = "delivered"
    /\ LET p == sender[s].packet
       IN  /\ packet' = [packet EXCEPT ![p] = AfterEmail(@, sender[s])]
           /\ events' = [events EXCEPT ![p] = @ \cup {"packet_email_sent"}]
    /\ sender' = [sender EXCEPT ![s] = Idle]
    /\ UNCHANGED <<rows, files, shared, loadStatus, submitted, mailed,
                   overlapped, edits>>

\* The process ends between reading and commit: nothing is recorded.
CrashEmail(s) ==
    /\ sender[s] # Idle
    /\ sender' = [sender EXCEPT ![s] = Idle]
    /\ UNCHANGED <<packet, events, rows, files, shared, loadStatus, submitted,
                   mailed, overlapped, edits>>
=============================================================================
