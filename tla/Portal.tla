------------------------------- MODULE Portal -------------------------------
(***************************************************************************)
(* The external portal (api/v1/portal.py): staff give a broker or customer *)
(* a link to one load, a signed token that nobody can take back.  Until it *)
(* expires its holder may look at the load, download from it and upload    *)
(* documents, as long as the load is still the customer's, and the         *)
(* broker's, that it was when the link was made.                           *)
(*                                                                         *)
(* An upload saves its file while other requests run; meanwhile the load   *)
(* may be given to another customer or broker.  Each other request takes   *)
(* effect in one step.  LoadDocuments has the files and the deletion of    *)
(* documents, SubmissionPackets tells when a packet can be archived.       *)
(***************************************************************************)
EXTENDS Naturals, Sequences, FiniteSets

CONSTANTS
    Uploads,      \* uploads that can be in flight at once
    Shipments,    \* loads
    Shippers,     \* customer accounts
    Brokerages, NoBrokerage,
    PaperTypes,   \* the document types that occur
    MaxPapers, MaxLinks, MaxHours    \* bounds

ASSUME BrokerageAssumption == NoBrokerage \notin Brokerages
ASSUME ShippersAssumption == Shippers # {}   \* a load has a customer
ASSUME HoursAssumption == MaxHours \in Nat

VARIABLES
    shipment,  \* customer and broker of each load
    links,     \* the links that have been made
    papers,    \* document rows, in the order of their creation
    trail,     \* portal events in the audit log, a set without their times
    upload,    \* what each upload in flight has read
    hour

portalVars == <<shipment, links, papers, trail, upload, hour>>

Shipment == [customer : Shippers, broker : Brokerages \cup {NoBrokerage}]

Link == [load : Shipments, customer : Shippers,
         broker : Brokerages \cup {NoBrokerage},
         downloads : BOOLEAN, uploads : BOOLEAN, expires : Nat]

\* by: the link that a document came through, in a set of its own, or none.
Paper == [load : Shipments, customer : Shippers, type : PaperTypes,
          by : SUBSET Link]

Event == [action : {"portal.access_link.created", "portal.load.viewed",
                    "portal.packet.downloaded", "portal.document.downloaded",
                    "portal.document.uploaded"},
          link : Link, paper : Nat]

NoUpload == [step |-> "none"]

PORTAL_DOWNLOAD_DOCUMENT_TYPES ==
    {"invoice", "rate_confirmation", "proof_of_delivery", "bill_of_lading"}

PORTAL_UPLOAD_DOCUMENT_TYPES ==
    {"rate_confirmation", "bill_of_lading", "proof_of_delivery",
     "lumper_receipt", "detention_support", "accessorial_support",
     "scale_ticket", "other"}

PortalTypeOK ==
    /\ shipment \in [Shipments -> Shipment]
    /\ links \subseteq Link /\ papers \in Seq(Paper)
    /\ trail \subseteq Event
    /\ \A u \in Uploads : upload[u] = NoUpload \/ upload[u].link \in links
    /\ hour \in 0 .. MaxHours

PortalInit ==
    /\ shipment = [load \in Shipments |->   \* to be given to any other
                      [customer |-> CHOOSE a \in Shippers : TRUE,
                       broker |-> NoBrokerage]]
    /\ links = {} /\ papers = <<>> /\ trail = {}
    /\ upload = [u \in Uploads |-> NoUpload]
    /\ hour = 0

-----------------------------------------------------------------------------
(* The staff.                                                              *)

\* _log_portal_event
Logged(action, link, n) == trail \cup {[action |-> action, link |-> link, paper |-> n]}

\* The link holds what the load is when it is made.
CreateAccessLink(load, downloads, uploads, expires) ==
    LET link == [load |-> load, customer |-> shipment[load].customer,
                 broker |-> shipment[load].broker,
                 downloads |-> downloads, uploads |-> uploads, expires |-> expires]
    IN  /\ Cardinality(links) < MaxLinks
        /\ links' = links \cup {link}
        /\ trail' = Logged("portal.access_link.created", link, 0)
        /\ UNCHANGED <<shipment, papers, upload, hour>>

\* PATCH /loads: a broker that is left out is cleared.
GiveLoad(load, customer, broker) ==
    /\ shipment' = [shipment EXCEPT ![load] =
                      [customer |-> customer, broker |-> broker]]
    /\ UNCHANGED <<links, papers, trail, upload, hour>>

\* POST /documents: the customer is the one that the client names.
CreateDocument(load, customer, type) ==
    /\ Len(papers) < MaxPapers
    /\ papers' = Append(papers, [load |-> load, customer |-> customer,
                                 type |-> type, by |-> {}])
    /\ UNCHANGED <<shipment, links, trail, upload, hour>>

\* POST /documents/{id}/link: the document stays its customer's.
AttachToLoad(n, load) ==
    /\ papers' = [papers EXCEPT ![n].load = load]
    /\ UNCHANGED <<shipment, links, trail, upload, hour>>

-----------------------------------------------------------------------------
(* The holder of a link.                                                   *)

\* decode_token
Valid(link) == link \in links /\ hour < link.expires

\* _get_scoped_load: a link that was made for no broker works for any.
InScope(link) ==
    LET now == shipment[link.load]
    IN  /\ now.customer = link.customer
        /\ link.broker # NoBrokerage => now.broker = link.broker

\* _assert_load_id_scope and the checks of the token
Authorized(link, load) == Valid(link) /\ load = link.load /\ InScope(link)

\* _latest_documents_for_load, whatever their types
PapersOf(load) == {n \in DOMAIN papers : papers[n].load = load}

GetPortalLoad(link, load) ==
    /\ Authorized(link, load)
    /\ trail' = Logged("portal.load.viewed", link, 0)
    /\ UNCHANGED <<shipment, links, papers, upload, hour>>

\* The archive has been built when the event is written.
DownloadPortalPacket(link, load) ==
    /\ Authorized(link, load) /\ link.downloads
    /\ trail' = Logged("portal.packet.downloaded", link, 0)
    /\ UNCHANGED <<shipment, links, papers, upload, hour>>

\* The event is written before the file is looked for.
DownloadPortalDocument(link, load, n) ==
    /\ Authorized(link, load)
    /\ n \in PapersOf(load)
    /\ papers[n].type \in PORTAL_DOWNLOAD_DOCUMENT_TYPES
    /\ trail' = Logged("portal.document.downloaded", link, n)
    /\ UNCHANGED <<shipment, links, papers, upload, hour>>

\* upload_portal_document, up to the await of the file.
BeginUpload(u, link, load, type) ==
    /\ upload[u] = NoUpload
    /\ Authorized(link, load) /\ link.uploads
    /\ type \in PORTAL_UPLOAD_DOCUMENT_TYPES
    /\ upload' = [upload EXCEPT ![u] =
         [step |-> "saving", link |-> link, type |-> type,
          customer |-> shipment[load].customer]]
    /\ UNCHANGED <<shipment, links, papers, trail, hour>>

\* Mutant: the load is read after the file has been saved.
MutantNewPaper(u) ==
    [load |-> upload[u].link.load,
     customer |-> shipment[upload[u].link.load].customer,
     type |-> upload[u].type, by |-> {upload[u].link}]

\* create_document, of the load as it was read.
NewPaper(u) ==
    [load |-> upload[u].link.load, customer |-> upload[u].customer,
     type |-> upload[u].type, by |-> {upload[u].link}]

\* Document and event are one commit.
CommitUpload(u) ==
    /\ upload[u] # NoUpload /\ Len(papers) < MaxPapers
    /\ papers' = Append(papers, NewPaper(u))
    /\ trail' = Logged("portal.document.uploaded", upload[u].link, Len(papers'))
    /\ upload' = [upload EXCEPT ![u] = NoUpload]
    /\ UNCHANGED <<shipment, links, hour>>

\* An error, after which the file is deleted, or the end of the process.
FailUpload(u) ==
    /\ upload[u] # NoUpload
    /\ upload' = [upload EXCEPT ![u] = NoUpload]
    /\ UNCHANGED <<shipment, links, papers, trail, hour>>

PassHour ==
    /\ hour < MaxHours /\ hour' = hour + 1
    /\ UNCHANGED <<shipment, links, papers, trail, upload>>

PortalNext ==
    \/ \E load \in Shipments :
          \/ \E downloads, uploads \in BOOLEAN, expires \in 1 .. MaxHours :
                 CreateAccessLink(load, downloads, uploads, expires)
          \/ \E customer \in Shippers, broker \in Brokerages \cup {NoBrokerage} :
                 GiveLoad(load, customer, broker)
          \/ \E customer \in Shippers, type \in PaperTypes :
                 CreateDocument(load, customer, type)
          \/ \E n \in DOMAIN papers : AttachToLoad(n, load)
          \/ \E link \in links :
                \/ GetPortalLoad(link, load)
                \/ DownloadPortalPacket(link, load)
                \/ \E n \in DOMAIN papers : DownloadPortalDocument(link, load, n)
                \/ \E u \in Uploads, type \in PaperTypes :
                       BeginUpload(u, link, load, type)
    \/ \E u \in Uploads : CommitUpload(u) \/ FailUpload(u)
    \/ PassHour

PortalSpec == PortalInit /\ [][PortalNext]_portalVars

-----------------------------------------------------------------------------
(* Properties.                                                             *)

\* A document that came through a link belongs to the customer who was given
\* the link, also when the load was given to another while its file was being
\* saved and whatever load it has been moved to since; the audit log names it
\* with its link, and names no upload that failed (upload_portal_document).
PortalPapersAgree ==
    /\ \A n \in DOMAIN papers : \A link \in papers[n].by :
          /\ papers[n].customer = link.customer
          /\ link.uploads
          /\ [action |-> "portal.document.uploaded", link |-> link, paper |-> n]
                 \in trail
    /\ \A e \in trail : e.action = "portal.document.uploaded" =>
          e.paper \in DOMAIN papers /\ papers[e.paper].by = {e.link}
=============================================================================
