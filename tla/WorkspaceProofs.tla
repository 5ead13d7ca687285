-------------------------- MODULE WorkspaceProofs --------------------------
(***************************************************************************)
(* Proofs about what serves a workspace beside its loads: the portal, the  *)
(* billing of its customers and their subscriptions, the validation issues *)
(* and their queue, and the rate limiter.                                  *)
(***************************************************************************)
EXTENDS Portal, BillingAccount, CustomerSubscriptions, ReviewQueue,
        RateLimiter, FiniteSetTheorems, WellFoundedInduction, TLAPS

-----------------------------------------------------------------------------
(* Sequences: what an addition and an update keep.                         *)

LEMMA SeqParts ==
    ASSUME NEW S, NEW s \in Seq(S)
    PROVE  /\ Len(s) \in Nat /\ DOMAIN s = 1..Len(s)
           /\ \A i \in DOMAIN s : s[i] \in S
  OBVIOUS

LEMMA AppendParts ==
    ASSUME NEW S, NEW s \in Seq(S), NEW e \in S
    PROVE  /\ Append(s, e) \in Seq(S) /\ Len(Append(s, e)) = Len(s) + 1
           /\ Append(s, e)[Len(s) + 1] = e
           /\ \A i \in DOMAIN s : Append(s, e)[i] = s[i]
           /\ DOMAIN Append(s, e) = DOMAIN s \cup {Len(s) + 1}
  OBVIOUS

LEMMA ExceptParts ==
    ASSUME NEW S, NEW s \in Seq(S), NEW i \in DOMAIN s, NEW e \in S
    PROVE  /\ [s EXCEPT ![i] = e] \in Seq(S)
           /\ Len([s EXCEPT ![i] = e]) = Len(s)
           /\ DOMAIN [s EXCEPT ![i] = e] = DOMAIN s
           /\ [s EXCEPT ![i] = e][i] = e
           /\ \A j \in DOMAIN s \ {i} : [s EXCEPT ![i] = e][j] = s[j]
  OBVIOUS

LEMMA FunctionIsSeq ==
    ASSUME NEW S, NEW n \in Nat, NEW f \in [1..n -> S]
    PROVE  f \in Seq(S) /\ Len(f) = n /\ DOMAIN f = 1..n
  OBVIOUS

-----------------------------------------------------------------------------
(* The portal.                                                             *)

\* An upload in flight holds a link that has been made and allows uploads, and
\* the customer of the link, whoever the load has been given to since.
Saving == [step : {"saving"}, link : Link, type : PaperTypes, customer : Shippers]

UploadsInScope ==
    /\ upload \in [Uploads -> {NoUpload} \cup Saving]
    /\ \A u \in Uploads : upload[u] # NoUpload =>
          /\ upload[u] \in Saving
          /\ upload[u].link \in links
          /\ upload[u].link.uploads
          /\ upload[u].customer = upload[u].link.customer

PortalInv == PortalTypeOK /\ UploadsInScope /\ PortalPapersAgree

LEMMA SavingIsUpload == \A w \in Saving : w # NoUpload
  <1>1. NoUpload.step = "none" /\ \A w \in Saving : w.step = "saving"
    BY DEF NoUpload, Saving
  <1> QED  BY <1>1

LEMMA PortalInitInv == PortalInit => PortalInv
  <1> SUFFICES ASSUME PortalInit PROVE PortalInv  OBVIOUS
  <1>1. (CHOOSE a \in Shippers : TRUE) \in Shippers
    BY ShippersAssumption
  <1>2. shipment \in [Shipments -> Shipment]
    BY <1>1 DEF PortalInit, Shipment
  <1>3. PortalTypeOK
    BY <1>2, HoursAssumption DEF PortalInit, PortalTypeOK
  <1>4. UploadsInScope /\ PortalPapersAgree
    BY DEF PortalInit, UploadsInScope, PortalPapersAgree
  <1> QED  BY <1>3, <1>4 DEF PortalInv

\* A view or a download writes an event of its own kind.
LEMMA LoggedKeeps ==
    ASSUME PortalInv, NEW action \in {"portal.access_link.created",
               "portal.load.viewed", "portal.packet.downloaded",
               "portal.document.downloaded"},
           NEW link \in Link, NEW n \in Nat, trail' = Logged(action, link, n),
           links \subseteq links', links' \subseteq links \cup {link},
           UNCHANGED <<shipment, papers, upload, hour>>
    PROVE  PortalInv'
  <1> DEFINE e == [action |-> action, link |-> link, paper |-> n]
  <1>1. e \in Event /\ e.action # "portal.document.uploaded"
    BY DEF Event
  <1>2. trail' = trail \cup {e}
    BY DEF Logged
  <1> HIDE DEF e
  <1>3. PortalTypeOK'
    BY <1>1, <1>2 DEF PortalInv, PortalTypeOK
  <1>4. UploadsInScope'
    BY DEF PortalInv, UploadsInScope
  <1>5. PortalPapersAgree'
    BY <1>1, <1>2 DEF PortalInv, PortalPapersAgree
  <1> QED  BY <1>3, <1>4, <1>5 DEF PortalInv

LEMMA CreateAccessLinkKeeps ==
    ASSUME PortalInv, NEW load \in Shipments, NEW downloads \in BOOLEAN,
           NEW uploads \in BOOLEAN, NEW expires \in 1 .. MaxHours,
           CreateAccessLink(load, downloads, uploads, expires)
    PROVE  PortalInv'
  <1> DEFINE link == [load |-> load, customer |-> shipment[load].customer,
                      broker |-> shipment[load].broker,
                      downloads |-> downloads, uploads |-> uploads,
                      expires |-> expires]
  <1>1. shipment[load] \in Shipment
    BY DEF PortalInv, PortalTypeOK
  <1>2. link \in Link
    BY <1>1, HoursAssumption DEF Link, Shipment
  <1>3. /\ links' = links \cup {link}
        /\ trail' = Logged("portal.access_link.created", link, 0)
        /\ UNCHANGED <<shipment, papers, upload, hour>>
    BY DEF CreateAccessLink
  <1> HIDE DEF link
  <1> QED  BY <1>2, <1>3, LoggedKeeps

LEMMA GiveLoadKeeps ==
    ASSUME PortalInv, NEW load \in Shipments, NEW customer \in Shippers,
           NEW broker \in Brokerages \cup {NoBrokerage},
           GiveLoad(load, customer, broker)
    PROVE  PortalInv'
  <1>1. shipment' \in [Shipments -> Shipment]
    BY DEF GiveLoad, Shipment, PortalInv, PortalTypeOK
  <1>2. UNCHANGED <<links, papers, trail, upload, hour>>
    BY DEF GiveLoad
  <1> QED
    BY <1>1, <1>2 DEF PortalInv, PortalTypeOK, UploadsInScope, PortalPapersAgree

\* A document is added that came through no link, or through one and as the
\* event says.
LEMMA AppendKeeps ==
    ASSUME PortalInv, NEW p \in Paper, papers' = Append(papers, p),
           \A link \in p.by :
              /\ p.customer = link.customer /\ link.uploads
              /\ [action |-> "portal.document.uploaded", link |-> link,
                  paper |-> Len(papers) + 1] \in trail',
           trail' \subseteq Event, trail \subseteq trail',
           \A e \in trail' \ trail :
              e.paper = Len(papers) + 1 /\ p.by = {e.link},
           UNCHANGED <<shipment, links, hour>>, UploadsInScope',
           \A u \in Uploads : upload'[u] \in {upload[u], NoUpload}
    PROVE  PortalInv'
  <1>1. /\ papers' \in Seq(Paper) /\ DOMAIN papers' = DOMAIN papers \cup {Len(papers) + 1}
        /\ papers'[Len(papers) + 1] = p
        /\ \A n \in DOMAIN papers : papers'[n] = papers[n]
    BY AppendParts DEF PortalInv, PortalTypeOK
  <1>2. PortalTypeOK'
    BY <1>1 DEF PortalInv, PortalTypeOK
  <1>3. PortalPapersAgree'
    <2>1. \A n \in DOMAIN papers' : \A link \in papers'[n].by :
             /\ papers'[n].customer = link.customer
             /\ link.uploads
             /\ [action |-> "portal.document.uploaded", link |-> link, paper |-> n]
                    \in trail'
      <3> SUFFICES ASSUME NEW n \in DOMAIN papers', NEW link \in papers'[n].by
                   PROVE  /\ papers'[n].customer = link.customer
                          /\ link.uploads
                          /\ [action |-> "portal.document.uploaded",
                              link |-> link, paper |-> n] \in trail'
        OBVIOUS
      <3>1. CASE n \in DOMAIN papers
        <4>1. papers'[n] = papers[n]
          BY <1>1, <3>1
        <4> QED  BY <3>1, <4>1 DEF PortalInv, PortalPapersAgree
      <3>2. CASE n = Len(papers) + 1
        <4>1. papers'[n] = p
          BY <1>1, <3>2
        <4> QED  BY <3>2, <4>1
      <3> QED  BY <1>1, <3>1, <3>2
    <2>2. \A e \in trail' : e.action = "portal.document.uploaded" =>
             e.paper \in DOMAIN papers' /\ papers'[e.paper].by = {e.link}
      BY <1>1 DEF PortalInv, PortalPapersAgree
    <2> QED  BY <2>1, <2>2 DEF PortalPapersAgree
  <1> QED  BY <1>2, <1>3 DEF PortalInv

LEMMA CreateDocumentKeeps ==
    ASSUME PortalInv, NEW load \in Shipments, NEW customer \in Shippers,
           NEW type \in PaperTypes, CreateDocument(load, customer, type)
    PROVE  PortalInv'
  <1> DEFINE p == [load |-> load, customer |-> customer, type |-> type, by |-> {}]
  <1>1. p \in Paper /\ p.by = {}
    BY DEF Paper
  <1>2. papers' = Append(papers, p) /\ UNCHANGED <<shipment, links, trail, upload, hour>>
    BY DEF CreateDocument
  <1> HIDE DEF p
  <1>3. UploadsInScope' /\ trail' \subseteq Event
    BY <1>2 DEF PortalInv, UploadsInScope, PortalTypeOK
  <1> QED  BY <1>1, <1>2, <1>3, AppendKeeps

LEMMA AttachKeeps ==
    ASSUME PortalInv, NEW load \in Shipments, NEW n \in DOMAIN papers,
           AttachToLoad(n, load)
    PROVE  PortalInv'
  <1> DEFINE p == [papers[n] EXCEPT !.load = load]
  <1>1. papers[n] \in Paper
    BY SeqParts DEF PortalInv, PortalTypeOK
  <1>2. p \in Paper /\ p.by = papers[n].by /\ p.customer = papers[n].customer
    BY <1>1 DEF Paper
  <1>3. papers' = [papers EXCEPT ![n] = p] /\ UNCHANGED <<shipment, links, trail, upload, hour>>
    BY DEF AttachToLoad
  <1> HIDE DEF p
  <1>4. /\ papers' \in Seq(Paper) /\ DOMAIN papers' = DOMAIN papers
        /\ papers'[n] = p
        /\ \A m \in DOMAIN papers \ {n} : papers'[m] = papers[m]
    BY <1>2, <1>3, ExceptParts DEF PortalInv, PortalTypeOK
  <1>5. PortalTypeOK' /\ UploadsInScope'
    BY <1>3, <1>4 DEF PortalInv, PortalTypeOK, UploadsInScope
  <1>6. \A m \in DOMAIN papers : /\ papers'[m].by = papers[m].by
                                 /\ papers'[m].customer = papers[m].customer
    BY <1>2, <1>4
  <1>7. PortalPapersAgree'
    BY <1>3, <1>4, <1>6 DEF PortalInv, PortalPapersAgree
  <1> QED  BY <1>5, <1>7 DEF PortalInv

LEMMA BeginUploadKeeps ==
    ASSUME PortalInv, NEW u \in Uploads, NEW link \in links,
           NEW load \in Shipments, NEW type \in PaperTypes,
           BeginUpload(u, link, load, type)
    PROVE  PortalInv'
  <1> DEFINE w == [step |-> "saving", link |-> link, type |-> type,
                   customer |-> shipment[load].customer]
  <1>1. link \in Link /\ shipment[load] \in Shipment
    BY DEF PortalInv, PortalTypeOK
  <1>2. /\ shipment[load].customer = link.customer /\ link.uploads
        /\ upload' = [upload EXCEPT ![u] = w]
        /\ UNCHANGED <<shipment, links, papers, trail, hour>>
    BY DEF BeginUpload, Authorized, InScope
  <1>3. w \in Saving /\ w.link = link /\ w.customer = link.customer
    BY <1>1, <1>2 DEF Saving, Shipment
  <1> HIDE DEF w
  <1>4. /\ upload' \in [Uploads -> {NoUpload} \cup Saving]
        /\ upload'[u] = w
        /\ \A v \in Uploads \ {u} : upload'[v] = upload[v]
    BY <1>2, <1>3 DEF PortalInv, UploadsInScope
  <1>5. UploadsInScope'
    BY <1>2, <1>3, <1>4 DEF PortalInv, UploadsInScope
  <1>6. PortalTypeOK'
    BY <1>2, <1>5 DEF PortalInv, PortalTypeOK, UploadsInScope
  <1> QED  BY <1>2, <1>5, <1>6 DEF PortalInv, PortalPapersAgree

\* The upload ends.
LEMMA UploadEnds ==
    ASSUME PortalInv, NEW u \in Uploads, upload' = [upload EXCEPT ![u] = NoUpload],
           UNCHANGED links
    PROVE  UploadsInScope' /\ \A v \in Uploads : upload'[v] \in {upload[v], NoUpload}
  BY DEF PortalInv, UploadsInScope

LEMMA CommitUploadKeeps ==
    ASSUME PortalInv, NEW u \in Uploads, CommitUpload(u)
    PROVE  PortalInv'
  <1> DEFINE p == NewPaper(u)
             e == [action |-> "portal.document.uploaded", link |-> upload[u].link,
                   paper |-> Len(papers) + 1]
  <1>1. /\ upload[u] \in Saving /\ upload[u].link \in links /\ upload[u].link.uploads
        /\ upload[u].customer = upload[u].link.customer
    BY DEF CommitUpload, PortalInv, UploadsInScope
  <1>2. upload[u].link \in Link /\ Len(papers) \in Nat
    BY <1>1 DEF PortalInv, PortalTypeOK
  <1>3. p \in Paper /\ p.by = {upload[u].link} /\ p.customer = upload[u].customer
    BY <1>1, <1>2 DEF NewPaper, Paper, Saving, Link
  <1>4. papers' = Append(papers, p) /\ UNCHANGED <<shipment, links, hour>>
    BY DEF CommitUpload
  <1> HIDE DEF p
  <1>5. Len(papers') = Len(papers) + 1
    BY <1>3, <1>4, AppendParts DEF PortalInv, PortalTypeOK
  <1>6. trail' = trail \cup {e}
    BY <1>5 DEF CommitUpload, Logged
  <1>7. e \in Event /\ e.paper = Len(papers) + 1 /\ e.link = upload[u].link
    BY <1>2 DEF Event
  <1>8. trail' \subseteq Event
    BY <1>6, <1>7 DEF PortalInv, PortalTypeOK
  <1>9. UploadsInScope' /\ \A v \in Uploads : upload'[v] \in {upload[v], NoUpload}
    BY UploadEnds DEF CommitUpload
  <1>10. \A link \in p.by :
            /\ p.customer = link.customer /\ link.uploads
            /\ [action |-> "portal.document.uploaded", link |-> link,
                paper |-> Len(papers) + 1] \in trail'
    BY <1>1, <1>3, <1>6
  <1>11. \A f \in trail' \ trail : f.paper = Len(papers) + 1 /\ p.by = {f.link}
    BY <1>3, <1>6, <1>7
  <1> HIDE DEF e
  <1> QED  BY <1>3, <1>4, <1>6, <1>8, <1>9, <1>10, <1>11, AppendKeeps

LEMMA PortalNextKeeps ==
    ASSUME PortalInv, [PortalNext]_portalVars
    PROVE  PortalInv'
  <1>1. CASE UNCHANGED portalVars
    BY <1>1 DEF portalVars, PortalInv, PortalTypeOK, UploadsInScope, PortalPapersAgree
  <1>2. CASE PortalNext
    <2>1. ASSUME NEW load \in Shipments, NEW downloads \in BOOLEAN,
                 NEW uploads \in BOOLEAN, NEW expires \in 1 .. MaxHours,
                 CreateAccessLink(load, downloads, uploads, expires)
          PROVE  PortalInv'
      BY <2>1, CreateAccessLinkKeeps
    <2>2. ASSUME NEW load \in Shipments, NEW customer \in Shippers,
                 NEW broker \in Brokerages \cup {NoBrokerage},
                 GiveLoad(load, customer, broker)
          PROVE  PortalInv'
      BY <2>2, GiveLoadKeeps
    <2>3. ASSUME NEW load \in Shipments, NEW customer \in Shippers,
                 NEW type \in PaperTypes, CreateDocument(load, customer, type)
          PROVE  PortalInv'
      BY <2>3, CreateDocumentKeeps
    <2>4. ASSUME NEW load \in Shipments, NEW n \in DOMAIN papers,
                 AttachToLoad(n, load)
          PROVE  PortalInv'
      BY <2>4, AttachKeeps
    <2>5. ASSUME NEW load \in Shipments, NEW link \in links,
                 \/ GetPortalLoad(link, load)
                 \/ DownloadPortalPacket(link, load)
                 \/ \E n \in DOMAIN papers : DownloadPortalDocument(link, load, n)
          PROVE  PortalInv'
      <3>1. link \in Link /\ \A n \in DOMAIN papers : n \in Nat
        BY SeqParts DEF PortalInv, PortalTypeOK
      <3> QED
        BY <2>5, <3>1, LoggedKeeps
        DEF GetPortalLoad, DownloadPortalPacket, DownloadPortalDocument
    <2>6. ASSUME NEW load \in Shipments, NEW link \in links, NEW u \in Uploads,
                 NEW type \in PaperTypes, BeginUpload(u, link, load, type)
          PROVE  PortalInv'
      BY <2>6, BeginUploadKeeps
    <2>7. ASSUME NEW u \in Uploads, CommitUpload(u)
          PROVE  PortalInv'
      BY <2>7, CommitUploadKeeps
    <2>8. ASSUME NEW u \in Uploads, FailUpload(u)
          PROVE  PortalInv'
      <3>1. UploadsInScope'
        BY <2>8, UploadEnds DEF FailUpload
      <3> QED
        BY <2>8, <3>1
        DEF FailUpload, PortalInv, PortalTypeOK, UploadsInScope, PortalPapersAgree
    <2>9. CASE PassHour
      BY <2>9, HoursAssumption
      DEF PassHour, PortalInv, PortalTypeOK, UploadsInScope, PortalPapersAgree
    <2> QED
      BY <1>2, <2>1, <2>2, <2>3, <2>4, <2>5, <2>6, <2>7, <2>8, <2>9 DEF PortalNext
  <1> QED  BY <1>1, <1>2

\* A document that came through a link is its customer's, whatever becomes of
\* the load while the file is saved and after, and the audit log names it; for
\* any loads, customers, links and uploads in flight.
THEOREM PortalPapersAlwaysAgree == PortalSpec => []PortalPapersAgree
  <1>1. PortalInv /\ [PortalNext]_portalVars => PortalInv'
    BY PortalNextKeeps
  <1>2. PortalInv => PortalPapersAgree
    BY DEF PortalInv
  <1> QED  BY <1>1, <1>2, PortalInitInv, PTL DEF PortalSpec

-----------------------------------------------------------------------------
(* The billing account: the types, the balance of an invoice and the status *)
(* that goes with it, and the default payment method.  All three are        *)
(* inductive as they stand, once an invoice's amounts are known to be       *)
(* natural numbers.                                                         *)

\* The amounts of one invoice, and its status, agree.
Balanced(v) ==
    /\ v.due + v.paid = v.total
    /\ ~v.byHand => /\ v.status = "paid" => v.due = 0 /\ v.total > 0
                    /\ v.due = 0 /\ v.total > 0 => v.status = "paid"

BillingInv == /\ BillingTypeOK
              /\ \A i \in DOMAIN invoices : Balanced(invoices[i])
              /\ OneDefaultMethod

LEMMA NewBalanced ==
    ASSUME NEW c \in Customers, NEW n \in Nat, NEW total \in Totals
    PROVE  LET v == [customer |-> c, number |-> n, total |-> total, paid |-> 0,
                     due |-> total, status |-> "open", byHand |-> FALSE]
           IN  v \in Invoice /\ Balanced(v)
  BY TotalsAssumption DEF Invoice, InvoiceStatus, Balanced

LEMMA PatchedBalanced ==
    ASSUME NEW v \in Invoice, Balanced(v), NEW s \in InvoiceStatus,
           NEW given \in BOOLEAN, ~given => s = v.status
    PROVE  Patched(v, s, given) \in Invoice /\ Balanced(Patched(v, s, given))
  <1> DEFINE u == [v EXCEPT !.status = s, !.byHand = given \/ v.byHand]
  <1>1. (given \/ v.byHand) \in BOOLEAN
    BY DEF Invoice
  <1>2. /\ u \in Invoice /\ u.status = s /\ u.paid = v.paid /\ u.total = v.total
        /\ u.due = v.due
    BY <1>1 DEF Invoice
  <1>3. ~u.byHand => v.byHand = FALSE /\ given = FALSE
    BY DEF Invoice
  <1> HIDE DEF u
  <1>4. /\ u.paid \in Nat /\ u.total \in Nat /\ u.due \in Nat
        /\ v.due \in Nat /\ v.total \in Nat
    BY <1>2 DEF Invoice
  <1>5. u.paid <= u.total /\ u.total - u.paid = u.due
    BY <1>2, <1>4 DEF Balanced
  <1>6. Recalculated(u) = [u EXCEPT !.due = u.due]
    BY <1>4, <1>5 DEF Recalculated
  <1>7. Recalculated(u) = u
    BY <1>2, <1>6 DEF Invoice
  <1>8. Balanced(u)
    BY <1>2, <1>3 DEF Balanced
  <1> QED  BY <1>2, <1>7, <1>8 DEF Patched, u

LEMMA PastDueBalanced ==
    ASSUME NEW v \in Invoice, Balanced(v)
    PROVE  PastDue(v) \in Invoice /\ Balanced(PastDue(v))
  BY DEF PastDue, Invoice, InvoiceStatus, Balanced

\* What is accepted rounds to no more than what is due.
LEMMA RoundedWithinDue ==
    ASSUME NEW a \in Nat, NEW due \in Nat, a <= 2 * due
    PROVE  HalfEven(a) \in Nat /\ HalfEven(a) <= due /\ HalfUp(a) \in Nat
  BY DEF HalfEven, HalfUp

LEMMA PaymentBalanced ==
    ASSUME NEW v \in Invoice, Balanced(v), NEW cents \in Nat, cents <= v.due,
           v.due > 0
    PROVE  ApplyPayment(v, cents) \in Invoice /\ Balanced(ApplyPayment(v, cents))
  <1>1. /\ v.total \in Nat /\ v.paid \in Nat /\ v.due \in Nat
        /\ v.due = v.total - v.paid /\ v.total > 0
    BY DEF Invoice, Balanced
  <1> DEFINE paid == v.paid + cents
             due == v.total - paid
             left == IF due <= 0 THEN 0 ELSE due
             status == IF due <= 0 THEN "paid" ELSE "open"
             u == [v EXCEPT !.paid = paid, !.due = left, !.status = status,
                            !.byHand = FALSE]
  <1>2. /\ paid \in Nat /\ left \in Nat /\ left + paid = v.total
        /\ status \in InvoiceStatus /\ (status = "paid" <=> left = 0)
    BY <1>1 DEF InvoiceStatus
  <1> HIDE DEF left, status, paid
  <1>3. /\ u \in Invoice /\ u.due = left /\ u.paid = paid /\ u.total = v.total
        /\ u.status = status /\ u.byHand = FALSE
    BY <1>2 DEF Invoice
  <1>4. Balanced(u)
    BY <1>1, <1>2, <1>3 DEF Balanced
  <1> QED  BY <1>3, <1>4 DEF ApplyPayment, left, status, paid

-----------------------------------------------------------------------------
LEMMA BillingInitInv == BillingInit => BillingInv
  BY SizesAssumption DEF BillingInit, BillingInv, BillingTypeOK, OneDefaultMethod

LEMMA CloseKeeps ==
    ASSUME Close
    PROVE  BillingInv'
  BY SizesAssumption DEF Close, BillingInv, BillingTypeOK, OneDefaultMethod

\* A step that replaces one invoice by another that is in order.
LEMMA InvoiceKeeps ==
    ASSUME BillingInv, NEW i \in DOMAIN invoices, NEW v \in Invoice, Balanced(v),
           invoices' = [invoices EXCEPT ![i] = v],
           payments' \in Seq(Payment), Len(payments') <= MaxPayments,
           UNCHANGED methods
    PROVE  BillingInv'
  <1>1. /\ invoices' \in Seq(Invoice) /\ Len(invoices') = Len(invoices)
        /\ DOMAIN invoices' = DOMAIN invoices
        /\ invoices'[i] = v
        /\ \A j \in DOMAIN invoices \ {i} : invoices'[j] = invoices[j]
    BY ExceptParts DEF BillingInv, BillingTypeOK
  <1> QED  BY <1>1 DEF BillingInv, BillingTypeOK, OneDefaultMethod

LEMMA CreateInvoiceKeeps ==
    ASSUME BillingInv, NEW c \in Customers, NEW total \in Totals,
           CreateInvoice(c, total)
    PROVE  BillingInv'
  <1> DEFINE v == NewInvoice(c, total)
  <1>0. NextNumber(c) \in Nat
    <2>1. DOMAIN invoices = 1..Len(invoices) /\ Len(invoices) \in Nat
      BY SeqParts DEF BillingInv, BillingTypeOK
    <2>2. IsFiniteSet(1..Len(invoices))
      BY <2>1, FS_Interval
    <2>3. IsFiniteSet(InvoicesOf(c))
      BY <2>1, <2>2, FS_Subset DEF InvoicesOf
    <2>4. Cardinality(InvoicesOf(c)) \in Nat
      BY <2>3, FS_CardinalityType
    <2> QED  BY <2>4 DEF NextNumber
  <1>1. v \in Invoice /\ Balanced(v)
    BY <1>0, NewBalanced DEF NewInvoice
  <1>2. /\ invoices' = Append(invoices, v) /\ UNCHANGED <<payments, methods>>
        /\ Len(invoices) < MaxInvoices
    BY DEF CreateInvoice
  <1> HIDE DEF v
  <1>3. /\ invoices' \in Seq(Invoice) /\ Len(invoices') = Len(invoices) + 1
        /\ DOMAIN invoices' = DOMAIN invoices \cup {Len(invoices) + 1}
        /\ invoices'[Len(invoices) + 1] = v
        /\ \A j \in DOMAIN invoices : invoices'[j] = invoices[j]
    BY <1>1, <1>2, AppendParts DEF BillingInv, BillingTypeOK
  <1>4. Len(invoices) \in Nat /\ MaxInvoices \in Nat
    BY SizesAssumption DEF BillingInv, BillingTypeOK
  <1> QED  BY <1>1, <1>2, <1>3, <1>4 DEF BillingInv, BillingTypeOK, OneDefaultMethod

LEMMA UpdateInvoiceKeeps ==
    ASSUME BillingInv, NEW i \in DOMAIN invoices, NEW s \in InvoiceStatus,
           NEW given \in BOOLEAN, NEW issued \in BOOLEAN,
           UpdateInvoice(i, s, given, issued)
    PROVE  BillingInv'
  <1>1. CASE ~issued
    BY <1>1, CloseKeeps DEF UpdateInvoice
  <1>2. CASE issued
    <2> DEFINE v == Patched(invoices[i], s, given)
    <2>1. invoices[i] \in Invoice /\ Balanced(invoices[i])
      BY SeqParts DEF BillingInv, BillingTypeOK
    <2>2. v \in Invoice /\ Balanced(v)
      BY <2>1, PatchedBalanced DEF UpdateInvoice
    <2>3. invoices' = [invoices EXCEPT ![i] = v] /\ UNCHANGED <<payments, methods>>
      BY <1>2 DEF UpdateInvoice
    <2> HIDE DEF v
    <2> QED  BY <2>2, <2>3, InvoiceKeeps DEF BillingInv, BillingTypeOK
  <1> QED  BY <1>1, <1>2

LEMMA MarkPastDueKeeps ==
    ASSUME BillingInv, NEW i \in DOMAIN invoices, MarkPastDue(i)
    PROVE  BillingInv'
  <1> DEFINE v == PastDue(invoices[i])
  <1>1. invoices[i] \in Invoice /\ Balanced(invoices[i])
    BY SeqParts DEF BillingInv, BillingTypeOK
  <1>2. v \in Invoice /\ Balanced(v)
    BY <1>1, PastDueBalanced
  <1>3. invoices' = [invoices EXCEPT ![i] = v] /\ UNCHANGED <<payments, methods>>
    BY DEF MarkPastDue
  <1> HIDE DEF v
  <1> QED  BY <1>2, <1>3, InvoiceKeeps DEF BillingInv, BillingTypeOK

LEMMA MarkAllPastDueKeeps ==
    ASSUME BillingInv, NEW late, MarkAllPastDue(late)
    PROVE  BillingInv'
  <1>1. /\ Len(invoices) \in Nat /\ DOMAIN invoices = 1..Len(invoices)
        /\ \A i \in DOMAIN invoices :
              invoices[i] \in Invoice /\ Balanced(invoices[i])
    BY SeqParts DEF BillingInv, BillingTypeOK
  <1>2. /\ invoices' = [i \in 1..Len(invoices) |->
                           IF i \in late THEN PastDue(invoices[i]) ELSE invoices[i]]
        /\ UNCHANGED <<payments, methods>>
    BY <1>1 DEF MarkAllPastDue
  <1>3. \A i \in 1..Len(invoices) : invoices'[i] \in Invoice /\ Balanced(invoices'[i])
    BY <1>1, <1>2, PastDueBalanced
  <1>4. invoices' \in [1..Len(invoices) -> Invoice]
    BY <1>2, <1>3
  <1>5. /\ invoices' \in Seq(Invoice) /\ Len(invoices') = Len(invoices)
        /\ DOMAIN invoices' = 1..Len(invoices)
    BY <1>1, <1>4, FunctionIsSeq
  <1> QED  BY <1>2, <1>3, <1>5 DEF BillingInv, BillingTypeOK, OneDefaultMethod

LEMMA CollectKeeps ==
    ASSUME BillingInv, NEW i \in DOMAIN invoices, NEW a \in Amounts, Collect(i, a)
    PROVE  BillingInv'
  <1> DEFINE v == Collected(i, a).invoice
             p == Collected(i, a).payment
  <1>1. invoices[i] \in Invoice /\ Balanced(invoices[i]) /\ i \in Nat \ {0}
    BY SeqParts DEF BillingInv, BillingTypeOK
  <1>2. a \in Nat /\ invoices[i].due \in Nat
        /\ invoices[i].due > 0 /\ a <= 2 * invoices[i].due
    BY <1>1, TotalsAssumption DEF Collect, Collectable, Invoice
  <1>3. /\ HalfEven(a) \in Nat /\ HalfEven(a) <= invoices[i].due
        /\ HalfUp(a) \in Nat
    BY <1>2, RoundedWithinDue
  <1>4. v = IF HalfEven(a) = 0 THEN invoices[i]
            ELSE ApplyPayment(invoices[i], HalfEven(a))
    BY DEF Collected
  <1>5. v \in Invoice /\ Balanced(v)
    BY <1>1, <1>2, <1>3, <1>4, PaymentBalanced
  <1>6. p = [invoice |-> i, amount |-> HalfUp(a), asked |-> a,
             status |-> "succeeded"]
    BY DEF Collected
  <1>7. p \in Payment
    BY <1>1, <1>2, <1>3, <1>6 DEF Payment
  <1>8. /\ Len(payments) < MaxPayments
        /\ payments' = Append(payments, p)
        /\ invoices' = [invoices EXCEPT ![i] = v]
        /\ UNCHANGED methods
    BY DEF Collect
  <1> HIDE DEF v, p
  <1>9. payments' \in Seq(Payment) /\ Len(payments') = Len(payments) + 1
    BY <1>7, <1>8, AppendParts DEF BillingInv, BillingTypeOK
  <1>10. Len(payments) \in Nat /\ MaxPayments \in Nat
    BY SizesAssumption DEF BillingInv, BillingTypeOK
  <1>11. Len(payments') <= MaxPayments
    BY <1>8, <1>9, <1>10
  <1> QED  BY <1>5, <1>8, <1>9, <1>11, InvoiceKeeps

LEMMA MarkFailedKeeps ==
    ASSUME BillingInv, NEW p \in DOMAIN payments, MarkFailed(p)
    PROVE  BillingInv'
  <1>1. payments[p] \in Payment
    BY SeqParts DEF BillingInv, BillingTypeOK
  <1>2. Failed(payments[p]) \in Payment
    BY <1>1 DEF Failed, Payment
  <1>3. payments' \in Seq(Payment) /\ Len(payments') = Len(payments)
    BY <1>2, ExceptParts DEF MarkFailed, BillingInv, BillingTypeOK
  <1> QED  BY <1>3 DEF MarkFailed, BillingInv, BillingTypeOK, OneDefaultMethod

-----------------------------------------------------------------------------
(* Payment methods.                                                        *)

LEMMA ClearedMethods ==
    ASSUME BillingInv, NEW c, NEW default \in BOOLEAN
    PROVE  LET kept == IF default THEN Cleared(c) ELSE methods
           IN  /\ kept \in Seq(PaymentMethod) /\ Len(kept) = Len(methods)
               /\ DOMAIN kept = DOMAIN methods
               /\ \A k \in DOMAIN methods :
                     /\ kept[k].customer = methods[k].customer
                     /\ kept[k].default => methods[k].default
                     /\ default /\ methods[k].customer = c => ~kept[k].default
  <1>1. /\ Len(methods) \in Nat /\ DOMAIN methods = 1..Len(methods)
        /\ \A k \in DOMAIN methods : methods[k] \in PaymentMethod
    BY SeqParts DEF BillingInv, BillingTypeOK
  <1>2. \A k \in DOMAIN methods :
           /\ Cleared(c)[k] \in PaymentMethod
           /\ Cleared(c)[k].customer = methods[k].customer
           /\ Cleared(c)[k].default => methods[k].default
           /\ methods[k].customer = c => ~Cleared(c)[k].default
    BY <1>1 DEF Cleared, PaymentMethod
  <1>3. Cleared(c) \in [1..Len(methods) -> PaymentMethod]
    BY <1>1, <1>2 DEF Cleared
  <1>4. /\ Cleared(c) \in Seq(PaymentMethod) /\ Len(Cleared(c)) = Len(methods)
        /\ DOMAIN Cleared(c) = DOMAIN methods
    BY <1>1, <1>3, FunctionIsSeq
  <1> HIDE DEF BillingInv
  <1>5. CASE default
    BY <1>2, <1>4, <1>5
  <1>6. CASE ~default
    BY <1>6 DEF BillingInv, BillingTypeOK
  <1> QED  BY <1>5, <1>6

LEMMA CreateMethodKeeps ==
    ASSUME BillingInv, NEW c \in Customers, NEW default \in BOOLEAN,
           NEW active \in BOOLEAN, CreateMethod(c, default, active)
    PROVE  BillingInv'
  <1> DEFINE kept == IF default THEN Cleared(c) ELSE methods
             new == [customer |-> c, default |-> default, active |-> active]
  <1>1. /\ kept \in Seq(PaymentMethod) /\ Len(kept) = Len(methods)
        /\ DOMAIN kept = DOMAIN methods
        /\ \A k \in DOMAIN methods :
              /\ kept[k].customer = methods[k].customer
              /\ kept[k].default => methods[k].default
              /\ default /\ methods[k].customer = c => ~kept[k].default
    BY ClearedMethods
  <1>2. new \in PaymentMethod /\ new.customer = c /\ new.default = default
    BY DEF PaymentMethod
  <1>3. /\ methods' = Append(kept, new) /\ Len(methods) < MaxMethods
        /\ UNCHANGED <<invoices, payments>>
    BY DEF CreateMethod
  <1> HIDE DEF kept, new
  <1>4. /\ methods' \in Seq(PaymentMethod) /\ Len(methods') = Len(methods) + 1
        /\ DOMAIN methods' = DOMAIN methods \cup {Len(methods) + 1}
        /\ methods'[Len(methods) + 1] = new
        /\ \A k \in DOMAIN methods : methods'[k] = kept[k]
    BY <1>1, <1>2, <1>3, AppendParts
  <1>5. Len(methods) \in Nat /\ MaxMethods \in Nat
    BY SizesAssumption DEF BillingInv, BillingTypeOK
  <1>6. OneDefaultMethod'
    BY <1>1, <1>2, <1>4 DEF BillingInv, OneDefaultMethod
  <1> QED  BY <1>3, <1>4, <1>5, <1>6 DEF BillingInv, BillingTypeOK

LEMMA UpdateMethodKeeps ==
    ASSUME BillingInv, NEW k \in DOMAIN methods, NEW default \in BOOLEAN,
           NEW active \in BOOLEAN, UpdateMethod(k, default, active)
    PROVE  BillingInv'
  <1> DEFINE c == methods[k].customer
             kept == IF default THEN Cleared(c) ELSE methods
             new == [kept[k] EXCEPT !.default = default, !.active = active]
  <1>1. /\ kept \in Seq(PaymentMethod) /\ Len(kept) = Len(methods)
        /\ DOMAIN kept = DOMAIN methods
        /\ \A j \in DOMAIN methods :
              /\ kept[j].customer = methods[j].customer
              /\ kept[j].default => methods[j].default
              /\ default /\ methods[j].customer = c => ~kept[j].default
    BY ClearedMethods
  <1>2. methods' = [kept EXCEPT ![k].default = default, ![k].active = active]
        /\ UNCHANGED <<invoices, payments>>
    BY DEF UpdateMethod
  <1> HIDE DEF kept
  <1>3. kept[k] \in PaymentMethod
    BY <1>1, SeqParts
  <1>4. /\ new \in PaymentMethod /\ new.customer = c /\ new.default = default
    BY <1>1, <1>3 DEF PaymentMethod
  <1>5. methods' = [kept EXCEPT ![k] = new]
    BY <1>1, <1>2, <1>3 DEF PaymentMethod
  <1> HIDE DEF new, c
  <1>6. /\ methods' \in Seq(PaymentMethod) /\ Len(methods') = Len(methods)
        /\ DOMAIN methods' = DOMAIN methods
        /\ methods'[k] = new
        /\ \A j \in DOMAIN methods \ {k} : methods'[j] = kept[j]
    BY <1>1, <1>4, <1>5, ExceptParts
  <1>7. OneDefaultMethod'
    BY <1>1, <1>4, <1>6 DEF BillingInv, OneDefaultMethod, c
  <1> QED  BY <1>2, <1>6, <1>7 DEF BillingInv, BillingTypeOK

-----------------------------------------------------------------------------
LEMMA BillingNextKeeps ==
    ASSUME BillingInv, [BillingNext]_billingVars
    PROVE  BillingInv'
  <1>1. CASE UNCHANGED billingVars
    BY <1>1 DEF billingVars, BillingInv, BillingTypeOK, OneDefaultMethod
  <1>2. CASE BillingNext
    <2>1. ASSUME NEW c \in Customers, NEW total \in Totals, CreateInvoice(c, total)
          PROVE  BillingInv'
      BY <2>1, CreateInvoiceKeeps
    <2>2. ASSUME NEW c \in Customers, RefuseInvoice(c)
          PROVE  BillingInv'
      BY <2>2, CloseKeeps DEF RefuseInvoice
    <2>3. ASSUME NEW i \in DOMAIN invoices, NEW s \in InvoiceStatus,
                 NEW given \in BOOLEAN, NEW issued \in BOOLEAN,
                 UpdateInvoice(i, s, given, issued)
          PROVE  BillingInv'
      BY <2>3, UpdateInvoiceKeeps
    <2>4. ASSUME NEW i \in DOMAIN invoices, MarkPastDue(i)
          PROVE  BillingInv'
      BY <2>4, MarkPastDueKeeps
    <2>5. ASSUME NEW i \in DOMAIN invoices, NEW a \in Amounts, Collect(i, a)
          PROVE  BillingInv'
      BY <2>5, CollectKeeps
    <2>6. ASSUME NEW late \in SUBSET DOMAIN invoices, MarkAllPastDue(late)
          PROVE  BillingInv'
      BY <2>6, MarkAllPastDueKeeps
    <2>7. ASSUME NEW p \in DOMAIN payments, MarkFailed(p)
          PROVE  BillingInv'
      BY <2>7, MarkFailedKeeps
    <2>8. ASSUME NEW c \in Customers, NEW default \in BOOLEAN,
                 NEW active \in BOOLEAN, CreateMethod(c, default, active)
          PROVE  BillingInv'
      BY <2>8, CreateMethodKeeps
    <2>9. ASSUME NEW k \in DOMAIN methods, NEW default \in BOOLEAN,
                 NEW active \in BOOLEAN, UpdateMethod(k, default, active)
          PROVE  BillingInv'
      BY <2>9, UpdateMethodKeeps
    <2> QED
      BY <1>2, <2>1, <2>2, <2>3, <2>4, <2>5, <2>6, <2>7, <2>8, <2>9, CloseKeeps
      DEF BillingNext
  <1> QED  BY <1>1, <1>2

LEMMA BillingInvHolds == BillingSpec => []BillingInv
  <1>1. BillingInv /\ [BillingNext]_billingVars => BillingInv'
    BY BillingNextKeeps
  <1> QED  BY <1>1, BillingInitInv, PTL DEF BillingSpec

\* No sequence of calls leaves the bounds, a negative amount or a status that
\* the columns do not have.
THEOREM BillingTypeCorrect == BillingSpec => []BillingTypeOK
  <1>1. BillingInv => BillingTypeOK
    BY DEF BillingInv
  <1> QED  BY <1>1, BillingInvHolds, PTL

\* What is due and what was paid add up to an invoice's total, and its status
\* follows what is due unless a client has set it by hand, whatever is paid,
\* rounded, updated and marked past due, in any order.
THEOREM InvoicesAlwaysBalance == BillingSpec => []InvoicesBalance
  <1>1. BillingInv => InvoicesBalance
    BY DEF BillingInv, Balanced, InvoicesBalance, BalanceAddsUp, StatusFollowsBalance
  <1> QED  BY <1>1, BillingInvHolds, PTL

\* A customer never has two default payment methods: a new default clears the
\* one before, in creations and in updates.
THEOREM OneDefaultMethodAlways == BillingSpec => []OneDefaultMethod
  <1>1. BillingInv => OneDefaultMethod
    BY DEF BillingInv
  <1> QED  BY <1>1, BillingInvHolds, PTL

-----------------------------------------------------------------------------
(* Sums of the numbers in a function, by the least counterexample.         *)

\* What makes s the sums of the numbers in g, up to N of them.
AreSums(s, N, g) ==
    s[0] = 0 /\ \A n \in 1 .. N : s[n] = s[n - 1] + g[n]

\* There are such sums.
HaveSums(N, g) == \E s \in [0 .. N -> Nat] : AreSums(s, N, g)

\* A set of numbers that is not empty has a least element.
LEMMA LeastElement ==
    ASSUME NEW T, T \subseteq Nat, T # {}
    PROVE  \E k \in T : \A j \in T : ~(j < k)
  <1>1. \E x \in T : \A y \in T : <<y, x>> \notin OpToRel(<, Nat)
    BY WFMin, NatLessThanWellFounded
  <1> QED  BY <1>1 DEF OpToRel

\* Without sums for k numbers there were none for k - 1, since one more can be
\* added.
LEMMA SumsExist ==
    ASSUME NEW N \in Nat, NEW g \in [1 .. N -> Nat]
    PROVE  HaveSums(N, g)
  <1> DEFINE Bad == {k \in 0 .. N : ~HaveSums(k, g)}
  <1> SUFFICES ASSUME Bad # {} PROVE FALSE
    <2>1. N \in 0 .. N
      OBVIOUS
    <2> QED  BY <2>1
  <1>1. PICK k \in Bad : \A j \in Bad : ~(j < k)
    <2>1. Bad \subseteq Nat
      OBVIOUS
    <2> HIDE DEF Bad
    <2> QED  BY <2>1, LeastElement
  <1>2. k # 0
    <2> DEFINE s == [n \in 0 .. 0 |-> 0]
    <2>1. s \in [0 .. 0 -> Nat] /\ s[0] = 0 /\ \A n : n \notin 1 .. 0
      OBVIOUS
    <2> HIDE DEF s
    <2>2. HaveSums(0, g)
      BY <2>1 DEF HaveSums, AreSums
    <2> QED  BY <2>2
  <1>3. k \in Nat /\ k - 1 \in 0 .. N /\ k - 1 < k /\ k \in 1 .. N
    BY <1>2
  <1>4. HaveSums(k - 1, g)
    BY <1>1, <1>3
  <1>5. PICK s \in [0 .. k - 1 -> Nat] : AreSums(s, k - 1, g)
    BY <1>4 DEF HaveSums
  <1> DEFINE t == [n \in 0 .. k |-> IF n = k THEN s[k - 1] + g[k] ELSE s[n]]
  <1>6. /\ t \in [0 .. k -> Nat]
        /\ t[k] = s[k - 1] + g[k]
        /\ \A n \in 0 .. k - 1 : t[n] = s[n]
    BY <1>3
  <1> HIDE DEF t
  <1>7. /\ 0 \in 0 .. k - 1 /\ k - 1 \in 0 .. k - 1
        /\ \A n \in 1 .. k : n = k \/ (n \in 1 .. k - 1 /\ n \in 0 .. k - 1)
        /\ \A n \in 1 .. k : n - 1 \in 0 .. k - 1
    BY <1>3
  <1>8. AreSums(t, k, g)
    <2>1. t[0] = 0
      BY <1>5, <1>6, <1>7 DEF AreSums
    <2>2. ASSUME NEW n \in 1 .. k PROVE t[n] = t[n - 1] + g[n]
      <3>1. CASE n = k
        BY <1>6, <1>7, <3>1
      <3>2. CASE n \in 1 .. k - 1 /\ n \in 0 .. k - 1
        BY <1>5, <1>6, <1>7, <3>2 DEF AreSums
      <3> QED  BY <1>7, <3>1, <3>2
    <2> QED  BY <2>1, <2>2 DEF AreSums
  <1>9. HaveSums(k, g)
    BY <1>6, <1>8 DEF HaveSums
  <1> QED  BY <1>9

\* Sums of the same numbers are the same.
LEMMA SumsUnique ==
    ASSUME NEW N \in Nat, NEW s, NEW t, NEW g, NEW h,
           AreSums(s, N, g), AreSums(t, N, h),
           \A n \in 1 .. N : g[n] = h[n]
    PROVE  s[N] = t[N]
  <1> DEFINE Bad == {k \in 0 .. N : s[k] # t[k]}
  <1> SUFFICES ASSUME Bad # {} PROVE FALSE
    OBVIOUS
  <1>1. PICK k \in Bad : \A j \in Bad : ~(j < k)
    <2>1. Bad \subseteq Nat
      OBVIOUS
    <2> HIDE DEF Bad
    <2> QED  BY <2>1, LeastElement
  <1>2. k # 0
    BY DEF AreSums
  <1>3. k \in Nat /\ k - 1 \in 0 .. N /\ k \in 1 .. N /\ k - 1 < k
    BY <1>2
  <1>4. s[k - 1] = t[k - 1]
    BY <1>1, <1>3
  <1> QED  BY <1>3, <1>4 DEF AreSums

\* The sums are the ones that the recursion asks for, and numbers.
LEMMA SumsAreSums ==
    ASSUME NEW N \in Nat, NEW g \in [1 .. N -> Nat]
    PROVE  AreSums(Sums(N, g), N, g) /\ Sums(N, g)[N] \in Nat
  <1>1. PICK s \in [0 .. N -> Nat] : AreSums(s, N, g)
    BY SumsExist DEF HaveSums
  <1> DEFINE Step(f) == [n \in 0 .. N |-> IF n = 0 THEN 0 ELSE f[n - 1] + g[n]]
  <1>2. s = Step(s)
    BY <1>1 DEF AreSums
  <1>3. Sums(N, g) = CHOOSE f : f = Step(f)
    BY DEF Sums
  <1>4. Sums(N, g) = Step(Sums(N, g))
    BY <1>2, <1>3
  <1>5. AreSums(Sums(N, g), N, g)
    BY <1>4 DEF AreSums
  <1>6. Sums(N, g)[N] = s[N]
    BY <1>1, <1>5, SumsUnique
  <1> QED  BY <1>1, <1>5, <1>6

\* One more number is added.
LEMMA SumGrows ==
    ASSUME NEW N \in Nat, NEW g \in [1 .. N -> Nat], NEW h \in [1 .. N + 1 -> Nat],
           \A n \in 1 .. N : g[n] = h[n]
    PROVE  Sums(N + 1, h)[N + 1] = Sums(N, g)[N] + h[N + 1]
  <1>1. AreSums(Sums(N, g), N, g)
    BY SumsAreSums
  <1>2. AreSums(Sums(N + 1, h), N + 1, h)
    BY SumsAreSums
  <1>3. AreSums(Sums(N + 1, h), N, h)
    BY <1>2 DEF AreSums
  <1>4. Sums(N + 1, h)[N] = Sums(N, g)[N]
    BY <1>1, <1>3, SumsUnique
  <1> QED  BY <1>2, <1>4 DEF AreSums

-----------------------------------------------------------------------------
(* What was paid and the payments.                                         *)

PaidOf(i) == IF i \in DOMAIN invoices THEN invoices[i].paid ELSE 0

\* PaidMatchesPayments, also of the invoices that there are not yet.
PaidInv ==
    \A i \in Nat \ {0} :
        /\ PaidOf(i) <= Charged(i)
        /\ Charged(i) <= PaidOf(i) + Cardinality(Fractions(i))

\* The invoices keep what was paid, and the payments what they are for.
LEMMA PaidKept ==
    ASSUME BillingInv, PaidInv,
           \A i \in Nat \ {0} : PaidOf(i)' = PaidOf(i),
           payments' = payments
    PROVE  PaidInv'
  <1>1. \A i : Charged(i)' = Charged(i) /\ Fractions(i)' = Fractions(i)
    BY DEF Charged, ChargedBy, Fractions, PaymentsOf
  <1> QED  BY <1>1 DEF PaidInv

\* A session that has just begun.
LEMMA NothingPaid == invoices = <<>> /\ payments = <<>> => PaidInv
  <1> SUFFICES ASSUME invoices = <<>>, payments = <<>>, NEW i \in Nat \ {0}
               PROVE  /\ PaidOf(i) <= Charged(i)
                      /\ Charged(i) <= PaidOf(i) + Cardinality(Fractions(i))
    BY DEF PaidInv
  <1>1. PaidOf(i) = 0
    BY DEF PaidOf
  <1>2. Cardinality(Fractions(i)) = 0
    <2>1. Fractions(i) = {}
      BY DEF Fractions, PaymentsOf
    <2> QED  BY <2>1, FS_EmptySet
  <1>3. Charged(i) = 0
    <2>1. ChargedBy(i) \in [1 .. 0 -> Nat]
      BY DEF ChargedBy
    <2>2. Sums(0, ChargedBy(i))[0] = 0
      BY <2>1, SumsAreSums DEF AreSums
    <2> QED  BY <2>2 DEF Charged
  <1> QED  BY <1>1, <1>2, <1>3

LEMMA NothingPaidNext == (invoices = <<>> /\ payments = <<>> => PaidInv)'
  BY NothingPaid, PTL

\* A failed payment keeps its amount.
LEMMA MarkFailedKeepsPaid ==
    ASSUME BillingInv, PaidInv, NEW p \in DOMAIN payments, MarkFailed(p)
    PROVE  PaidInv'
  <1>1. /\ payments' \in Seq(Payment) /\ Len(payments') = Len(payments)
        /\ DOMAIN payments' = DOMAIN payments
        /\ \A q \in DOMAIN payments :
              /\ payments'[q].invoice = payments[q].invoice
              /\ payments'[q].amount = payments[q].amount
              /\ payments'[q].asked = payments[q].asked
    <2>1. payments[p] \in Payment
      BY SeqParts DEF BillingInv, BillingTypeOK
    <2>2. /\ Failed(payments[p]) \in Payment
          /\ Failed(payments[p]).invoice = payments[p].invoice
          /\ Failed(payments[p]).amount = payments[p].amount
          /\ Failed(payments[p]).asked = payments[p].asked
      BY <2>1 DEF Failed, Payment
    <2>3. payments' = [payments EXCEPT ![p] = Failed(payments[p])]
      BY DEF MarkFailed
    <2>4. payments \in Seq(Payment)
      BY DEF BillingInv, BillingTypeOK
    <2>5. /\ payments' \in Seq(Payment) /\ Len(payments') = Len(payments)
          /\ DOMAIN payments' = DOMAIN payments
          /\ payments'[p] = Failed(payments[p])
          /\ \A q \in DOMAIN payments \ {p} : payments'[q] = payments[q]
      BY <2>2, <2>3, <2>4, ExceptParts
    <2> QED  BY <2>2, <2>5
  <1> SUFFICES ASSUME NEW i \in Nat \ {0}
               PROVE  /\ PaidOf(i)' <= Charged(i)'
                      /\ Charged(i)' <= PaidOf(i)' + Cardinality(Fractions(i)')
    BY DEF PaidInv
  <1>2. PaidOf(i)' = PaidOf(i)
    BY DEF MarkFailed, PaidOf
  <1>3. Fractions(i)' = Fractions(i)
    BY <1>1 DEF Fractions, PaymentsOf
  <1>4. ChargedBy(i)' = ChargedBy(i)
    BY <1>1 DEF ChargedBy
  <1>5. Charged(i)' = Charged(i)
    BY <1>1, <1>4 DEF Charged
  <1> QED  BY <1>2, <1>3, <1>5 DEF PaidInv

\* The two roundings differ by a cent at most, and only when a fraction of a
\* cent was asked for.
LEMMA RoundingsDiffer ==
    ASSUME NEW a \in Nat
    PROVE  /\ HalfEven(a) \in Nat /\ HalfUp(a) \in Nat
           /\ HalfEven(a) <= HalfUp(a)
           /\ HalfUp(a) <= HalfEven(a) + IF a % 2 = 1 THEN 1 ELSE 0
  BY DEF HalfEven, HalfUp

\* A payment charges its invoice, and adds to what was paid for it.
LEMMA CollectKeepsPaid ==
    ASSUME BillingInv, PaidInv, NEW i \in DOMAIN invoices, NEW a \in Amounts,
           Collect(i, a)
    PROVE  PaidInv'
  <1> DEFINE v == Collected(i, a).invoice
             pay == Collected(i, a).payment
             last == Len(payments) + 1
  <1>1. invoices[i] \in Invoice /\ i \in Nat \ {0} /\ a \in Nat
    BY SeqParts, TotalsAssumption DEF BillingInv, BillingTypeOK
  <1>2. /\ HalfEven(a) \in Nat /\ HalfUp(a) \in Nat
        /\ HalfEven(a) <= HalfUp(a)
        /\ HalfUp(a) <= HalfEven(a) + IF a % 2 = 1 THEN 1 ELSE 0
    BY <1>1, RoundingsDiffer
  <1>3. v.paid = invoices[i].paid + HalfEven(a)
    BY <1>1, <1>2 DEF Collected, ApplyPayment, Invoice
  <1>4. pay.invoice = i /\ pay.amount = HalfUp(a) /\ pay.asked = a /\ pay \in Payment
    BY <1>1, <1>2 DEF Collected, Payment
  <1>5. /\ payments' = Append(payments, pay)
        /\ invoices' = [invoices EXCEPT ![i] = v]
    BY DEF Collect
  <1> HIDE DEF v, pay
  <1>6. /\ payments \in Seq(Payment) /\ Len(payments) \in Nat
        /\ DOMAIN payments = 1 .. Len(payments)
        /\ \A p \in DOMAIN payments : payments[p] \in Payment
    BY SeqParts DEF BillingInv, BillingTypeOK
  <1>7. /\ payments' \in Seq(Payment) /\ Len(payments') = last
        /\ DOMAIN payments' = 1 .. last /\ last \notin DOMAIN payments
        /\ payments'[last] = pay
        /\ \A p \in DOMAIN payments : payments'[p] = payments[p]
        /\ \A p \in DOMAIN payments' : payments'[p] \in Payment
    <2>1. /\ payments' \in Seq(Payment) /\ Len(payments') = last
          /\ payments'[last] = pay
          /\ \A p \in DOMAIN payments : payments'[p] = payments[p]
      BY <1>4, <1>5, <1>6, AppendParts
    <2> QED  BY <1>6, <2>1, SeqParts
  <1> SUFFICES ASSUME NEW j \in Nat \ {0}
               PROVE  /\ PaidOf(j)' <= Charged(j)'
                      /\ Charged(j)' <= PaidOf(j)' + Cardinality(Fractions(j)')
    BY DEF PaidInv
  <1>8. /\ PaidOf(j) \in Nat
        /\ PaidOf(j)' = PaidOf(j) + IF j = i THEN HalfEven(a) ELSE 0
    <2>1. \A k \in DOMAIN invoices : invoices[k].paid \in Nat
      <3>1. \A k \in DOMAIN invoices : invoices[k] \in Invoice
        BY SeqParts DEF BillingInv, BillingTypeOK
      <3> QED  BY <3>1 DEF Invoice
    <2>2. /\ DOMAIN invoices' = DOMAIN invoices
          /\ invoices'[i].paid = invoices[i].paid + HalfEven(a)
          /\ \A k \in DOMAIN invoices \ {i} : invoices'[k] = invoices[k]
      BY <1>3, <1>5
    <2>3. CASE j = i
      BY <2>1, <2>2, <2>3 DEF PaidOf
    <2>4. CASE j # i
      BY <2>1, <2>2, <2>4 DEF PaidOf
    <2> QED  BY <2>3, <2>4
  <1>9. /\ ChargedBy(j) \in [1 .. Len(payments) -> Nat]
        /\ ChargedBy(j)' \in [1 .. last -> Nat]
        /\ \A n \in 1 .. Len(payments) : ChargedBy(j)[n] = ChargedBy(j)'[n]
        /\ ChargedBy(j)'[last] = IF j = i THEN HalfUp(a) ELSE 0
    <2>1. /\ \A p \in 1 .. Len(payments) : payments[p].amount \in Nat
          /\ \A p \in 1 .. last : payments'[p].amount \in Nat
          /\ \A p \in 1 .. Len(payments) : p \in 1 .. last
          /\ last \in 1 .. last
      <3>1. \A q \in Payment : q.amount \in Nat
        BY DEF Payment
      <3>2. \A p \in 1 .. Len(payments) : payments[p] \in Payment
        BY <1>6
      <3>3. \A p \in 1 .. last : payments'[p] \in Payment
        BY <1>7
      <3>4. last \in 1 .. last /\ \A p \in 1 .. Len(payments) : p \in 1 .. last
        BY <1>6
      <3> QED  BY <3>1, <3>2, <3>3, <3>4
    <2>2. ChargedBy(j) = [p \in 1 .. Len(payments) |->
             IF payments[p].invoice = j THEN payments[p].amount ELSE 0]
      BY <1>6 DEF ChargedBy
    <2>3. ChargedBy(j)' = [p \in 1 .. last |->
             IF payments'[p].invoice = j THEN payments'[p].amount ELSE 0]
      BY <1>7 DEF ChargedBy
    <2>4. \A p \in 1 .. Len(payments) : payments'[p] = payments[p]
      BY <1>6, <1>7
    <2> QED  BY <1>4, <1>7, <2>1, <2>2, <2>3, <2>4
  <1>10. /\ Charged(j) \in Nat
         /\ Charged(j)' = Charged(j) + IF j = i THEN HalfUp(a) ELSE 0
    <2> DEFINE g == ChargedBy(j)
               h == ChargedBy(j)'
    <2>1. Charged(j) = Sums(Len(payments), g)[Len(payments)]
          /\ Charged(j)' = Sums(last, h)[last]
      BY <1>7 DEF Charged
    <2> HIDE DEF g, h
    <2>2. /\ g \in [1 .. Len(payments) -> Nat] /\ h \in [1 .. last -> Nat]
          /\ \A n \in 1 .. Len(payments) : g[n] = h[n]
          /\ h[last] = IF j = i THEN HalfUp(a) ELSE 0
      BY <1>9 DEF g, h
    <2>3. Sums(last, h)[last] = Sums(Len(payments), g)[Len(payments)] + h[last]
      BY <1>6, <2>2, SumGrows
    <2>4. Sums(Len(payments), g)[Len(payments)] \in Nat
      BY <1>6, <2>2, SumsAreSums
    <2> QED  BY <2>1, <2>2, <2>3, <2>4
  <1>11. IsFiniteSet(Fractions(j)) /\ Cardinality(Fractions(j)) \in Nat
    <2>1. Fractions(j) \subseteq 1 .. Len(payments)
      BY <1>6 DEF Fractions, PaymentsOf
    <2>2. IsFiniteSet(1 .. Len(payments))
      BY <1>6, FS_Interval
    <2> QED  BY <2>1, <2>2, FS_Subset, FS_CardinalityType
  <1>12. Cardinality(Fractions(j)') = Cardinality(Fractions(j))
                                      + IF j = i /\ a % 2 = 1 THEN 1 ELSE 0
    <2>1. Fractions(j)' = Fractions(j) \cup
                              IF j = i /\ a % 2 = 1 THEN {last} ELSE {}
      BY <1>4, <1>6, <1>7 DEF Fractions, PaymentsOf
    <2>2. last \notin Fractions(j)
      BY <1>7 DEF Fractions, PaymentsOf
    <2>3. CASE j = i /\ a % 2 = 1
      <3>1. Fractions(j)' = Fractions(j) \cup {last}
        BY <2>1, <2>3
      <3>2. Cardinality(Fractions(j) \cup {last}) = Cardinality(Fractions(j)) + 1
        BY <1>11, <2>2, FS_AddElement
      <3> QED  BY <2>3, <3>1, <3>2
    <2>4. CASE ~(j = i /\ a % 2 = 1)
      <3>1. Fractions(j)' = Fractions(j)
        BY <2>1, <2>4
      <3>2. Cardinality(Fractions(j)') = Cardinality(Fractions(j))
        BY <3>1
      <3> QED  BY <1>11, <2>4, <3>2
    <2> QED  BY <2>3, <2>4
  <1>13. PaidOf(j) <= Charged(j) /\ Charged(j) <= PaidOf(j) + Cardinality(Fractions(j))
    BY DEF PaidInv
  <1>14. CASE j = i
    BY <1>2, <1>8, <1>10, <1>11, <1>12, <1>13, <1>14
  <1>15. CASE j # i
    BY <1>8, <1>10, <1>11, <1>12, <1>13, <1>15
  <1> QED  BY <1>14, <1>15

\* Whatever replaces invoices without a payment keeps what was paid for them.
LEMMA PaidNextKeeps ==
    ASSUME BillingInv, PaidInv, [BillingNext]_billingVars
    PROVE  PaidInv'
  <1>1. /\ invoices \in Seq(Invoice) /\ Len(invoices) \in Nat
        /\ DOMAIN invoices = 1 .. Len(invoices)
        /\ \A i \in DOMAIN invoices : invoices[i] \in Invoice
    BY SeqParts DEF BillingInv, BillingTypeOK
  <1>2. ASSUME NEW v, NEW i \in DOMAIN invoices, v.paid = invoices[i].paid,
               invoices' = [invoices EXCEPT ![i] = v], payments' = payments
        PROVE  PaidInv'
    <2>1. \A j \in Nat \ {0} : PaidOf(j)' = PaidOf(j)
      BY <1>2 DEF PaidOf
    <2> QED  BY <1>2, <2>1, PaidKept
  <1>3. ASSUME NEW c \in Customers, NEW total \in Totals, CreateInvoice(c, total)
        PROVE  PaidInv'
    <2> DEFINE v == NewInvoice(c, total)
    <2>1. v.paid = 0 /\ invoices' = Append(invoices, v) /\ payments' = payments
      BY <1>3 DEF CreateInvoice, NewInvoice
    <2> HIDE DEF v
    <2>2. /\ DOMAIN invoices' = DOMAIN invoices \cup {Len(invoices) + 1}
          /\ Len(invoices) + 1 \notin DOMAIN invoices
          /\ invoices'[Len(invoices) + 1] = v
          /\ \A j \in DOMAIN invoices : invoices'[j] = invoices[j]
      BY <1>1, <2>1
    <2>3. \A j \in Nat \ {0} : PaidOf(j)' = PaidOf(j)
      BY <2>1, <2>2 DEF PaidOf
    <2> QED  BY <2>1, <2>3, PaidKept
  <1>4. ASSUME NEW i \in DOMAIN invoices, NEW s \in InvoiceStatus,
               NEW given \in BOOLEAN, NEW issued \in BOOLEAN,
               UpdateInvoice(i, s, given, issued)
        PROVE  PaidInv'
    <2>1. CASE ~issued
      BY <1>4, <2>1, NothingPaidNext DEF UpdateInvoice, Close
    <2>2. CASE issued
      <3>1. Patched(invoices[i], s, given).paid = invoices[i].paid
        BY <1>1 DEF Patched, Recalculated, Invoice
      <3> QED  BY <1>2, <1>4, <2>2, <3>1 DEF UpdateInvoice
    <2> QED  BY <2>1, <2>2
  <1>5. ASSUME NEW i \in DOMAIN invoices, MarkPastDue(i)
        PROVE  PaidInv'
    <2>1. PastDue(invoices[i]).paid = invoices[i].paid
      BY <1>1 DEF PastDue, Invoice
    <2> QED  BY <1>2, <1>5, <2>1 DEF MarkPastDue
  <1>6. ASSUME NEW late, MarkAllPastDue(late)
        PROVE  PaidInv'
    <2>1. \A j \in DOMAIN invoices : PastDue(invoices[j]).paid = invoices[j].paid
      BY <1>1 DEF PastDue, Invoice
    <2>2. \A j \in Nat \ {0} : PaidOf(j)' = PaidOf(j)
      BY <1>6, <2>1 DEF MarkAllPastDue, PaidOf
    <2> QED  BY <1>6, <2>2, PaidKept DEF MarkAllPastDue
  <1>7. ASSUME UNCHANGED <<invoices, payments>>
        PROVE  PaidInv'
    <2>1. \A j \in Nat \ {0} : PaidOf(j)' = PaidOf(j)
      BY <1>7 DEF PaidOf
    <2> QED  BY <1>7, <2>1, PaidKept
  <1>8. ASSUME Close PROVE PaidInv'
    BY <1>8, NothingPaidNext DEF Close
  <1> QED
    BY <1>3, <1>4, <1>5, <1>6, <1>7, <1>8, CollectKeepsPaid, MarkFailedKeepsPaid
    DEF BillingNext, billingVars, RefuseInvoice, CreateMethod, UpdateMethod

\* What an invoice says was paid is what its payments add up to, except for a
\* cent at most for each payment that had a fraction of one, after any payments,
\* failures and updates (collect_payment, apply_payment, mark_failed).
THEOREM PaidAlwaysMatchesPayments == BillingSpec => []PaidMatchesPayments
  <1>1. BillingInit => PaidInv
    BY NothingPaid DEF BillingInit
  <1>2. BillingInv /\ PaidInv /\ [BillingNext]_billingVars => PaidInv'
    BY PaidNextKeeps
  <1>3. BillingInv /\ PaidInv => PaidMatchesPayments
    <2>1. BillingInv => DOMAIN invoices \subseteq Nat \ {0}
      BY SeqParts DEF BillingInv, BillingTypeOK
    <2> QED  BY <2>1 DEF PaidInv, PaidOf, PaidMatchesPayments
  <1> QED  BY <1>1, <1>2, <1>3, BillingInvHolds, PTL DEF BillingSpec

-----------------------------------------------------------------------------
(* The customers' subscriptions.                                           *)

\* A subscription that no PATCH has touched is cancelled in all its columns or
\* in none.
Settled(s) ==
    ~s.patched =>
        /\ s.status \in {"active", "cancelled"}
        /\ s.status = "cancelled" <=> s.cancelled # Undated
        /\ s.ends = s.cancelled
        /\ s.period_end = IF s.ends # Undated THEN s.ends
                          ELSE PeriodEnd(s.starts, s.cycle)

CodesDiffer == \A j, k \in DOMAIN plans : plans[j].code = plans[k].code => j = k

SubscriptionsInv ==
    /\ SubscriptionsTypeOK
    /\ \A i \in DOMAIN subscriptions : Settled(subscriptions[i])
    /\ CodesDiffer

LEMMA SubscriptionsInitInv == SubscriptionsInit => SubscriptionsInv
  BY PlansAssumption
  DEF SubscriptionsInit, SubscriptionsInv, SubscriptionsTypeOK, CodesDiffer

LEMMA CloseSessionKeeps ==
    ASSUME SubscriptionsInv, CloseSession
    PROVE  SubscriptionsInv'
  BY PlansAssumption
  DEF CloseSession, SubscriptionsInv, SubscriptionsTypeOK, CodesDiffer

LEMMA CreatePlanKeeps ==
    ASSUME SubscriptionsInv, NEW code \in PlanCodes, NEW cycle \in Cycles,
           NEW price \in Prices, NEW active \in BOOLEAN,
           CreatePlan(code, cycle, price, active)
    PROVE  SubscriptionsInv'
  <1> DEFINE p == [code |-> code, cycle |-> cycle, price |-> price,
                   active |-> active]
  <1>1. p \in Plan /\ p.code = code
    BY PlansAssumption DEF Plan
  <1>2. /\ plans' = Append(plans, p) /\ Len(plans) < MaxPlans
        /\ \A k \in DOMAIN plans : plans[k].code # code
        /\ UNCHANGED <<subscriptions, today>>
    BY DEF CreatePlan, PlanWith
  <1> HIDE DEF p
  <1>3. /\ plans' \in Seq(Plan) /\ Len(plans') = Len(plans) + 1
        /\ DOMAIN plans' = DOMAIN plans \cup {Len(plans) + 1}
        /\ plans'[Len(plans) + 1] = p
        /\ \A k \in DOMAIN plans : plans'[k] = plans[k]
    BY <1>1, <1>2, AppendParts DEF SubscriptionsInv, SubscriptionsTypeOK
  <1>4. Len(plans) \in Nat /\ MaxPlans \in Nat
    BY PlansAssumption DEF SubscriptionsInv, SubscriptionsTypeOK
  <1>5. CodesDiffer'
    BY <1>1, <1>2, <1>3 DEF SubscriptionsInv, CodesDiffer
  <1> QED  BY <1>2, <1>3, <1>4, <1>5 DEF SubscriptionsInv, SubscriptionsTypeOK

LEMMA UpdatePlanKeeps ==
    ASSUME SubscriptionsInv, NEW k \in DOMAIN plans, NEW code \in PlanCodes,
           NEW cycle \in Cycles, NEW price \in Prices,
           UpdatePlan(k, code, cycle, price)
    PROVE  SubscriptionsInv'
  <1> DEFINE p == [plans[k] EXCEPT !.code = code, !.cycle = cycle, !.price = price]
  <1>1. plans[k] \in Plan
    BY SeqParts DEF SubscriptionsInv, SubscriptionsTypeOK
  <1>2. p \in Plan /\ p.code = code
    BY <1>1, PlansAssumption DEF Plan
  <1>3. plans' = [plans EXCEPT ![k] = p] /\ UNCHANGED <<subscriptions, today>>
    BY <1>1 DEF UpdatePlan, Plan, SubscriptionsInv, SubscriptionsTypeOK
  <1> HIDE DEF p
  <1>4. /\ plans' \in Seq(Plan) /\ Len(plans') = Len(plans)
        /\ DOMAIN plans' = DOMAIN plans
        /\ plans'[k] = p
        /\ \A j \in DOMAIN plans \ {k} : plans'[j] = plans[j]
    BY <1>2, <1>3, ExceptParts DEF SubscriptionsInv, SubscriptionsTypeOK
  <1>5. \A j \in DOMAIN plans \ {k} : plans[j].code # code
    BY DEF UpdatePlan, PlanWith, SubscriptionsInv, CodesDiffer
  <1>6. CodesDiffer'
    BY <1>2, <1>4, <1>5 DEF SubscriptionsInv, CodesDiffer
  <1> QED  BY <1>3, <1>4, <1>6 DEF SubscriptionsInv, SubscriptionsTypeOK

LEMMA CreateSubscriptionKeeps ==
    ASSUME SubscriptionsInv, NEW k \in DOMAIN plans, NEW starts \in Days,
           CreateSubscription(k, starts)
    PROVE  SubscriptionsInv'
  <1> DEFINE s == NewSubscription(k, starts)
  <1>1. plans[k] \in Plan /\ k \in Nat \ {0} /\ starts \in Nat
    BY SeqParts, DaysAssumption DEF SubscriptionsInv, SubscriptionsTypeOK
  <1>2. PeriodEnd(starts, plans[k].cycle) \in Nat
    BY <1>1 DEF PeriodEnd, CycleDays, Plan, BillingCycle
  <1>3. s \in Subscription
    BY <1>1, <1>2 DEF NewSubscription, Subscription, SubscriptionStatus, Plan
  <1>4. Settled(s)
    BY DEF NewSubscription, Settled
  <1>5. /\ subscriptions' = Append(subscriptions, s)
        /\ Len(subscriptions) < MaxSubscriptions
        /\ UNCHANGED <<plans, today>>
    BY DEF CreateSubscription
  <1> HIDE DEF s
  <1>6. /\ subscriptions' \in Seq(Subscription)
        /\ Len(subscriptions') = Len(subscriptions) + 1
        /\ DOMAIN subscriptions' = DOMAIN subscriptions \cup {Len(subscriptions) + 1}
        /\ subscriptions'[Len(subscriptions) + 1] = s
        /\ \A i \in DOMAIN subscriptions : subscriptions'[i] = subscriptions[i]
    BY <1>3, <1>5, AppendParts DEF SubscriptionsInv, SubscriptionsTypeOK
  <1>7. Len(subscriptions) \in Nat /\ MaxSubscriptions \in Nat
    BY PlansAssumption DEF SubscriptionsInv, SubscriptionsTypeOK
  <1>8. \A i \in DOMAIN subscriptions' : Settled(subscriptions'[i])
    BY <1>4, <1>6 DEF SubscriptionsInv
  <1> QED
    BY <1>5, <1>6, <1>7, <1>8 DEF SubscriptionsInv, SubscriptionsTypeOK, CodesDiffer

\* One subscription is replaced by another that is in order.
LEMMA SubscriptionKeeps ==
    ASSUME SubscriptionsInv, NEW i \in DOMAIN subscriptions,
           NEW s \in Subscription, Settled(s),
           subscriptions' = [subscriptions EXCEPT ![i] = s],
           UNCHANGED <<plans, today>>
    PROVE  SubscriptionsInv'
  <1>1. /\ subscriptions' \in Seq(Subscription)
        /\ Len(subscriptions') = Len(subscriptions)
        /\ DOMAIN subscriptions' = DOMAIN subscriptions
        /\ subscriptions'[i] = s
        /\ \A j \in DOMAIN subscriptions \ {i} : subscriptions'[j] = subscriptions[j]
    BY ExceptParts DEF SubscriptionsInv, SubscriptionsTypeOK
  <1> QED  BY <1>1 DEF SubscriptionsInv, SubscriptionsTypeOK, CodesDiffer

LEMMA UpdateSubscriptionKeeps ==
    ASSUME SubscriptionsInv, NEW i \in DOMAIN subscriptions,
           NEW asked \in Patches, UpdateSubscription(i, asked)
    PROVE  SubscriptionsInv'
  <1>1. CASE asked.period_end = Undated
    BY <1>1, CloseSessionKeeps DEF UpdateSubscription
  <1>2. CASE asked.period_end # Undated
    <2> DEFINE t == subscriptions[i]
               status == IF asked.status = Undated THEN t.status ELSE asked.status
               s == [t EXCEPT !.status = status, !.ends = asked.ends,
                              !.cancelled = asked.cancelled,
                              !.period_end = asked.period_end, !.patched = TRUE]
    <2>1. t \in Subscription /\ today \in Days
      BY SeqParts DEF SubscriptionsInv, SubscriptionsTypeOK
    <2>2. /\ asked.ends \in Days \cup {Undated}
          /\ asked.cancelled \in Days \cup {Undated}
          /\ asked.period_end \in Nat
      BY <1>2, <2>1, DaysAssumption DEF Patches
    <2>3. status \in SubscriptionStatus
      BY <2>1, PlansAssumption DEF Patches, Subscription
    <2>4. s = Updated(t, asked)
      BY <2>1 DEF Updated, Subscription
    <2> HIDE DEF status
    <2>5. s \in Subscription /\ s.patched
      BY <2>1, <2>2, <2>3 DEF Subscription
    <2>6. Settled(s)
      BY <2>5 DEF Settled
    <2>7. subscriptions' = [subscriptions EXCEPT ![i] = s] /\ UNCHANGED <<plans, today>>
      BY <1>2, <2>4 DEF UpdateSubscription
    <2> HIDE DEF s
    <2> QED  BY <2>5, <2>6, <2>7, SubscriptionKeeps
  <1> QED  BY <1>1, <1>2

LEMMA CancelSubscriptionKeeps ==
    ASSUME SubscriptionsInv, NEW i \in DOMAIN subscriptions,
           NEW at_period_end \in BOOLEAN, CancelSubscription(i, at_period_end)
    PROVE  SubscriptionsInv'
  <1> DEFINE t == subscriptions[i]
             s == Cancelled(t, at_period_end)
  <1>1. t \in Subscription /\ Settled(t) /\ today \in Days
    BY SeqParts DEF SubscriptionsInv, SubscriptionsTypeOK
  <1>2. today \in Nat /\ today # Undated
    BY <1>1, DaysAssumption
  <1> HIDE DEF t
  <1>3. s \in Subscription
    BY <1>1, <1>2 DEF Cancelled, Subscription, SubscriptionStatus
  <1>4. Settled(s)
    <2>1. CASE at_period_end
      <3>1. /\ s.patched = t.patched /\ s.status = t.status
            /\ s.cancelled = t.cancelled /\ s.ends = t.ends
            /\ s.period_end = t.period_end /\ s.starts = t.starts
            /\ s.cycle = t.cycle
        BY <1>1, <2>1 DEF Cancelled, Subscription
      <3> HIDE DEF s
      <3> QED  BY <1>1, <3>1 DEF Settled
    <2>2. CASE ~at_period_end
      <3>1. /\ s.status = "cancelled" /\ s.cancelled = today
            /\ s.ends = today /\ s.period_end = today
        BY <1>1, <2>2 DEF Cancelled, Subscription
      <3> HIDE DEF s
      <3> QED  BY <1>2, <3>1 DEF Settled
    <2> QED  BY <2>1, <2>2
  <1>5. subscriptions' = [subscriptions EXCEPT ![i] = s] /\ UNCHANGED <<plans, today>>
    BY DEF CancelSubscription, t
  <1> HIDE DEF s
  <1> QED  BY <1>3, <1>4, <1>5, SubscriptionKeeps

LEMMA SubscriptionsNextKeeps ==
    ASSUME SubscriptionsInv, [SubscriptionsNext]_subscriptionVars
    PROVE  SubscriptionsInv'
  <1>1. CASE UNCHANGED subscriptionVars
    BY <1>1 DEF subscriptionVars, SubscriptionsInv, SubscriptionsTypeOK, CodesDiffer
  <1>2. CASE SubscriptionsNext
    <2>1. ASSUME NEW code \in PlanCodes, NEW cycle \in Cycles,
                 NEW price \in Prices, NEW active \in BOOLEAN,
                 CreatePlan(code, cycle, price, active)
          PROVE  SubscriptionsInv'
      BY <2>1, CreatePlanKeeps
    <2>2. ASSUME NEW k \in DOMAIN plans, NEW code \in PlanCodes,
                 NEW cycle \in Cycles, NEW price \in Prices,
                 UpdatePlan(k, code, cycle, price)
          PROVE  SubscriptionsInv'
      BY <2>2, UpdatePlanKeeps
    <2>3. ASSUME NEW k \in DOMAIN plans, NEW starts \in Days,
                 CreateSubscription(k, starts)
          PROVE  SubscriptionsInv'
      BY <2>3, CreateSubscriptionKeeps
    <2>4. ASSUME NEW i \in DOMAIN subscriptions, NEW asked \in Patches,
                 UpdateSubscription(i, asked)
          PROVE  SubscriptionsInv'
      BY <2>4, UpdateSubscriptionKeeps
    <2>5. ASSUME NEW i \in DOMAIN subscriptions, NEW at_period_end \in BOOLEAN,
                 CancelSubscription(i, at_period_end)
          PROVE  SubscriptionsInv'
      BY <2>5, CancelSubscriptionKeeps
    <2>6. CASE Wait
      BY <2>6 DEF Wait, SubscriptionsInv, SubscriptionsTypeOK, CodesDiffer
    <2> QED
      BY <1>2, <2>1, <2>2, <2>3, <2>4, <2>5, <2>6, CloseSessionKeeps
      DEF SubscriptionsNext
  <1> QED  BY <1>1, <1>2

LEMMA SettledAgree ==
    ASSUME SubscriptionsInv
    PROVE  SubscriptionsAgree
  <1>1. ASSUME \A i \in DOMAIN subscriptions : ~subscriptions[i].patched
        PROVE  ActiveSubscriptions =
                   {i \in DOMAIN subscriptions : subscriptions[i].ends = Undated}
    BY <1>1 DEF ActiveSubscriptions, SubscriptionsInv, Settled
  <1> QED
    BY <1>1 DEF SubscriptionsAgree, SubscriptionsInv, Settled, CodesDiffer,
       MonthlyRevenue

\* A subscription's columns agree, its period ends with it, the dashboard counts
\* it until then and plans keep different codes, for any plans, subscriptions,
\* days and prices.
THEOREM SubscriptionsAlwaysAgree == SubscriptionsSpec => []SubscriptionsAgree
  <1>1. SubscriptionsInv /\ [SubscriptionsNext]_subscriptionVars => SubscriptionsInv'
    BY SubscriptionsNextKeeps
  <1> QED
    BY <1>1, SubscriptionsInitInv, SettledAgree, PTL DEF SubscriptionsSpec

-----------------------------------------------------------------------------
(* Validation and the review queue.                                        *)

\* The findings of the generator and of the engine's rules, and the codes of
\* those that always block.
Generated ==
    {Finding("invalid_document_type_mapping", "Mapping", "error"),
     Finding("wrong_document_classification", "Mismatch", "error"),
     Finding("unsupported_document_format", "Format", "error"),
     Finding("unreadable_document", "Corrupt", "critical"),
     Finding("low_extraction_confidence", "Confidence", "warning"),
     Finding("missing_critical_extracted_values", "Values", "error"),
     Finding("validation_mismatch", "Facts", "error"),
     Finding("reupload_required", "Reupload", "error")}

Ruled ==
    {Finding("missing_required_fields", "Fields", "error"),
     Finding("missing_signature", "NotDetected", "warning"),
     Finding("missing_signature", "Missing", "critical"),
     Finding("amount_mismatch", "Amounts", "error"),
     Finding("duplicate_load", "Duplicate", "warning"),
     Finding("unreadable_document", "NoText", "critical"),
     Finding("broker_consistency", "Name", "warning"),
     Finding("broker_consistency", "Email", "warning")}

Blocking ==
    {"invalid_document_type_mapping", "wrong_document_classification",
     "unsupported_document_format", "unreadable_document",
     "missing_critical_extracted_values", "validation_mismatch",
     "reupload_required", "missing_required_fields", "amount_mismatch"}

LEMMA EightAreFinite ==
    ASSUME NEW a, NEW b, NEW c, NEW d, NEW e, NEW f, NEW g, NEW h
    PROVE  IsFiniteSet({a, b, c, d, e, f, g, h})
  <1>1. \A x, y : IsFiniteSet({x, y})
    <2> SUFFICES ASSUME NEW x, NEW y PROVE IsFiniteSet({x, y})  OBVIOUS
    <2>1. {x, y} = {x} \cup {y}  OBVIOUS
    <2>2. IsFiniteSet({x}) /\ IsFiniteSet({y})
      BY FS_Singleton
    <2>3. IsFiniteSet({x} \cup {y})
      BY <2>2, FS_Union
    <2> QED  BY <2>1, <2>3
  <1>2. IsFiniteSet({a, b} \cup {c, d}) /\ IsFiniteSet({e, f} \cup {g, h})
    BY <1>1, FS_Union
  <1>3. {a, b, c, d, e, f, g, h} = ({a, b} \cup {c, d}) \cup ({e, f} \cup {g, h})
    OBVIOUS
  <1>4. IsFiniteSet(({a, b} \cup {c, d}) \cup ({e, f} \cup {g, h}))
    BY <1>2, FS_Union
  <1> QED  BY <1>3, <1>4

LEMMA FindingsFinite == IsFiniteSet(Generated) /\ IsFiniteSet(Ruled)
  BY EightAreFinite DEF Generated, Ruled

LEMMA FindingFields ==
    ASSUME NEW code, NEW title, NEW severity
    PROVE  LET f == Finding(code, title, severity)
           IN  /\ f.rule_code = code /\ f.title = title /\ f.severity = severity
               /\ f.is_blocking \in BOOLEAN
               /\ f.is_blocking <=> severity \in {"error", "critical"}
  <1> DEFINE blocking == severity \in {"error", "critical"}
  <1>1. blocking \in BOOLEAN
    OBVIOUS
  <1> HIDE DEF blocking
  <1>2. LET f == [rule_code |-> code, title |-> title, severity |-> severity,
                  is_blocking |-> blocking]
        IN  /\ f.rule_code = code /\ f.title = title /\ f.severity = severity
            /\ f.is_blocking = blocking
    BY <1>1
  <1> QED  BY <1>1, <1>2 DEF Finding, blocking

LEMMA GeneratedOnly ==
    ASSUME NEW p
    PROVE  evaluate(p) \subseteq Generated
  <1>1. type_findings(p) \subseteq Generated
    BY DEF type_findings, Generated, If
  <1>2. file_findings(p) \subseteq Generated
    BY DEF file_findings, Generated, If
  <1>3. value_findings(p) \subseteq Generated
    BY DEF value_findings, Generated, If
  <1> QED  BY <1>1, <1>2, <1>3 DEF evaluate

\* The engine's findings; the signature gives one at most.
LEMMA RuledOnly ==
    ASSUME NEW p
    PROVE  /\ run(p) \subseteq Ruled
           /\ \A f, g \in run(p) :
                 f.rule_code = "missing_signature" /\ g.rule_code = "missing_signature"
                 => f = g
  <1> DEFINE signed == IF p.signature = "no_field"
                       THEN Finding("missing_signature", "NotDetected", "warning")
                       ELSE Finding("missing_signature", "Missing", "critical")
             others == MissingRequiredFieldsRule(p) \cup AmountMismatchRule(p)
                       \cup DuplicateLoadRule(p) \cup UnreadableDocumentRule(p)
                       \cup BrokerConsistencyRule(p)
             Others == {Finding("missing_required_fields", "Fields", "error"),
                        Finding("amount_mismatch", "Amounts", "error"),
                        Finding("duplicate_load", "Duplicate", "warning"),
                        Finding("unreadable_document", "NoText", "critical"),
                        Finding("broker_consistency", "Name", "warning"),
                        Finding("broker_consistency", "Email", "warning")}
  <1>1. MissingSignatureRule(p) \subseteq {signed}
    BY DEF MissingSignatureRule, If
  <1>2. signed \in Ruled
    BY DEF Ruled
  <1>3. /\ MissingRequiredFieldsRule(p) \subseteq Others
        /\ AmountMismatchRule(p) \subseteq Others
        /\ DuplicateLoadRule(p) \subseteq Others
    BY DEF MissingRequiredFieldsRule, AmountMismatchRule, DuplicateLoadRule, If
  <1>4. /\ UnreadableDocumentRule(p) \subseteq Others
        /\ BrokerConsistencyRule(p) \subseteq Others
    BY DEF UnreadableDocumentRule, BrokerConsistencyRule, If
  <1>5. Others \subseteq Ruled
    BY DEF Ruled
  <1>6. ASSUME NEW f \in Others PROVE f.rule_code # "missing_signature"
    BY FindingFields
  <1> HIDE DEF Others, signed
  <1>7. run(p) \subseteq Others \cup {signed}
    BY <1>1, <1>3, <1>4 DEF run
  <1> QED  BY <1>2, <1>5, <1>6, <1>7

\* A finding blocks exactly if it is severe, and so do the findings of one code,
\* those about the signature left aside.
LEMMA FindingsSound ==
    ASSUME NEW f \in Generated \cup Ruled
    PROVE  /\ f.severity \in {"warning", "error", "critical"}
           /\ f.is_blocking \in BOOLEAN
           /\ f.is_blocking <=> f.severity \in {"error", "critical"}
           /\ f.rule_code # "missing_signature"
              => (f.is_blocking <=> f.rule_code \in Blocking)
  <1>1. \E code, title, severity : f = Finding(code, title, severity)
    BY DEF Generated, Ruled
  <1>2. /\ f.is_blocking \in BOOLEAN
        /\ f.is_blocking <=> f.severity \in {"error", "critical"}
    BY <1>1, FindingFields
  <1>3. CASE f \in Generated
    <2>1. f.severity \in {"warning", "error", "critical"}
      BY <1>3, FindingFields DEF Generated
    <2>2. f.severity \in {"error", "critical"} <=> f.rule_code \in Blocking
      BY <1>3, FindingFields DEF Generated, Blocking
    <2> QED  BY <1>2, <2>1, <2>2
  <1>4. CASE f \in Ruled
    <2>1. f.severity \in {"warning", "error", "critical"}
      BY <1>4, FindingFields DEF Ruled
    <2>2. f.rule_code # "missing_signature"
          => (f.severity \in {"error", "critical"} <=> f.rule_code \in Blocking)
      BY <1>4, FindingFields DEF Ruled, Blocking
    <2> QED  BY <1>2, <2>1, <2>2
  <1> QED  BY <1>3, <1>4

LEMMA CodesGenerated ==
    ASSUME NEW f \in Generated, NEW g \in Generated, f.rule_code = g.rule_code
    PROVE  f = g
  BY FindingFields DEF Generated

LEMMA CodesRuled ==
    ASSUME NEW f \in Ruled, NEW g \in Ruled, f.rule_code = g.rule_code
    PROVE  \/ f = g \/ f.rule_code \in {"missing_signature", "broker_consistency"}
  BY FindingFields DEF Ruled

\* What is recorded of an issue: how it counts follows from its severity, and
\* from its rule if it is not about the signature.
SoundIssue(i) ==
    /\ i.paper \in Papers \cup {NoPaper}
    /\ i.severity \in {"warning", "error", "critical"}
    /\ i.is_blocking \in BOOLEAN
    /\ i.is_blocking <=> i.severity \in {"error", "critical"}
    /\ i.rule_code # "missing_signature"
       => (i.is_blocking <=> i.rule_code \in Blocking)

IssuesSound ==
    /\ IsFiniteSet(open)
    /\ gone \subseteq Papers
    /\ found = [paper \in Papers \cup {NoPaper} |-> found[paper]]
    /\ \A i \in open : SoundIssue(i)

ReviewInv == IssuesSound /\ BrokenRulesHaveIssues

LEMMA IssueParts ==
    ASSUME NEW paper, NEW f
    PROVE  LET i == Issue(paper, f)
           IN  /\ i.paper = paper /\ i.rule_code = f.rule_code
               /\ i.title = f.title /\ i.severity = f.severity
               /\ i.is_blocking = f.is_blocking
  BY DEF Issue

\* The findings of a validation that become issues: findings of the rules, in
\* finite number, of codes without an open issue of the document.
LEMMA NewFindings ==
    ASSUME NEW paper, NEW p,
           NEW new, new = generate(paper, p) \cup FurtherResults(paper, p)
    PROVE  /\ new \subseteq Generated \cup Ruled
           /\ IsFiniteSet(new)
           /\ \A f \in new : f.rule_code \notin existing_codes(paper)
           /\ \A f, g \in new :
                 /\ f.rule_code = g.rule_code
                 /\ f.rule_code # "broker_consistency"
                 => f = g
           /\ \A f \in evaluate(p) \cup run(p) :
                 \/ f.rule_code \in existing_codes(paper)
                 \/ \E g \in new : g.rule_code = f.rule_code
  <1>1. /\ generate(paper, p) \subseteq Generated
        /\ FurtherResults(paper, p) \subseteq run(p)
        /\ FurtherResults(paper, p) \subseteq Ruled
    BY GeneratedOnly, RuledOnly DEF generate, FurtherResults
  <1>2. IsFiniteSet(new)
    <2>1. IsFiniteSet(Generated \cup Ruled)
      BY FindingsFinite, FS_Union
    <2> QED  BY <1>1, <2>1, FS_Subset
  <1>3. \A f \in new : f.rule_code \notin existing_codes(paper)
    BY DEF generate, FurtherResults
  <1>4. ASSUME NEW f \in new, NEW g \in new, f.rule_code = g.rule_code,
               f.rule_code # "broker_consistency"
        PROVE  f = g
    <2>1. CASE f \in generate(paper, p) /\ g \in generate(paper, p)
      BY <1>1, <1>4, <2>1, CodesGenerated
    <2>2. CASE f \in FurtherResults(paper, p) /\ g \in FurtherResults(paper, p)
      <3>1. f = g \/ f.rule_code = "missing_signature"
        BY <1>1, <1>4, <2>2, CodesRuled
      <3> QED  BY <1>1, <1>4, <2>2, <3>1, RuledOnly
    <2>3. CASE f \in generate(paper, p) /\ g \in FurtherResults(paper, p)
      BY <1>4, <2>3 DEF FurtherResults, Codes
    <2>4. CASE f \in FurtherResults(paper, p) /\ g \in generate(paper, p)
      BY <1>4, <2>4 DEF FurtherResults, Codes
    <2> QED  BY <2>1, <2>2, <2>3, <2>4
  <1>5. ASSUME NEW f \in evaluate(p) \cup run(p),
               f.rule_code \notin existing_codes(paper)
        PROVE  \E g \in new : g.rule_code = f.rule_code
    <2>1. CASE f \in generate(paper, p)
      BY <2>1
    <2>2. CASE f \in run(p) /\ f.rule_code \in Codes(generate(paper, p))
      BY <2>2 DEF Codes
    <2>3. CASE f \in run(p) /\ f.rule_code \notin Codes(generate(paper, p))
      BY <1>5, <2>3 DEF FurtherResults
    <2> QED  BY <1>5, <2>1, <2>2, <2>3 DEF generate
  <1> QED  BY <1>1, <1>2, <1>3, <1>4, <1>5

LEMMA ReviewInitially == ReviewInit => ReviewInv
  BY FS_EmptySet DEF ReviewInit, ReviewInv, IssuesSound, BrokenRulesHaveIssues

LEMMA Validating ==
    ASSUME ReviewInv, NEW paper \in Papers \cup {NoPaper}, NEW p \in Payloads,
           validate_load(paper, p)
    PROVE  ReviewInv'
  <1> DEFINE new == generate(paper, p) \cup FurtherResults(paper, p)
             issues == {Issue(paper, f) : f \in new}
             codes == Codes({f \in evaluate(p) \cup run(p) : f.is_blocking})
  <1>1. /\ paper \notin gone /\ gone' = gone
        /\ open' = open \cup issues
        /\ found' = [found EXCEPT ![paper] = codes]
    BY DEF validate_load
  <1>2. /\ new \subseteq Generated \cup Ruled
        /\ IsFiniteSet(new)
        /\ \A f \in new : f.rule_code \notin existing_codes(paper)
        /\ \A f, g \in new :
              /\ f.rule_code = g.rule_code
              /\ f.rule_code # "broker_consistency"
              => f = g
        /\ \A f \in evaluate(p) \cup run(p) :
              \/ f.rule_code \in existing_codes(paper)
              \/ \E g \in new : g.rule_code = f.rule_code
    BY NewFindings
  <1>3. \A f \in evaluate(p) \cup run(p) :
           /\ f.is_blocking /\ f.rule_code # "missing_signature"
           => f.rule_code \in Blocking
    BY GeneratedOnly, RuledOnly, FindingsSound
  <1> HIDE DEF new
  <1>4. ASSUME NEW i \in issues
        PROVE  /\ SoundIssue(i) /\ i.paper = paper
               /\ i.rule_code \notin existing_codes(paper)
    <2>1. PICK f \in new : i = Issue(paper, f)
      OBVIOUS
    <2> QED  BY <1>2, <2>1, FindingsSound, IssueParts DEF SoundIssue
  <1> DEFINE found1 == [found EXCEPT ![paper] = codes]
  <1>5. /\ found' = [q \in Papers \cup {NoPaper} |-> found'[q]]
        /\ found'[paper] = codes
        /\ \A q \in (Papers \cup {NoPaper}) \ {paper} : found'[q] = found[q]
    BY <1>1 DEF ReviewInv, IssuesSound
  <1> HIDE DEF codes
  <1>6. IssuesSound'
    <2>1. IsFiniteSet(issues)
      <3> DEFINE made == [f \in new |-> Issue(paper, f)]
      <3>1. made \in Surjection(new, issues)
        BY DEF Surjection
      <3> QED  BY <1>2, <3>1, FS_Surjection
    <2>2. IsFiniteSet(open')
      BY <1>1, <2>1, FS_Union DEF ReviewInv, IssuesSound
    <2>3. \A i \in open' : SoundIssue(i)
      BY <1>1, <1>4 DEF ReviewInv, IssuesSound
    <2> QED  BY <1>1, <1>5, <2>2, <2>3 DEF ReviewInv, IssuesSound, SoundIssue
  <1>7. ASSUME NEW q \in Papers \cup {NoPaper},
               NEW code \in found'[q] \ {"missing_signature"}
        PROVE  \E issue \in open' : /\ document_id(issue)' = q
                                    /\ issue.rule_code = code
                                    /\ issue.is_blocking
    <2>1. \A issue : document_id(issue)' = document_id(issue)
      BY <1>1 DEF document_id
    <2>2. CASE q # paper
      BY <1>1, <1>5, <1>7, <2>1, <2>2 DEF ReviewInv, BrokenRulesHaveIssues
    <2>3. CASE q = paper
      <3>1. PICK f \in evaluate(p) \cup run(p) : f.is_blocking /\ f.rule_code = code
        BY <1>5, <1>7, <2>3 DEF codes, Codes
      <3>2. code \in Blocking
        BY <1>3, <1>7, <3>1
      <3>3. CASE code \in existing_codes(paper)
        <4>1. PICK issue \in open : /\ document_id(issue) = paper
                                    /\ issue.rule_code = code
          BY <3>3 DEF existing_codes
        <4>2. issue.is_blocking
          BY <1>7, <3>2, <4>1 DEF ReviewInv, IssuesSound, SoundIssue
        <4> QED  BY <1>1, <2>1, <2>3, <4>1, <4>2
      <3>4. CASE code \notin existing_codes(paper)
        <4>1. PICK g \in new : g.rule_code = code
          BY <1>2, <3>1, <3>4
        <4>2. Issue(paper, g) \in issues
          OBVIOUS
        <4>3. Issue(paper, g).rule_code = code /\ Issue(paper, g).paper = paper
          BY <4>1, IssueParts
        <4>4. Issue(paper, g).is_blocking
          BY <1>4, <1>7, <3>2, <4>2, <4>3 DEF SoundIssue
        <4>5. document_id(Issue(paper, g)) = paper
          BY <1>1, <4>3 DEF document_id
        <4> QED  BY <1>1, <2>1, <2>3, <4>2, <4>3, <4>4, <4>5
      <3> QED  BY <3>3, <3>4
    <2> QED  BY <2>2, <2>3
  <1>8. ASSUME NEW i \in open', NEW j \in open',
               i.paper = j.paper, i.rule_code = j.rule_code,
               i.rule_code # "broker_consistency"
        PROVE  i = j
    <2>1. \A k \in open : k.paper = paper => k.rule_code \in existing_codes(paper)
      BY <1>1 DEF existing_codes, document_id
    <2>2. CASE i \in open /\ j \in open
      BY <1>8, <2>2 DEF ReviewInv, BrokenRulesHaveIssues
    <2>3. CASE i \in issues /\ j \in issues
      <3>1. PICK f \in new : i = Issue(paper, f)
        BY <2>3
      <3>2. PICK g \in new : j = Issue(paper, g)
        BY <2>3
      <3>3. f.rule_code = g.rule_code /\ f.rule_code # "broker_consistency"
        BY <1>8, <3>1, <3>2, IssueParts
      <3> QED  BY <1>2, <3>1, <3>2, <3>3
    <2> QED  BY <1>1, <1>4, <1>8, <2>1, <2>2, <2>3
  <1> QED  BY <1>6, <1>7, <1>8 DEF ReviewInv, BrokenRulesHaveIssues

LEMMA Resolving ==
    ASSUME ReviewInv, NEW issue \in open, resolve_validation_issue(issue)
    PROVE  ReviewInv'
  <1> DEFINE d == document_id(issue)
  <1>1. /\ open' = open \ {issue} /\ gone' = gone
        /\ found' = [found EXCEPT ![d] = @ \ {issue.rule_code}]
    BY DEF resolve_validation_issue
  <1>2. d \in Papers \cup {NoPaper}
    BY DEF document_id, ReviewInv, IssuesSound, SoundIssue
  <1>3. /\ found' = [q \in Papers \cup {NoPaper} |-> found'[q]]
        /\ found'[d] = found[d] \ {issue.rule_code}
        /\ \A q \in (Papers \cup {NoPaper}) \ {d} : found'[q] = found[q]
    BY <1>1, <1>2 DEF ReviewInv, IssuesSound
  <1>4. IssuesSound'
    <2>1. IsFiniteSet(open')
      BY <1>1, FS_Subset DEF ReviewInv, IssuesSound
    <2> QED  BY <1>1, <1>3, <2>1 DEF ReviewInv, IssuesSound, SoundIssue
  <1>5. \A i : document_id(i)' = document_id(i)
    BY <1>1 DEF document_id
  <1>6. ASSUME NEW q \in Papers \cup {NoPaper},
               NEW code \in found'[q] \ {"missing_signature"}
        PROVE  \E i \in open' : /\ document_id(i)' = q
                                /\ i.rule_code = code
                                /\ i.is_blocking
    <2>1. code \in found[q] \ {"missing_signature"}
      BY <1>3, <1>6
    <2>2. PICK i \in open : /\ document_id(i) = q
                            /\ i.rule_code = code
                            /\ i.is_blocking
      BY <2>1 DEF ReviewInv, BrokenRulesHaveIssues
    <2>3. i # issue
      BY <1>3, <1>6, <2>2
    <2> QED  BY <1>1, <1>5, <2>2, <2>3
  <1>7. \A i, j \in open' :
           /\ i.paper = j.paper /\ i.rule_code = j.rule_code
           /\ i.rule_code # "broker_consistency"
           => i = j
    BY <1>1 DEF ReviewInv, BrokenRulesHaveIssues
  <1> QED  BY <1>4, <1>6, <1>7 DEF ReviewInv, BrokenRulesHaveIssues

LEMMA Deleting ==
    ASSUME ReviewInv, NEW paper \in Papers \ gone, DeletePaper(paper)
    PROVE  ReviewInv'
  <1>1. /\ open' = open /\ gone' = gone \cup {paper}
        /\ found' = [found EXCEPT ![paper] = {}]
    BY DEF DeletePaper
  <1>2. /\ found' = [q \in Papers \cup {NoPaper} |-> found'[q]]
        /\ found'[paper] = {}
        /\ \A q \in (Papers \cup {NoPaper}) \ {paper} : found'[q] = found[q]
    BY <1>1 DEF ReviewInv, IssuesSound
  <1>3. IssuesSound'
    BY <1>1, <1>2 DEF ReviewInv, IssuesSound, SoundIssue
  <1>4. ASSUME NEW q \in Papers \cup {NoPaper},
               NEW code \in found'[q] \ {"missing_signature"}
        PROVE  \E i \in open' : /\ document_id(i)' = q
                                /\ i.rule_code = code
                                /\ i.is_blocking
    <2>1. q # paper /\ code \in found[q] \ {"missing_signature"}
      BY <1>2, <1>4
    <2>2. PICK i \in open : /\ document_id(i) = q
                            /\ i.rule_code = code
                            /\ i.is_blocking
      BY <2>1 DEF ReviewInv, BrokenRulesHaveIssues
    <2>3. document_id(i)' = q
      BY <1>1, <2>1, <2>2 DEF document_id
    <2> QED  BY <1>1, <2>2, <2>3
  <1>5. \A i, j \in open' :
           /\ i.paper = j.paper /\ i.rule_code = j.rule_code
           /\ i.rule_code # "broker_consistency"
           => i = j
    BY <1>1 DEF ReviewInv, BrokenRulesHaveIssues
  <1> QED  BY <1>3, <1>4, <1>5 DEF ReviewInv, BrokenRulesHaveIssues

LEMMA ReviewStep ==
    ASSUME ReviewInv, [ReviewNext]_reviewVars
    PROVE  ReviewInv'
  <1>1. ASSUME NEW paper \in Papers \cup {NoPaper}, NEW p \in Payloads,
               validate_load(paper, p)
        PROVE  ReviewInv'
    BY <1>1, Validating
  <1>2. ASSUME NEW paper \in Papers \ gone, DeletePaper(paper)
        PROVE  ReviewInv'
    BY <1>2, Deleting
  <1>3. CASE ResolveValidationIssue
    BY <1>3, Resolving DEF ResolveValidationIssue
  <1>4. CASE MarkLoadReviewed \/ UNCHANGED reviewVars
    BY <1>4 DEF MarkLoadReviewed, mark_load_reviewed, reviewVars, ReviewInv,
                IssuesSound, SoundIssue, BrokenRulesHaveIssues, document_id
  <1> QED  BY <1>1, <1>2, <1>3, <1>4 DEF ReviewNext

\* The issue that the queue shows of a load blocks exactly if one of them does.
LEMMA PrimarySound ==
    ASSUME IssuesSound, NEW primary \in PrimaryIssues
    PROVE  /\ primary \in open
           /\ primary.is_blocking \in BOOLEAN
           /\ primary.is_blocking <=> \E issue \in open : issue.is_blocking
           /\ (normalize_severity(primary.severity) = "high") <=> primary.is_blocking
  <1>1. \A i \in open :
           /\ i.is_blocking => /\ issue_sort_rank(i) = 0
                               /\ normalize_severity(i.severity) = "high"
           /\ ~i.is_blocking => /\ issue_sort_rank(i) = 1
                                /\ normalize_severity(i.severity) = "medium"
    BY DEF IssuesSound, SoundIssue, issue_sort_rank, normalize_severity
  <1>2. primary \in open
        /\ \A i \in open : issue_sort_rank(primary) <= issue_sort_rank(i)
    BY DEF PrimaryIssues
  <1>3. primary.is_blocking \in BOOLEAN
    BY <1>2 DEF IssuesSound, SoundIssue
  <1> QED  BY <1>1, <1>2, <1>3

LEMMA QueueFollows == IssuesSound => QueueShowsBlockers
  <1> SUFFICES ASSUME IssuesSound PROVE QueueShowsBlockers
    OBVIOUS
  <1> DEFINE blocked == \E issue \in open : issue.is_blocking
             blocking == {i \in open : i.is_blocking}
             warnings == {i \in open : normalize_severity(i.severity) = "medium"}
             empty == [issue_count |-> 0, blocking_issue_count |-> 0,
                       warning_issue_count |-> 0, severity |-> "low",
                       primary_issue_is_blocking |-> FALSE]
  <1>1. high_priority = blocked
    <2>1. \A i \in open : i.is_blocking <=> i.severity \in {"critical", "error"}
      BY DEF IssuesSound, SoundIssue
    <2> QED  BY <2>1 DEF high_priority
  <1>2. Cardinality(open) = Cardinality(blocking) + Cardinality(warnings)
    <2>1. \A i \in open : ~i.is_blocking <=> normalize_severity(i.severity) = "medium"
      BY DEF IssuesSound, SoundIssue, normalize_severity
    <2>2. open = blocking \cup warnings /\ blocking \cap warnings = {}
      BY <2>1
    <2>3. IsFiniteSet(blocking) /\ IsFiniteSet(warnings)
      BY FS_Subset DEF IssuesSound
    <2>4. /\ Cardinality(blocking) \in Nat /\ Cardinality(warnings) \in Nat
          /\ Cardinality(blocking \cap warnings) = 0
      BY <2>2, <2>3, FS_CardinalityType, FS_EmptySet
    <2>5. Cardinality(blocking \cup warnings)
          = Cardinality(blocking) + Cardinality(warnings)
            - Cardinality(blocking \cap warnings)
      BY <2>3, FS_Union
    <2>6. Cardinality(open) = Cardinality(blocking \cup warnings)
      BY <2>2
    <2> HIDE DEF blocking, warnings
    <2> QED  BY <2>4, <2>5, <2>6
  <1>3. open # {} <=> PrimaryIssues # {}
    <2>1. \A i \in open : issue_sort_rank(i) \in {0, 1}
      BY DEF IssuesSound, SoundIssue, issue_sort_rank, normalize_severity
    <2>2. CASE \E i \in open : issue_sort_rank(i) = 0
      BY <2>1, <2>2 DEF PrimaryIssues
    <2>3. CASE ~\E i \in open : issue_sort_rank(i) = 0
      BY <2>1, <2>3 DEF PrimaryIssues
    <2> QED  BY <2>2, <2>3
  <1>4. (Cardinality(open) = 0) <=> (open = {})
    BY FS_EmptySet DEF IssuesSound
  <1>5. ASSUME NEW primary \in PrimaryIssues
        PROVE  LET item == queue_item(primary)
               IN  /\ (item.severity = "high") = blocked
                   /\ item.primary_issue_is_blocking = blocked
                   /\ item.issue_count = Cardinality(open)
                   /\ item.issue_count =
                         item.blocking_issue_count + item.warning_issue_count
    BY <1>2, <1>5, PrimarySound DEF queue_item
  <1>6. get_review_queue = {} <=> open = {}
    BY <1>3 DEF get_review_queue
  <1>7. CASE open = {}
    <2>1. get_load_review_context = {empty}
      BY <1>7 DEF get_load_review_context
    <2>2. get_review_queue = {} /\ blocked = FALSE
      BY <1>6, <1>7
    <2>3. /\ (empty.severity = "high") = FALSE
          /\ empty.primary_issue_is_blocking = FALSE
          /\ empty.issue_count = 0 /\ empty.blocking_issue_count = 0
          /\ empty.warning_issue_count = 0
      OBVIOUS
    <2>4. /\ (empty.severity = "high") = blocked
          /\ empty.primary_issue_is_blocking = blocked
          /\ empty.issue_count =
                empty.blocking_issue_count + empty.warning_issue_count
          /\ (empty.issue_count = 0) = (get_review_queue = {})
      <3> HIDE DEF empty
      <3>1. (empty.severity = "high") = blocked
        BY <2>2, <2>3
      <3>2. empty.primary_issue_is_blocking = blocked
        BY <2>2, <2>3
      <3>3. empty.issue_count
            = empty.blocking_issue_count + empty.warning_issue_count
        BY <2>3
      <3>4. (empty.issue_count = 0) = (get_review_queue = {})
        BY <2>2, <2>3
      <3> QED  BY <3>1, <3>2, <3>3, <3>4
    <2>5. \A line \in get_review_queue :
             /\ line.high_priority = blocked
             /\ line.item \in get_load_review_context
      BY <2>2
    <2> HIDE DEF empty
    <2> QED  BY <2>1, <2>4, <2>5 DEF QueueShowsBlockers
  <1>8. CASE open # {}
    <2>1. get_load_review_context = {queue_item(primary) : primary \in PrimaryIssues}
      BY <1>8 DEF get_load_review_context
    <2>2. \A line \in get_review_queue :
             /\ line.high_priority = blocked
             /\ line.item \in get_load_review_context
      <3> SUFFICES ASSUME NEW line \in get_review_queue
                   PROVE  /\ line.high_priority = blocked
                          /\ line.item \in get_load_review_context
        OBVIOUS
      <3>1. PICK primary \in PrimaryIssues :
               line = [high_priority |-> high_priority, item |-> queue_item(primary)]
        BY DEF get_review_queue
      <3>2. high_priority \in BOOLEAN
        BY DEF high_priority
      <3>3. line.high_priority = high_priority /\ line.item = queue_item(primary)
        BY <3>1, <3>2
      <3> QED  BY <1>1, <2>1, <3>3
    <2>3. Cardinality(open) # 0 /\ get_review_queue # {}
      BY <1>4, <1>6, <1>8
    <2> QED  BY <1>5, <2>1, <2>2, <2>3 DEF QueueShowsBlockers
  <1> QED  BY <1>7, <1>8

\* What the rules find broken gets to the reviewer, and as what it is, whatever
\* documents and payloads there are (validate_load, list_review_queue).
THEOREM ReviewersAlwaysSee == ReviewSpec => []ReviewersSeeBrokenRules
  <1>1. ReviewInv => ReviewersSeeBrokenRules
    BY QueueFollows DEF ReviewInv, ReviewersSeeBrokenRules
  <1>2. ReviewInv /\ [ReviewNext]_reviewVars => ReviewInv'
    BY ReviewStep
  <1> QED  BY ReviewInitially, <1>1, <1>2, PTL DEF ReviewSpec

-----------------------------------------------------------------------------
(* The rate limiter.                                                       *)


RateInv == RateTypeOK /\ RetriesReachTheNextWindow /\ WaitsReachTheEnd

LEMMA WindowIsPositive ==
    ASSUME NEW k \in Keys
    PROVE  /\ WindowSeconds[SettingsOf[k[1]]] * TicksPerSecond \in Nat \ {0}
           /\ MaxRequests[SettingsOf[k[1]]] \in Nat \ {0}
<1> DEFINE g == SettingsOf[k[1]]
<1>1. g \in {"login", "public", "billing", "upload"}
  BY DEF SettingsOf, Keys, Policy
<1>2. WindowSeconds[g] \in Nat \ {0} /\ MaxRequests[g] \in Nat \ {0}
  BY <1>1, WindowAssumption
<1> HIDE DEF g
<1>3. \A a, b \in Nat \ {0} : a * b \in Nat \ {0}
  BY Z3
<1>4. QED
  BY <1>2, <1>3, TicksAssumption DEF g

\* Rounding down costs less than a second, and never leaves less than one.
LEMMA RetryAfterBounds ==
    ASSUME NEW left \in Nat
    PROVE  /\ RetryAfter(left) * TicksPerSecond \in Nat
           /\ left < RetryAfter(left) * TicksPerSecond + TicksPerSecond
           /\ left < TicksPerSecond => left <= RetryAfter(left) * TicksPerSecond
<1>1. CASE left < TicksPerSecond
  BY <1>1, TicksAssumption DEF RetryAfter
<1>2. CASE ~(left < TicksPerSecond)
  <2> DEFINE q == left \div TicksPerSecond
  <2>1. q \in Nat /\ left < q * TicksPerSecond + TicksPerSecond
    BY TicksAssumption, SMT
  <2>2. q * TicksPerSecond \in Nat
    BY <2>1, TicksAssumption, SMT
  <2>3. QED
    BY <1>2, <2>1, <2>2 DEF RetryAfter
<1>3. QED
  BY <1>1, <1>2
-----------------------------------------------------------------------------
\* A request is answered.  A caller that was refused before had waited, so its
\* second wait reaches the end of the window, and a third request the next.
LEMMA AnswerStep ==
    ASSUME RateInv, NEW c \in Callers, NEW k \in Keys, Answer(c, k)
    PROVE  RateInv'
<1> DEFINE b == Counted(k)
           told == caller[c][k]
           told1 == caller'[c][k]
<1>1. /\ told \in [wait : Nat, refusals : Nat] /\ told.wait = 0 /\ told.refusals <= 2
      /\ bucket[k] \in Bucket
  BY DEF Answer, RateInv, RateTypeOK, Caller, RetriesReachTheNextWindow
<1>2. b \in Bucket /\ b.left # 0 /\ (bucket[k].left # 0 => b.left = bucket[k].left)
  BY <1>1, WindowIsPositive DEF Counted, Bucket
<1>3. /\ bucket' = [bucket EXCEPT ![k] = b]
      /\ caller' = [caller EXCEPT ![c][k] = told1]
      /\ told1 = IF b.count > MaxRequests[SettingsOf[k[1]]]
                 THEN [wait |-> RetryAfter(b.left) * TicksPerSecond,
                       refusals |-> IF bucket[k].left = 0 THEN 1
                                    ELSE told.refusals + 1]
                 ELSE [wait |-> 0, refusals |-> 0]
  BY DEF Answer, RateInv, RateTypeOK, Caller
<1>4. b.left \in Nat
  BY <1>2 DEF Bucket
<1>5. /\ told1 \in [wait : Nat, refusals : Nat]
      /\ told1.refusals <= 2
      /\ told1.refusals = 1 => b.left < told1.wait + TicksPerSecond
      /\ told1.refusals = 2 => b.left <= told1.wait
  <2>1. CASE ~(b.count > MaxRequests[SettingsOf[k[1]]])
    BY <2>1, <1>3
  <2>2. CASE b.count > MaxRequests[SettingsOf[k[1]]] /\ bucket[k].left = 0
    BY <2>2, <1>3, <1>4, RetryAfterBounds
  <2>3. CASE b.count > MaxRequests[SettingsOf[k[1]]] /\ bucket[k].left # 0
    <3>1. told.refusals = 0 \/ (told.refusals = 1 /\ b.left < TicksPerSecond)
      BY <2>3, <1>1, <1>2, TicksAssumption DEF RateInv, WaitsReachTheEnd, Bucket
    <3>2. QED
      BY <2>3, <3>1, <1>1, <1>3, <1>4, RetryAfterBounds
  <2>4. QED
    BY <2>1, <2>2, <2>3
<1>6. \A d \in Callers, j \in Keys :
         \/ d = c /\ j = k
         \/ caller'[d][j] = caller[d][j]
  BY <1>3 DEF RateInv, RateTypeOK, Caller
<1>7. \A j \in Keys : j # k => bucket'[j] = bucket[j]
  BY <1>3 DEF RateInv, RateTypeOK
<1>8. bucket'[k] = b
  BY <1>3 DEF RateInv, RateTypeOK
<1>9. RateTypeOK'
  <2>1. bucket' \in [Keys -> Bucket]
    BY <1>2, <1>3 DEF RateInv, RateTypeOK
  <2>2. caller' \in [Callers -> Caller]
    <3>1. caller \in [Callers -> Caller] /\ caller[c] \in Caller
      BY DEF RateInv, RateTypeOK
    <3>2. [caller[c] EXCEPT ![k] = told1] \in Caller
      BY <3>1, <1>5 DEF Caller
    <3>3. caller' = [caller EXCEPT ![c] = [caller[c] EXCEPT ![k] = told1]]
      BY <1>3
    <3> HIDE DEF told1
    <3>4. QED
      BY <3>1, <3>2, <3>3
  <2>3. QED
    BY <2>1, <2>2 DEF RateTypeOK
<1>10. RetriesReachTheNextWindow'
  BY <1>5, <1>6 DEF RateInv, RetriesReachTheNextWindow
<1>11. ASSUME NEW d \in Callers, NEW j \in Keys
       PROVE  /\ caller'[d][j].refusals = 1 =>
                    bucket'[j].left < caller'[d][j].wait + TicksPerSecond
              /\ caller'[d][j].refusals = 2 => bucket'[j].left <= caller'[d][j].wait
              /\ bucket'[j].left = 0 => caller'[d][j].refusals = 0
  <2>1. CASE j # k
    BY <2>1, <1>6, <1>7 DEF RateInv, WaitsReachTheEnd
  <2>2. CASE j = k /\ d = c
    BY <2>2, <1>2, <1>5, <1>8
  \* Another caller of the key: its window goes on, or it has no refusals.
  <2>3. CASE j = k /\ d # c
    BY <2>3, <1>2, <1>6, <1>8 DEF RateInv, WaitsReachTheEnd
  <2>4. QED
    BY <2>1, <2>2, <2>3
<1>12. WaitsReachTheEnd'
  BY <1>11 DEF WaitsReachTheEnd
<1>13. QED
  BY <1>9, <1>10, <1>12 DEF RateInv

LEMMA GiveUpStep ==
    ASSUME RateInv, NEW c \in Callers, NEW k \in Keys, GiveUp(c, k)
    PROVE  RateInv'
<1>1. /\ bucket' = bucket
      /\ caller' = [caller EXCEPT ![c][k] = [wait |-> 0, refusals |-> 0]]
  BY DEF GiveUp
<1>2. caller' \in [Callers -> Caller]
  BY <1>1 DEF RateInv, RateTypeOK, Caller
<1>3. \A d \in Callers, j \in Keys :
         caller'[d][j] \in {caller[d][j], [wait |-> 0, refusals |-> 0]}
  BY <1>1 DEF RateInv, RateTypeOK, Caller
<1>4. QED
  BY <1>1, <1>2, <1>3 DEF RateInv, RateTypeOK, RetriesReachTheNextWindow, WaitsReachTheEnd

LEMMA PassStep ==
    ASSUME RateInv, NEW ticks \in Nat \ {0}, Pass(ticks)
    PROVE  RateInv'
<1>1. ASSUME NEW c \in Callers, NEW k \in Keys
      PROVE  /\ caller[c][k] \in [wait : Nat, refusals : Nat]
             /\ bucket[k] \in Bucket
  BY DEF RateInv, RateTypeOK, Caller
<1>2. RateTypeOK'
  <2>1. bucket' \in [Keys -> Bucket]
    <3>1. ASSUME NEW k \in Keys
          PROVE  (IF bucket[k].left <= ticks THEN Expired
                  ELSE [bucket[k] EXCEPT !.left = @ - ticks]) \in Bucket
      <4>1. bucket[k] \in Bucket
        BY DEF RateInv, RateTypeOK
      <4>2. QED
        BY <4>1 DEF Bucket, Expired
    <3>2. QED
      BY <3>1 DEF Pass
  <2>2. caller' \in [Callers -> Caller]
    <3>1. ASSUME NEW c \in Callers, NEW k \in Keys
          PROVE  [wait |-> IF caller[c][k].wait <= ticks THEN 0 ELSE caller[c][k].wait - ticks,
                  refusals |-> IF bucket[k].left <= ticks THEN 0
                               ELSE caller[c][k].refusals]
                 \in [wait : Nat, refusals : Nat]
      BY <1>1
    <3>2. QED
      BY <3>1 DEF Pass, Caller
  <2>3. QED
    BY <2>1, <2>2 DEF RateTypeOK
<1>3. ASSUME NEW c \in Callers, NEW k \in Keys
      PROVE  /\ caller'[c][k].refusals <= 2
             /\ caller'[c][k].refusals = 1 =>
                    bucket'[k].left < caller'[c][k].wait + TicksPerSecond
             /\ caller'[c][k].refusals = 2 => bucket'[k].left <= caller'[c][k].wait
             /\ bucket'[k].left = 0 => caller'[c][k].refusals = 0
  <2>1. /\ caller[c][k].refusals <= 2
        /\ caller[c][k].refusals = 1 =>
               bucket[k].left < caller[c][k].wait + TicksPerSecond
        /\ caller[c][k].refusals = 2 => bucket[k].left <= caller[c][k].wait
    BY DEF RateInv, RetriesReachTheNextWindow, WaitsReachTheEnd
  <2>2. CASE bucket[k].left <= ticks
    BY <2>2 DEF Pass
  <2>3. CASE ~(bucket[k].left <= ticks)
    <3>1. /\ bucket'[k].left = bucket[k].left - ticks
          /\ caller'[c][k].refusals = caller[c][k].refusals
          /\ caller'[c][k].wait = IF caller[c][k].wait <= ticks THEN 0
                                  ELSE caller[c][k].wait - ticks
      BY <2>3, <1>1 DEF Pass, Bucket
    <3>2. bucket[k].left \in Nat /\ caller[c][k].wait \in Nat
      BY <1>1 DEF Bucket
    <3>3. QED
      BY <2>1, <2>3, <3>1, <3>2, TicksAssumption
  <2>4. QED
    BY <2>2, <2>3
<1>4. QED
  BY <1>2, <1>3 DEF RateInv, RetriesReachTheNextWindow, WaitsReachTheEnd

LEMMA RestartStep ==
    ASSUME RateInv, Restart
    PROVE  RateInv'
<1>1. bucket' \in [Keys -> Bucket] /\ caller' \in [Callers -> Caller]
  <2>1. ASSUME NEW c \in Callers, NEW k \in Keys
        PROVE  [caller[c][k] EXCEPT !.refusals = 0] \in [wait : Nat, refusals : Nat]
    <3>1. caller[c][k] \in [wait : Nat, refusals : Nat]
      BY DEF RateInv, RateTypeOK, Caller
    <3>2. QED
      BY <3>1
  <2>2. caller' \in [Callers -> Caller]
    BY <2>1 DEF Restart, Caller
  <2>3. bucket' \in [Keys -> Bucket]
    BY DEF Restart, Bucket, Expired
  <2>4. QED
    BY <2>2, <2>3
<1>2. \A c \in Callers, k \in Keys : caller'[c][k].refusals = 0
  BY DEF Restart, RateInv, RateTypeOK, Caller
<1>3. QED
  BY <1>1, <1>2 DEF RateInv, RateTypeOK, RetriesReachTheNextWindow, WaitsReachTheEnd

-----------------------------------------------------------------------------
\* A caller that obeys is refused at most twice in one window (dispatch).
THEOREM RetriesAlwaysReachTheNextWindow ==
    RateSpec => []RetriesReachTheNextWindow
<1>1. RateInit => RateInv
  BY DEF RateInit, RateInv, RateTypeOK, Bucket, Caller, Expired,
         RetriesReachTheNextWindow, WaitsReachTheEnd
<1>2. RateInv /\ [RateNext]_rateVars => RateInv'
  <2> SUFFICES ASSUME RateInv, [RateNext]_rateVars PROVE RateInv'
    OBVIOUS
  <2>1. CASE \E c \in Callers, path \in Paths, sender \in Senders :
                Dispatch(c, path, sender)
    <3>1. PICK c \in Callers, path \in Paths, sender \in Senders :
             Dispatch(c, path, sender)
      BY <2>1
    <3>2. <<policy_for_path(path), sender>> \in Keys
      BY <3>1 DEF Dispatch, Keys
    <3>3. QED
      BY <3>1, <3>2, AnswerStep DEF Dispatch
  <2>2. CASE \E c \in Callers, k \in Keys : GiveUp(c, k)
    BY <2>2, GiveUpStep
  <2>3. CASE \E ticks \in 1 .. MaxPass : Pass(ticks)
    BY <2>3, PassStep, BoundsAssumption
  <2>4. CASE Restart
    BY <2>4, RestartStep
  <2>5. CASE UNCHANGED rateVars
    BY <2>5 DEF RateInv, RateTypeOK, RetriesReachTheNextWindow, WaitsReachTheEnd,
                rateVars
  <2>6. QED
    BY <2>1, <2>2, <2>3, <2>4, <2>5 DEF RateNext
<1>3. RateInv => RetriesReachTheNextWindow
  BY DEF RateInv
<1>4. QED
  BY <1>1, <1>2, <1>3, PTL DEF RateSpec
=============================================================================
