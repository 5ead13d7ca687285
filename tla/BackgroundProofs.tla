------------------------- MODULE BackgroundProofs -------------------------
(***************************************************************************)
(* Proofs about what goes on behind the requests: the packets of a load,   *)
(* their audit and their e-mails, the daily follow-ups, the extraction of  *)
(* documents, and the operational e-mails.                                 *)
(***************************************************************************)
EXTENDS FollowUps, DocumentExtraction, Notifications, FiniteSetTheorems,
        WellFoundedInduction, TLAPS

-----------------------------------------------------------------------------
(* Finite sets of numbers.                                                 *)

\* A finite set of numbers that is not empty has a greatest element: otherwise
\* there were a smallest one without, and it would have another element less.
LEMMA GreatestElement ==
    ASSUME NEW S, IsFiniteSet(S), S \subseteq Nat, S # {}
    PROVE  \E m \in S : \A n \in S : n <= m
  <1> DEFINE Greatest(U) == \E m \in U : \A n \in U : n <= m
             Sizes == {k \in Nat : \E U \in SUBSET S :
                          U # {} /\ Cardinality(U) = k /\ ~Greatest(U)}
  <1> SUFFICES ASSUME ~Greatest(S) PROVE FALSE
    OBVIOUS
  <1>1. Sizes # {}
    <2>1. Cardinality(S) \in Nat
      BY FS_CardinalityType
    <2> QED  BY <2>1
  <1>2. PICK k \in Sizes : \A j \in Sizes : ~(j < k)
    <2>1. \E x \in Sizes : \A y \in Sizes : <<y, x>> \notin OpToRel(<, Nat)
      <3> HIDE DEF Sizes
      <3>1. Sizes \subseteq Nat
        BY DEF Sizes
      <3> QED  BY <1>1, <3>1, WFMin, NatLessThanWellFounded
    <2> QED  BY <2>1 DEF OpToRel
  <1>3. PICK U \in SUBSET S : U # {} /\ Cardinality(U) = k /\ ~Greatest(U)
    OBVIOUS
  <1>4. PICK x : x \in U
    BY <1>3
  <1> DEFINE V == U \ {x}
  <1>5. IsFiniteSet(U) /\ x \in Nat /\ k \in Nat
    BY <1>4, FS_Subset
  <1>6. Cardinality(V) = k - 1 /\ Cardinality(V) \in Nat
    <2>1. Cardinality(V) = Cardinality(U) - 1 /\ IsFiniteSet(V)
      BY <1>4, <1>5, FS_RemoveElement
    <2> QED  BY <1>3, <2>1, FS_CardinalityType
  <1>7. V # {}
    BY <1>3, <1>4, <1>5
  <1>8. Greatest(V)
    <2>1. k - 1 \notin Sizes /\ k - 1 \in Nat
      BY <1>2, <1>5, <1>6
    <2> QED  BY <1>6, <1>7, <2>1
  <1>9. PICK m \in V : \A n \in V : n <= m
    BY <1>8
  <1>10. m \in U /\ m \in Nat /\ \A n \in U : n = x \/ n \in V
    BY <1>9
  <1>11. CASE x <= m
    <2>1. \A n \in U : n <= m
      BY <1>9, <1>10, <1>11
    <2> QED  BY <1>3, <1>10, <2>1
  <1>12. CASE m <= x
    <2>1. \A n \in U : n <= x
      BY <1>5, <1>9, <1>10, <1>12
    <2> QED  BY <1>3, <1>4, <2>1
  <1> QED  BY <1>5, <1>10, <1>11, <1>12

LEMMA GreatestOfTwo ==
    ASSUME NEW x \in Int
    PROVE  Max({0, x}) = IF x > 0 THEN x ELSE 0
  <1> DEFINE greatest == IF x > 0 THEN x ELSE 0
  <1>1. greatest \in {0, x} /\ \A y \in {0, x} : greatest >= y
    OBVIOUS
  <1>2. \A m \in {0, x} : (\A y \in {0, x} : m >= y) => m = greatest
    OBVIOUS
  <1> HIDE DEF greatest
  <1>3. (CHOOSE m \in {0, x} : \A y \in {0, x} : m >= y) = greatest
    BY <1>1, <1>2
  <1> QED  BY <1>3 DEF Max, greatest

-----------------------------------------------------------------------------
(* The audit of a packet.                                                  *)

LEMMA FindingSeverity ==
    ASSUME NEW code, NEW severity, NEW about
    PROVE  /\ Finding(code, severity).severity = severity
           /\ [Finding(code, severity) EXCEPT !.about = about].severity = severity
  BY DEF Finding

LEMMA SeverityOfTypes ==
    /\ REQUIRED_DOC_TYPES \subseteq DOMAIN Severity
    /\ IsFiniteSet(DOMAIN Severity)
    /\ \A type \in REQUIRED_DOC_TYPES : Severity[type] = "blocking"
  <1>1. DOMAIN Severity = {"proof_of_delivery", "bill_of_lading"}
                          \cup {"rate_confirmation", "invoice"}
    BY DEF Severity
  <1>2. \A x, y : {x, y} = {x} \cup {y}
    OBVIOUS
  <1>3. \A x, y : IsFiniteSet({x, y})
    <2> SUFFICES ASSUME NEW x, NEW y PROVE IsFiniteSet({x, y})
      OBVIOUS
    <2>1. IsFiniteSet({x} \cup {y})
      BY FS_Singleton, FS_Union
    <2> QED  BY <1>2, <2>1
  <1>4. IsFiniteSet(DOMAIN Severity)
    <2>1. IsFiniteSet({"proof_of_delivery", "bill_of_lading"}
                      \cup {"rate_confirmation", "invoice"})
      BY <1>3, FS_Union
    <2> QED  BY <1>1, <2>1
  <1> QED  BY <1>4 DEF Severity, REQUIRED_DOC_TYPES

\* A set with at most one element, as the findings about a whole load are.
LEMMA OneAtMost ==
    ASSUME NEW S, NEW x, S \subseteq {x}
    PROVE  IsFiniteSet(S)
  BY FS_Singleton, FS_Subset

LEMMA ImageFinite ==
    ASSUME NEW S, IsFiniteSet(S), NEW f
    PROVE  IsFiniteSet({f[x] : x \in S})
  <1> DEFINE T == {f[x] : x \in S}
             g == [x \in S |-> f[x]]
  <1>1. g \in Surjection(S, T)
    BY DEF Surjection
  <1> QED  BY <1>1, FS_Surjection

\* The audit's findings are finitely many, as the load's rows are.
LEMMA FindingsFinite ==
    ASSUME NEW e, IsFiniteSet(e.rows)
    PROVE  IsFiniteSet(Findings(e))
  <1>1. IsFiniteSet(required_document_findings(e))
    <2> DEFINE F == [t \in DOMAIN Severity |-> Finding(t, Severity[t])]
               T == {t \in DOMAIN Severity :
                        \/ t \notin TypesIn(e, e.rows)
                        \/ e.snapshot # {} /\ t \notin TypesIn(e, e.snapshot)}
    <2>1. IsFiniteSet(T)
      BY SeverityOfTypes, FS_Subset
    <2>2. required_document_findings(e) = {F[t] : t \in T}
      BY DEF required_document_findings
    <2> HIDE DEF T, F
    <2> QED  BY <2>1, <2>2, ImageFinite
  <1>2. IsFiniteSet(unsigned_pod_findings(e))
    <2> DEFINE F == [d \in e.rows |->
                       [Finding("possible_unsigned_pod", "warning")
                          EXCEPT !.about = {d}]]
               T == {d \in RowsOf(e, "proof_of_delivery") :
                        e.field[d].signature # "yes"}
    <2>1. IsFiniteSet(T)
      BY FS_Subset DEF RowsOf
    <2>2. unsigned_pod_findings(e) = {F[d] : d \in T}
      BY DEF unsigned_pod_findings, RowsOf
    <2> HIDE DEF T, F
    <2> QED  BY <2>1, <2>2, ImageFinite
  <1>3. IsFiniteSet(amount_findings(e))
    <2> DEFINE a == Finding("amount_mismatch", "warning")
               f == Finding("funded_amount_mismatch", "warning")
    <2>1. amount_findings(e) \subseteq {a} \cup {f}
      BY DEF amount_findings
    <2>2. IsFiniteSet({a} \cup {f})
      BY FS_Singleton, FS_Union
    <2> QED  BY <2>1, <2>2, FS_Subset
  <1>4. IsFiniteSet(duplicate_invoice_findings(e))
    <2> DEFINE a == Finding("duplicate_invoice_number", "blocking")
               f == Finding("repeated_packet_send", "warning")
    <2>1. duplicate_invoice_findings(e) \subseteq {a} \cup {f}
      BY DEF duplicate_invoice_findings
    <2>2. IsFiniteSet({a} \cup {f})
      BY FS_Singleton, FS_Union
    <2> QED  BY <2>1, <2>2, FS_Subset
  <1>5. IsFiniteSet(lumper_findings(e))
    <2>1. lumper_findings(e) \subseteq {Finding("missing_lumper_receipt", "warning")}
      BY DEF lumper_findings
    <2> QED  BY <2>1, OneAtMost
  <1>6. IsFiniteSet(broker_reference_findings(e))
    <2>1. broker_reference_findings(e)
            \subseteq {Finding("broker_reference_mismatch", "warning")}
      BY DEF broker_reference_findings
    <2> QED  BY <2>1, OneAtMost
  <1> QED  BY <1>1, <1>2, <1>3, <1>4, <1>5, <1>6, FS_Union DEF Findings

\* An audit that does not fail has found every required type among the load's
\* rows, and in the packet, unless the packet has no rows left.
LEMMA NotFailedIsComplete ==
    ASSUME NEW e, AuditStatus(Findings(e)) # "failed",
           NEW type \in REQUIRED_DOC_TYPES
    PROVE  /\ type \in TypesIn(e, e.rows)
           /\ e.snapshot # {} => type \in TypesIn(e, e.snapshot)
  <1> DEFINE f == Finding(type, Severity[type])
  <1>1. Graded(Findings(e), "blocking") = {}
    BY DEF AuditStatus
  <1>2. type \in DOMAIN Severity /\ f.severity = "blocking"
    BY SeverityOfTypes, FindingSeverity
  <1> HIDE DEF f
  <1>3. f \notin Findings(e)
    BY <1>1, <1>2 DEF Graded
  <1>4. f \notin required_document_findings(e)
    BY <1>3 DEF Findings
  <1> QED  BY <1>2, <1>4 DEF required_document_findings, f

\* A failed audit scores at most 75, and a passed one at least 85.
LEMMA ScoreFollowsStatus ==
    ASSUME NEW e, IsFiniteSet(e.rows)
    PROVE  LET findings == Findings(e)
               score == confidence_score(e, findings)
           IN  /\ AuditStatus(findings) = "failed" => score <= 75
               /\ AuditStatus(findings) = "passed" => score >= 85
  <1> DEFINE blocking == Graded(Findings(e), "blocking")
             warning == Graded(Findings(e), "warning")
             unread == IF \A d \in e.rows : e.field[d] = Unread THEN 10 ELSE 0
             unsure == IF e.load.confidence THEN 0 ELSE 5
             x == 100 - 25 * Cardinality(blocking) - 10 * Cardinality(warning)
                  - unread - unsure
             score == confidence_score(e, Findings(e))
  <1>1. IsFiniteSet(blocking) /\ IsFiniteSet(warning)
    <2>1. IsFiniteSet(Findings(e))
      BY FindingsFinite
    <2> QED  BY <2>1, FS_Subset DEF Graded
  <1>2. unread \in {0, 10} /\ unsure \in {0, 5}
    OBVIOUS
  <1>3. score = Max({0, x})
    BY DEF confidence_score
  <1>4. /\ Cardinality(blocking) \in Nat /\ Cardinality(warning) \in Nat
        /\ Cardinality(blocking) = 0 <=> blocking = {}
        /\ Cardinality(warning) = 0 <=> warning = {}
    BY <1>1, FS_CardinalityType, FS_EmptySet
  <1>5. AuditStatus(Findings(e)) = "failed" => blocking # {}
    BY DEF AuditStatus
  <1>6. AuditStatus(Findings(e)) = "passed" => blocking = {} /\ warning = {}
    BY DEF AuditStatus
  <1> HIDE DEF blocking, warning, unread, unsure, score
  <1>7. x \in Int
    BY <1>2, <1>4
  <1>8. score = IF x > 0 THEN x ELSE 0
    BY <1>3, <1>7, GreatestOfTwo
  <1>9. blocking # {} => x <= 75
    BY <1>2, <1>4
  <1>10. blocking = {} /\ warning = {} => x >= 85
    <2>1. Cardinality(blocking) = 0 /\ Cardinality(warning) = 0 => x >= 85
      BY <1>2
    <2> QED  BY <1>4, <2>1
  <1> QED  BY <1>5, <1>6, <1>7, <1>8, <1>9, <1>10 DEF score

\* A packet that was e-mailed before does not pass.
LEMMA EmailedDoesNotPass ==
    ASSUME NEW e, e.emailed
    PROVE  AuditStatus(Findings(e)) # "passed"
  <1> DEFINE f == Finding("repeated_packet_send", "warning")
  <1>1. f \in Findings(e)
    BY DEF Findings, duplicate_invoice_findings
  <1>2. f.severity = "warning"
    BY FindingSeverity
  <1> HIDE DEF f
  <1>3. Graded(Findings(e), "warning") # {}
    BY <1>1, <1>2 DEF Graded
  <1> QED  BY <1>3 DEF AuditStatus

-----------------------------------------------------------------------------
(* The packets, their mails and their follow-ups: the invariant.           *)

Dated(p) == packet[p].sent # "never"
Recorded(p) == events[p] \cap {"packet_sent", "packet_email_sent"} # {}

\* The load's rows and the packets made so far are finitely many.
FiniteLoad ==
    /\ IsFiniteSet(rows)
    /\ IsFiniteSet({p \in Packets : Stored(p)})

\* A packet that is being mailed has been created, and keeps the date that the
\* request has seen; a mail on its way to the server has all that is required.
SendersSound ==
    \A s \in Senders : sender[s] # Idle =>
        /\ Stored(sender[s].packet)
        /\ sender[s].dated => Dated(sender[s].packet)
        /\ sender[s].at = "sending" => REQUIRED_DOC_TYPES \subseteq sender[s].types

\* Nothing is known of a packet that has not been created.
UnsentSound == \A p \in Packets : ~Stored(p) => ~Dated(p) /\ ~Recorded(p)

\* A generation is about to add tasks to packets whose sending is on record.
PlansSound ==
    \A g \in Generators : generator[g].active =>
        \A p \in generator[g].packets : Stored(p) /\ Recorded(p)

TrailInv == /\ SendersSound /\ UnsentSound /\ PlansSound
            /\ SentDateMatchesTrail /\ TaskHasSending /\ OnlyCompleteMailed

PacketsInv == FollowUpsTypeOK /\ FiniteLoad /\ TrailInv

\* What a request sees of the packets, the mails and the tasks stays as it is.
Quiet ==
    /\ UNCHANGED <<events, sender, mailed, packetTasks, generator>>
    /\ \A p \in Packets : Stored(p)' = Stored(p) /\ Dated(p)' = Dated(p)

LEMMA SenderParts ==
    ASSUME TypeOK, NEW s \in Senders, sender[s] # Idle
    PROVE  /\ sender[s] \in Sending /\ sender[s].packet \in Packets
           /\ sender[s].at \in {"sending", "delivered"}
           /\ sender[s].markedSent \in BOOLEAN /\ sender[s].dated \in BOOLEAN
           /\ sender[s].types \in SUBSET REQUIRED_DOC_TYPES
  BY DEF TypeOK, Sending

LEMMA PlanParts ==
    ASSUME FollowUpsTypeOK, NEW g \in Generators, generator[g].active
    PROVE  /\ generator[g] \in Plan
           /\ generator[g].packets \in SUBSET Packets
           /\ generator[g].payments \in SUBSET PAYMENT_TASK_TYPES
           /\ generator[g].paid \in BOOLEAN
  <1>1. generator[g] \in Plan
    <2>1. generator[g] \in Plan \cup {NoPlan}
      BY DEF FollowUpsTypeOK
    <2>2. NoPlan.active = FALSE
      BY DEF NoPlan
    <2> QED  BY <2>1, <2>2
  <1> QED  BY <1>1 DEF Plan

LEMMA QuietKeeps ==
    ASSUME FollowUpsTypeOK, TrailInv, Quiet
    PROVE  TrailInv'
  <1>1. SendersSound'
    BY SenderParts DEF TrailInv, SendersSound, Quiet, FollowUpsTypeOK
  <1>2. UnsentSound' /\ SentDateMatchesTrail'
    BY DEF TrailInv, UnsentSound, SentDateMatchesTrail, Quiet, Recorded, Dated
  <1>3. PlansSound'
    BY PlanParts DEF TrailInv, PlansSound, Quiet, Recorded
  <1>4. TaskHasSending' /\ OnlyCompleteMailed'
    BY DEF TrailInv, TaskHasSending, OnlyCompleteMailed, Quiet
  <1> QED  BY <1>1, <1>2, <1>3, <1>4 DEF TrailInv

\* No packet is created or forgotten by a step that keeps what Quiet says.
LEMMA QuietFinite ==
    ASSUME FiniteLoad, Quiet, IsFiniteSet(rows')
    PROVE  FiniteLoad'
  <1>1. {p \in Packets : Stored(p)}' = {p \in Packets : Stored(p)}
    BY DEF Quiet
  <1> QED  BY <1>1 DEF FiniteLoad

LEMMA PacketsInitially == Init => PacketsInv
  <1> SUFFICES ASSUME Init PROVE PacketsInv
    OBVIOUS
  <1> USE DEF Init, PacketsInit
  <1>1. TypeOK
    <2>1. packet \in [Packets -> Packet]
      BY DEF Packet, NoPacket, Status, Age
    <2>2. /\ events \in [Packets -> SUBSET Event]
          /\ files \subseteq rows /\ rows \subseteq Docs
          /\ shared \in BOOLEAN
          /\ loadStatus \in {"other", "submitted_to_broker",
                             "submitted_to_factoring"}
          /\ submitted \in Age
          /\ sender \in [Senders -> Sending \cup {Idle}]
      BY DocsAssumption DEF Age
    <2>3. /\ mailed \in [Packets -> SUBSET SUBSET REQUIRED_DOC_TYPES]
          /\ overlapped \subseteq SUBSET Packets
          /\ edits \in 0 .. MaxEdits
      BY EditsAssumption
    <2> QED  BY <2>1, <2>2, <2>3 DEF TypeOK
  <1>2. FollowUpsTypeOK
    BY <1>1, PaymentsAssumption DEF FollowUpsTypeOK, NoPlan
  <1>3. \A p \in Packets : ~Stored(p) /\ ~Dated(p) /\ ~Recorded(p)
    BY DEF NoPacket, Stored, Dated, Recorded
  <1>4. FiniteLoad
    <2>1. {p \in Packets : Stored(p)} = {}
      BY <1>3
    <2> QED  BY <2>1, DocsAssumption, FS_EmptySet DEF FiniteLoad
  <1>5. SendersSound /\ UnsentSound /\ PlansSound
    BY <1>3 DEF SendersSound, UnsentSound, PlansSound, NoPlan
  <1>6. SentDateMatchesTrail /\ TaskHasSending /\ OnlyCompleteMailed
    BY <1>3 DEF SentDateMatchesTrail, TaskHasSending, OnlyCompleteMailed,
                Recorded, Dated
  <1> QED  BY <1>2, <1>4, <1>5, <1>6 DEF PacketsInv, TrailInv

-----------------------------------------------------------------------------
(* Edits of the load, its documents and its payment.                       *)

LEMMA CountedEdits == Counted /\ TypeOK => edits' \in 0 .. MaxEdits
  BY EditsAssumption DEF Counted, TypeOK

\* An edit that changes no packet.
LEMMA DocumentEdit ==
    ASSUME PacketsInv, Edit, UNCHANGED packet, UNCHANGED taskVars,
           files' \subseteq rows', rows' \subseteq Docs, IsFiniteSet(rows'),
           shared' \in BOOLEAN
    PROVE  PacketsInv'
  <1>1. Quiet
    BY DEF Edit, Quiet, taskVars, Stored, Dated
  <1>2. TypeOK'
    BY CountedEdits DEF PacketsInv, FollowUpsTypeOK, TypeOK, Edit
  <1>3. FollowUpsTypeOK'
    BY <1>2 DEF PacketsInv, FollowUpsTypeOK, taskVars
  <1> QED  BY <1>1, <1>3, QuietKeeps, QuietFinite DEF PacketsInv

LEMMA UploadDocumentKeeps ==
    ASSUME PacketsInv, UNCHANGED taskVars, NEW d \in Docs, UploadDocument(d)
    PROVE  PacketsInv'
  <1>1. IsFiniteSet(rows')
    BY FS_AddElement DEF PacketsInv, FiniteLoad, UploadDocument
  <1>2. /\ files' \subseteq rows' /\ rows' \subseteq Docs /\ shared' \in BOOLEAN
    BY DEF PacketsInv, FollowUpsTypeOK, TypeOK, UploadDocument
  <1> QED  BY <1>1, <1>2, DocumentEdit DEF UploadDocument

LEMMA LoseFileKeeps ==
    ASSUME PacketsInv, UNCHANGED taskVars, NEW d \in Docs, LoseFile(d)
    PROVE  PacketsInv'
  <1>1. /\ files' \subseteq rows' /\ rows' \subseteq Docs /\ shared' \in BOOLEAN
        /\ IsFiniteSet(rows')
    BY DEF PacketsInv, FollowUpsTypeOK, TypeOK, FiniteLoad, LoseFile
  <1> QED  BY <1>1, DocumentEdit DEF LoseFile

LEMMA RenumberInvoiceKeeps ==
    ASSUME PacketsInv, UNCHANGED taskVars, RenumberInvoice
    PROVE  PacketsInv'
  <1>1. shared' \in BOOLEAN
    BY DEF RenumberInvoice
  <1>2. /\ files' \subseteq rows' /\ rows' \subseteq Docs /\ IsFiniteSet(rows')
    BY DEF PacketsInv, FollowUpsTypeOK, TypeOK, FiniteLoad, RenumberInvoice
  <1> QED  BY <1>1, <1>2, DocumentEdit DEF RenumberInvoice

LEMMA DeleteDocumentKeeps ==
    ASSUME PacketsInv, UNCHANGED taskVars, NEW d \in Docs, DeleteDocument(d)
    PROVE  PacketsInv'
  <1> USE DEF DeleteDocument
  <1>1. \A v \in Packet : LET u == [v EXCEPT !.snapshot = @ \ {d}]
                          IN  u \in Packet /\ u.status = v.status /\ u.sent = v.sent
    BY DEF Packet
  <1>2. \A p \in Packets : packet[p] \in Packet
    BY DEF PacketsInv, FollowUpsTypeOK, TypeOK
  <1>3. /\ packet' \in [Packets -> Packet]
        /\ \A p \in Packets : /\ packet'[p].status = packet[p].status
                              /\ packet'[p].sent = packet[p].sent
    BY <1>1, <1>2
  <1>4. Quiet
    BY <1>3 DEF Quiet, Edit, taskVars, Stored, Dated
  <1>5. TypeOK'
    BY <1>3, CountedEdits DEF PacketsInv, FollowUpsTypeOK, TypeOK, Edit
  <1>6. FollowUpsTypeOK'
    BY <1>5 DEF PacketsInv, FollowUpsTypeOK, taskVars
  <1>7. IsFiniteSet(rows')
    BY FS_RemoveElement DEF PacketsInv, FiniteLoad
  <1> QED  BY <1>4, <1>6, <1>7, QuietKeeps, QuietFinite DEF PacketsInv

LEMMA MoveLoadKeeps ==
    ASSUME PacketsInv, UNCHANGED taskVars, MoveLoad
    PROVE  PacketsInv'
  <1> USE DEF MoveLoad
  <1>1. Quiet
    BY DEF Quiet, taskVars, Stored, Dated
  <1>2. TypeOK'
    BY CountedEdits DEF PacketsInv, FollowUpsTypeOK, TypeOK
  <1>3. FollowUpsTypeOK' /\ IsFiniteSet(rows')
    BY <1>2 DEF PacketsInv, FollowUpsTypeOK, FiniteLoad, taskVars
  <1> QED  BY <1>1, <1>3, QuietKeeps, QuietFinite DEF PacketsInv

\* Accepting and rejecting leave the dates alone.
LEMMA MarkKeeps ==
    ASSUME PacketsInv, UNCHANGED taskVars, NEW p \in Packets, NEW row,
           Mark(p, row), row \in Packet, row.sent = packet[p].sent,
           row.status \notin {"none", "creating"}
    PROVE  PacketsInv'
  <1> USE DEF Mark
  <1>1. /\ packet' \in [Packets -> Packet]
        /\ packet'[p] = row /\ \A q \in Packets \ {p} : packet'[q] = packet[q]
    BY DEF PacketsInv, FollowUpsTypeOK, TypeOK
  <1>2. Quiet
    BY <1>1 DEF Quiet, taskVars, Stored, Dated
  <1>3. TypeOK'
    BY <1>1, CountedEdits DEF PacketsInv, FollowUpsTypeOK, TypeOK
  <1>4. FollowUpsTypeOK' /\ IsFiniteSet(rows')
    BY <1>3 DEF PacketsInv, FollowUpsTypeOK, FiniteLoad, taskVars
  <1> QED  BY <1>2, <1>4, QuietKeeps, QuietFinite DEF PacketsInv

LEMMA MarkAcceptedKeeps ==
    ASSUME PacketsInv, UNCHANGED taskVars, NEW p \in Packets, MarkAccepted(p)
    PROVE  PacketsInv'
  <1>1. packet[p] \in Packet
    BY DEF PacketsInv, FollowUpsTypeOK, TypeOK
  <1> DEFINE row == [packet[p] EXCEPT !.status = "accepted", !.accepted = TRUE]
  <1>2. row \in Packet /\ row.sent = packet[p].sent /\ row.status = "accepted"
    BY <1>1 DEF Packet, Status
  <1>3. Mark(p, row)
    BY DEF MarkAccepted
  <1> HIDE DEF row
  <1> QED  BY <1>2, <1>3, MarkKeeps

LEMMA MarkRejectedKeeps ==
    ASSUME PacketsInv, UNCHANGED taskVars, NEW p \in Packets,
           NEW resubmission \in BOOLEAN, MarkRejected(p, resubmission)
    PROVE  PacketsInv'
  <1>1. packet[p] \in Packet
    BY DEF PacketsInv, FollowUpsTypeOK, TypeOK
  <1> DEFINE status == IF resubmission THEN "resubmission_required" ELSE "rejected"
             row == [packet[p] EXCEPT !.status = status, !.rejected = TRUE]
  <1>2. status \in Status \ {"none", "creating"}
    BY DEF Status
  <1>3. Mark(p, row)
    BY DEF MarkRejected
  <1> HIDE DEF status
  <1>4. row \in Packet /\ row.sent = packet[p].sent /\ row.status = status
    BY <1>1, <1>2 DEF Packet
  <1> HIDE DEF row
  <1> QED  BY <1>2, <1>3, <1>4, MarkKeeps

LEMMA OlderAge ==
    ASSUME NEW age \in Age
    PROVE  Older(age) \in Age /\ (Older(age) = "never" <=> age = "never")
  BY DEF Older, Age

LEMMA WaitKeeps ==
    ASSUME PacketsInv, Wait
    PROVE  PacketsInv'
  <1> USE DEF Wait
  <1>1. \A v \in Packet :
            LET u == [v EXCEPT !.sent = Older(@)]
            IN  /\ u \in Packet /\ u.status = v.status
                /\ u.sent = "never" <=> v.sent = "never"
    <2> SUFFICES ASSUME NEW v \in Packet
                 PROVE  LET u == [v EXCEPT !.sent = Older(@)]
                        IN  /\ u \in Packet /\ u.status = v.status
                            /\ u.sent = "never" <=> v.sent = "never"
      OBVIOUS
    <2>1. v.sent \in Age
      BY DEF Packet
    <2>2. PICK age \in Age : age = Older(v.sent)
      BY <2>1, OlderAge
    <2>3. LET u == [v EXCEPT !.sent = age]
          IN  u \in Packet /\ u.status = v.status /\ u.sent = age
      BY DEF Packet
    <2> QED  BY <2>1, <2>2, <2>3, OlderAge
  <1>2. \A p \in Packets : packet[p] \in Packet
    BY DEF PacketsInv, FollowUpsTypeOK, TypeOK
  <1>3. /\ packet' \in [Packets -> Packet]
        /\ \A p \in Packets :
              /\ packet'[p].status = packet[p].status
              /\ packet'[p].sent = "never" <=> packet[p].sent = "never"
    BY <1>1, <1>2
  <1>4. Quiet
    BY <1>3 DEF Quiet, taskVars, Stored, Dated
  <1>5. submitted' \in Age
    BY OlderAge DEF PacketsInv, FollowUpsTypeOK, TypeOK
  <1>6. TypeOK'
    BY <1>3, <1>5, CountedEdits DEF PacketsInv, FollowUpsTypeOK, TypeOK
  <1>7. FollowUpsTypeOK' /\ IsFiniteSet(rows')
    BY <1>6 DEF PacketsInv, FollowUpsTypeOK, FiniteLoad, taskVars
  <1> QED  BY <1>4, <1>7, QuietKeeps, QuietFinite DEF PacketsInv

LEMMA SetPaymentKeeps ==
    ASSUME PacketsInv, NEW status \in Payments, SetPayment(status)
    PROVE  PacketsInv'
  <1> USE DEF SetPayment, Edit
  <1>1. Quiet
    BY DEF Quiet, Stored, Dated
  <1>2. TypeOK'
    BY CountedEdits DEF PacketsInv, FollowUpsTypeOK, TypeOK
  <1>3. FollowUpsTypeOK' /\ IsFiniteSet(rows')
    BY <1>2 DEF PacketsInv, FollowUpsTypeOK, FiniteLoad
  <1> QED  BY <1>1, <1>3, QuietKeeps, QuietFinite DEF PacketsInv

-----------------------------------------------------------------------------
(* Creation and marking sent.                                              *)

LEMMA BeginCreateKeeps ==
    ASSUME PacketsInv, UNCHANGED taskVars, NEW p \in Packets, BeginCreate(p)
    PROVE  PacketsInv'
  <1> USE DEF BeginCreate
  <1>1. NextReference \in Nat
    BY FS_CardinalityType DEF NextReference, PacketsInv, FiniteLoad
  <1>2. PICK n \in Nat : n = NextReference
    BY <1>1
  <1> DEFINE row == [NoPacket EXCEPT !.status = "creating", !.snapshot = rows,
                                     !.reference = n]
  <1>3. rows \in SUBSET Docs /\ packet \in [Packets -> Packet]
    BY DEF PacketsInv, FollowUpsTypeOK, TypeOK
  <1>4. row \in Packet /\ row.status = "creating" /\ row.sent = "never"
    BY <1>3 DEF NoPacket, Packet, Status, Age
  <1>5. /\ packet' \in [Packets -> Packet]
        /\ packet'[p] = row /\ \A q \in Packets \ {p} : packet'[q] = packet[q]
    <2> HIDE DEF row
    <2>1. packet' = [packet EXCEPT ![p] = row]
      BY <1>2 DEF row
    <2> QED  BY <2>1, <1>3, <1>4
  <1> HIDE DEF row
  <1>6. packet[p].status = "none" /\ packet[p].sent = "never"
    BY DEF NoPacket
  <1>7. Quiet
    BY <1>4, <1>5, <1>6 DEF Quiet, taskVars, Stored, Dated
  <1>8. overlapped' \subseteq SUBSET Packets
    BY DEF PacketsInv, FollowUpsTypeOK, TypeOK, Creating
  <1>9. TypeOK'
    BY <1>5, <1>8 DEF PacketsInv, FollowUpsTypeOK, TypeOK
  <1>10. FollowUpsTypeOK' /\ IsFiniteSet(rows')
    BY <1>9 DEF PacketsInv, FollowUpsTypeOK, FiniteLoad, taskVars
  <1> QED  BY <1>7, <1>10, QuietKeeps, QuietFinite DEF PacketsInv

\* A step that changes the row and the trail of one packet, which it leaves
\* created, and of which it leaves a date exactly when the trail has one.
LEMMA OnePacketKeeps ==
    ASSUME PacketsInv, UNCHANGED <<taskVars, sender, mailed, rows>>,
           NEW p \in Packets,
           \A q \in Packets \ {p} : packet'[q] = packet[q] /\ events'[q] = events[q],
           Stored(p)', Dated(p)' <=> Recorded(p)',
           Dated(p) => Dated(p)', FollowUpsTypeOK'
    PROVE  PacketsInv'
  <1>1. \A q \in Packets : Dated(q) <=> Recorded(q)
    BY DEF PacketsInv, TrailInv, SentDateMatchesTrail, Dated, Recorded
  <1>2. \A q \in Packets : /\ Stored(q) => Stored(q)'
                           /\ Dated(q) => Dated(q)'
                           /\ Recorded(q) => Recorded(q)'
                           /\ Dated(q)' <=> Recorded(q)'
    <2>1. \A q \in Packets \ {p} : /\ Stored(q)' = Stored(q)
                                   /\ Dated(q)' = Dated(q)
                                   /\ Recorded(q)' = Recorded(q)
      BY DEF Stored, Dated, Recorded
    <2>2. Recorded(p) => Recorded(p)'
      BY <1>1
    <2> QED  BY <1>1, <2>1, <2>2
  <1>3. SendersSound'
    BY <1>2, SenderParts
    DEF PacketsInv, TrailInv, SendersSound, FollowUpsTypeOK, Dated, Stored
  <1>4. UnsentSound'
    <2>1. \A q \in Packets \ {p} : /\ Stored(q)' = Stored(q)
                                   /\ Dated(q)' = Dated(q)
                                   /\ Recorded(q)' = Recorded(q)
      BY DEF Stored, Dated, Recorded
    <2> QED  BY <2>1 DEF PacketsInv, TrailInv, UnsentSound
  <1>5. PlansSound'
    BY <1>2, PlanParts DEF PacketsInv, TrailInv, PlansSound, taskVars
  <1>6. SentDateMatchesTrail'
    BY <1>2 DEF SentDateMatchesTrail, Dated, Recorded
  <1>7. TaskHasSending' /\ OnlyCompleteMailed'
    BY <1>2 DEF PacketsInv, TrailInv, TaskHasSending, OnlyCompleteMailed,
                Recorded, taskVars
  <1>8. FiniteLoad'
    <2>1. {q \in Packets : Stored(q)}' \subseteq {q \in Packets : Stored(q)} \cup {p}
      BY DEF Stored
    <2>2. IsFiniteSet({q \in Packets : Stored(q)} \cup {p})
      BY FS_AddElement DEF PacketsInv, FiniteLoad
    <2>3. IsFiniteSet({q \in Packets : Stored(q)}')
      BY <2>1, <2>2, FS_Subset
    <2> QED  BY <2>3 DEF PacketsInv, FiniteLoad
  <1> QED  BY <1>3, <1>4, <1>5, <1>6, <1>7, <1>8 DEF PacketsInv, TrailInv

LEMMA CommitCreateKeeps ==
    ASSUME PacketsInv, UNCHANGED taskVars, NEW p \in Packets, CommitCreate(p)
    PROVE  PacketsInv'
  <1> USE DEF CommitCreate
  <1>1. /\ packet \in [Packets -> Packet] /\ events \in [Packets -> SUBSET Event]
        /\ overlapped' \subseteq SUBSET Packets /\ packet[p] \in Packet
    BY DEF PacketsInv, FollowUpsTypeOK, TypeOK
  <1>2. ~Stored(p) /\ ~Dated(p) /\ ~Recorded(p)
    BY DEF PacketsInv, TrailInv, UnsentSound, Stored
  <1>3. CASE packet[p].snapshot \subseteq rows
    <2> DEFINE row == [packet[p] EXCEPT !.status = "ready"]
    <2>1. row \in Packet /\ row.status = "ready" /\ row.sent = packet[p].sent
      BY <1>1 DEF Packet, Status
    <2> HIDE DEF row
    <2>2. packet' = [packet EXCEPT ![p] = row]
      BY <1>3 DEF row
    <2>3. /\ packet' \in [Packets -> Packet] /\ packet'[p] = row
          /\ \A q \in Packets \ {p} : packet'[q] = packet[q]
      BY <1>1, <2>1, <2>2
    <2>4. /\ events' \in [Packets -> SUBSET Event]
          /\ events'[p] = {"packet_created"}
          /\ \A q \in Packets \ {p} : events'[q] = events[q]
      BY <1>1, <1>3 DEF Event
    <2>5. FollowUpsTypeOK'
      <3>1. TypeOK'
        BY <1>1, <2>3, <2>4 DEF PacketsInv, FollowUpsTypeOK, TypeOK
      <3> QED  BY <3>1 DEF PacketsInv, FollowUpsTypeOK, taskVars
    <2>6. Stored(p)' /\ ~Dated(p)' /\ ~Recorded(p)'
      BY <1>2, <2>1, <2>3, <2>4 DEF Stored, Dated, Recorded
    <2> QED  BY <1>2, <2>3, <2>4, <2>5, <2>6, OnePacketKeeps
  <1>4. CASE ~(packet[p].snapshot \subseteq rows)
    <2>1. NoPacket \in Packet /\ NoPacket.status = "none" /\ NoPacket.sent = "never"
      BY DEF NoPacket, Packet, Status, Age
    <2>2. packet' = [packet EXCEPT ![p] = NoPacket] /\ events' = events
      BY <1>4
    <2>3. /\ packet' \in [Packets -> Packet] /\ packet'[p] = NoPacket
          /\ \A q \in Packets \ {p} : packet'[q] = packet[q]
      BY <1>1, <2>1, <2>2
    <2>4. Quiet
      BY <1>2, <2>1, <2>2, <2>3 DEF Quiet, taskVars, Stored, Dated
    <2>5. TypeOK'
      BY <1>1, <2>2, <2>3 DEF PacketsInv, FollowUpsTypeOK, TypeOK
    <2>6. FollowUpsTypeOK' /\ IsFiniteSet(rows')
      BY <2>5 DEF PacketsInv, FollowUpsTypeOK, FiniteLoad, taskVars
    <2> QED  BY <2>4, <2>6, QuietKeeps, QuietFinite DEF PacketsInv
  <1> QED  BY <1>3, <1>4

LEMMA MarkSentKeeps ==
    ASSUME PacketsInv, UNCHANGED taskVars, NEW p \in Packets, NEW destination,
           MarkSent(p, destination)
    PROVE  PacketsInv'
  <1> USE DEF MarkSent
  <1>1. /\ packet \in [Packets -> Packet] /\ events \in [Packets -> SUBSET Event]
        /\ packet[p] \in Packet
    BY DEF PacketsInv, FollowUpsTypeOK, TypeOK
  <1> DEFINE row == [packet[p] EXCEPT !.sent = "fresh", !.status = "sent"]
  <1>2. row \in Packet /\ row.status = "sent" /\ row.sent = "fresh"
    BY <1>1 DEF Packet, Status, Age
  <1> HIDE DEF row
  <1>3. packet' = [packet EXCEPT ![p] = row]
    BY DEF mark_sent, row
  <1>4. /\ packet' \in [Packets -> Packet] /\ packet'[p] = row
        /\ \A q \in Packets \ {p} : packet'[q] = packet[q]
    BY <1>1, <1>2, <1>3
  <1>5. /\ events' \in [Packets -> SUBSET Event] /\ "packet_sent" \in events'[p]
        /\ \A q \in Packets \ {p} : events'[q] = events[q]
    BY <1>1 DEF Event
  <1>6. loadStatus' \in {"other", "submitted_to_broker", "submitted_to_factoring"}
    BY DEF mark_sent, PacketsInv, FollowUpsTypeOK, TypeOK
  <1>7. submitted' \in Age
    BY DEF SubmittedAt, PacketsInv, FollowUpsTypeOK, TypeOK, Age
  <1>8. FollowUpsTypeOK'
    <2>1. TypeOK'
      BY <1>4, <1>5, <1>6, <1>7, CountedEdits DEF PacketsInv, FollowUpsTypeOK, TypeOK
    <2> QED  BY <2>1 DEF PacketsInv, FollowUpsTypeOK, taskVars
  <1>9. Stored(p)' /\ Dated(p)' /\ Recorded(p)'
    BY <1>2, <1>4, <1>5 DEF Stored, Dated, Recorded
  <1> QED  BY <1>4, <1>5, <1>8, <1>9, OnePacketKeeps

-----------------------------------------------------------------------------
(* E-mail.                                                                 *)

\* Everything required is attached when the mail can be built.
LEMMA AttachableIsComplete ==
    ASSUME NEW p, Attachable(p)
    PROVE  REQUIRED_DOC_TYPES \subseteq Attached
  BY DEF Attachable, Attached, REQUIRED_DOC_TYPES, DocType

\* A step of one e-mail request that changes nothing but that request.
LEMMA OneSenderKeeps ==
    ASSUME PacketsInv,
           UNCHANGED <<packet, events, rows, files, shared, loadStatus, submitted,
                       mailed, overlapped, edits, taskVars>>,
           NEW s \in Senders, NEW row, sender' = [sender EXCEPT ![s] = row],
           \/ row = Idle
           \/ /\ row \in Sending /\ row # Idle /\ Stored(row.packet)
              /\ row.dated => Dated(row.packet)
              /\ row.at = "sending" => REQUIRED_DOC_TYPES \subseteq row.types
    PROVE  PacketsInv'
  <1>1. /\ sender' \in [Senders -> Sending \cup {Idle}]
        /\ sender'[s] = row /\ \A r \in Senders \ {s} : sender'[r] = sender[r]
    BY DEF PacketsInv, FollowUpsTypeOK, TypeOK
  <1>2. FollowUpsTypeOK'
    <2>1. TypeOK'
      BY <1>1 DEF PacketsInv, FollowUpsTypeOK, TypeOK
    <2> QED  BY <2>1 DEF PacketsInv, FollowUpsTypeOK, taskVars
  <1>3. FiniteLoad'
    BY DEF PacketsInv, FiniteLoad, Stored
  <1>4. SendersSound'
    <2>1. \A q : (Stored(q)' <=> Stored(q)) /\ (Dated(q)' <=> Dated(q))
      BY DEF Stored, Dated
    <2>2. \A r \in Senders : sender'[r] # Idle =>
            /\ Stored(sender'[r].packet)
            /\ sender'[r].dated => Dated(sender'[r].packet)
            /\ sender'[r].at = "sending" =>
                 REQUIRED_DOC_TYPES \subseteq sender'[r].types
      BY <1>1 DEF PacketsInv, TrailInv, SendersSound
    <2> QED  BY <2>1, <2>2 DEF SendersSound, Stored, Dated
  <1>5. UnsentSound' /\ PlansSound' /\ SentDateMatchesTrail'
    BY DEF PacketsInv, TrailInv, UnsentSound, PlansSound, SentDateMatchesTrail,
           Stored, Dated, Recorded, taskVars
  <1>6. TaskHasSending' /\ OnlyCompleteMailed'
    BY DEF PacketsInv, TrailInv, TaskHasSending, OnlyCompleteMailed, taskVars
  <1> QED  BY <1>2, <1>3, <1>4, <1>5, <1>6 DEF PacketsInv, TrailInv

LEMMA SendingIsNotIdle == \A row \in Sending : row # Idle
  <1>1. Idle.at = "idle" /\ \A row \in Sending : row.at \in {"sending", "delivered"}
    BY DEF Idle, Sending
  <1> QED  BY <1>1

LEMMA BeginEmailKeeps ==
    ASSUME PacketsInv, UNCHANGED taskVars, NEW s \in Senders, NEW p \in Packets,
           BeginEmail(s, p)
    PROVE  PacketsInv'
  <1> DEFINE marked == packet[p].status = "sent"
             dated == packet[p].sent # "never"
             types == Attached \cap REQUIRED_DOC_TYPES
             row == [at |-> "sending", packet |-> p, markedSent |-> marked,
                     dated |-> dated, types |-> types]
  <1>1. sender' = [sender EXCEPT ![s] = row] /\ Stored(p) /\ Attachable(p)
    BY DEF BeginEmail
  <1>2. marked \in BOOLEAN /\ dated \in BOOLEAN /\ types \in SUBSET REQUIRED_DOC_TYPES
        /\ (dated => Dated(p)) /\ REQUIRED_DOC_TYPES \subseteq types
    BY <1>1, AttachableIsComplete DEF Dated
  <1> HIDE DEF marked, dated, types
  <1>3. /\ row \in Sending /\ row.packet = p /\ row.types = types
        /\ row.dated = dated
    BY <1>2 DEF Sending
  <1> HIDE DEF row
  <1>4. row # Idle
    BY <1>3, SendingIsNotIdle
  <1>5. /\ Stored(row.packet) /\ (row.dated => Dated(row.packet))
        /\ REQUIRED_DOC_TYPES \subseteq row.types
    BY <1>1, <1>2, <1>3
  <1> QED  BY <1>1, <1>3, <1>4, <1>5, OneSenderKeeps DEF BeginEmail

LEMMA EndEmailKeeps ==
    ASSUME PacketsInv, UNCHANGED taskVars, NEW s \in Senders,
           Refuse(s) \/ CrashEmail(s)
    PROVE  PacketsInv'
  BY OneSenderKeeps DEF Refuse, CrashEmail

LEMMA DeliverKeeps ==
    ASSUME PacketsInv, UNCHANGED taskVars, NEW s \in Senders, Deliver(s)
    PROVE  PacketsInv'
  <1>1. sender[s].at = "sending" /\ sender[s] # Idle
    BY DEF Deliver, Idle
  <1>2. TypeOK
    BY DEF PacketsInv, FollowUpsTypeOK
  <1>a. PICK row : row = [sender[s] EXCEPT !.at = "delivered", !.types = {}]
    OBVIOUS
  <1>b. PICK p : p = sender[s].packet
    OBVIOUS
  <1>c. PICK types : types = sender[s].types
    OBVIOUS
  <1>3. /\ row \in Sending /\ row.at = "delivered" /\ row.packet = p
        /\ row.dated = sender[s].dated
    BY <1>1, <1>2, <1>a, <1>b, SenderParts DEF Sending
  <1>4. /\ p \in Packets /\ Stored(p) /\ types \in SUBSET REQUIRED_DOC_TYPES
        /\ REQUIRED_DOC_TYPES \subseteq types
        /\ (sender[s].dated => Dated(p))
    BY <1>1, <1>2, <1>b, <1>c, SenderParts DEF PacketsInv, TrailInv, SendersSound
  <1>5. /\ sender' = [sender EXCEPT ![s] = row]
        /\ mailed' = [mailed EXCEPT ![p] = @ \cup {types}]
        /\ UNCHANGED <<packet, events, rows, files, shared, loadStatus,
                       submitted, overlapped, edits>>
    BY <1>a, <1>b, <1>c DEF Deliver
  <1>6. row # Idle
    BY <1>3, SendingIsNotIdle
  <1>7. /\ sender' \in [Senders -> Sending \cup {Idle}]
        /\ sender'[s] = row /\ \A r \in Senders \ {s} : sender'[r] = sender[r]
    BY <1>2, <1>3, <1>5 DEF TypeOK
  <1>8. /\ mailed' \in [Packets -> SUBSET SUBSET REQUIRED_DOC_TYPES]
        /\ mailed'[p] = mailed[p] \cup {types}
        /\ \A q \in Packets \ {p} : mailed'[q] = mailed[q]
    BY <1>2, <1>4, <1>5 DEF TypeOK
  <1>9. FollowUpsTypeOK'
    <2>1. TypeOK'
      BY <1>2, <1>5, <1>7, <1>8 DEF TypeOK
    <2> QED  BY <2>1 DEF PacketsInv, FollowUpsTypeOK, taskVars
  <1>10. FiniteLoad'
    BY <1>5 DEF PacketsInv, FiniteLoad, Stored
  <1>11. SendersSound'
    <2>1. \A q : (Stored(q)' <=> Stored(q)) /\ (Dated(q)' <=> Dated(q))
      BY <1>5 DEF Stored, Dated
    <2>2. \A r \in Senders : sender'[r] # Idle =>
            /\ Stored(sender'[r].packet)
            /\ sender'[r].dated => Dated(sender'[r].packet)
            /\ sender'[r].at = "sending" =>
                 REQUIRED_DOC_TYPES \subseteq sender'[r].types
      BY <1>3, <1>4, <1>7 DEF PacketsInv, TrailInv, SendersSound
    <2> QED  BY <2>1, <2>2 DEF SendersSound, Stored, Dated
  <1>12. UnsentSound' /\ PlansSound' /\ SentDateMatchesTrail' /\ TaskHasSending'
    BY <1>5 DEF PacketsInv, TrailInv, UnsentSound, PlansSound,
                SentDateMatchesTrail, TaskHasSending, Stored, Dated, Recorded, taskVars
  <1>13. OnlyCompleteMailed'
    BY <1>4, <1>8 DEF PacketsInv, TrailInv, OnlyCompleteMailed
  <1> QED  BY <1>9, <1>10, <1>11, <1>12, <1>13 DEF PacketsInv, TrailInv

\* What an accepted mail leaves in the packet's row.
LEMMA AfterEmailRow ==
    ASSUME NEW v \in Packet, NEW seen, v.status \notin {"none", "creating"},
           seen.dated => v.sent # "never"
    PROVE  LET u == AfterEmail(v, seen)
           IN  u \in Packet /\ u.sent # "never" /\ u.status \notin {"none", "creating"}
  <1> DEFINE status == IF seen.markedSent THEN v.status ELSE "sent"
             sent == IF seen.dated THEN v.sent ELSE "fresh"
             u == [v EXCEPT !.status = status, !.sent = sent]
  <1>1. /\ status \in Status \ {"none", "creating"} /\ sent \in Age
        /\ sent # "never"
    BY DEF Packet, Status, Age
  <1>2. AfterEmail(v, seen) = u
    BY DEF AfterEmail
  <1> HIDE DEF status, sent
  <1>3. u \in Packet /\ u.sent = sent /\ u.status = status
    BY <1>1 DEF Packet
  <1> QED  BY <1>1, <1>2, <1>3

LEMMA CommitEmailKeeps ==
    ASSUME PacketsInv, NEW s \in Senders, CommitEmailAndTasks(s)
    PROVE  PacketsInv'
  <1>a. PICK p : p = sender[s].packet
    OBVIOUS
  <1>b. PICK row : row = AfterEmail(packet[p], sender[s])
    OBVIOUS
  <1>1. /\ sender[s] # Idle
        /\ packet' = [packet EXCEPT ![p] = row]
        /\ events' = [events EXCEPT ![p] = @ \cup {"packet_email_sent"}]
        /\ sender' = [sender EXCEPT ![s] = Idle]
        /\ packetTasks' = [packetTasks EXCEPT ![p] = 0]
        /\ UNCHANGED <<rows, files, shared, loadStatus, submitted, mailed,
                       overlapped, edits, payment, paymentTasks, generator>>
    BY <1>a, <1>b DEF CommitEmailAndTasks, CommitEmail, Idle
  <1>2. /\ TypeOK /\ packetTasks \in [Packets -> Nat]
    BY DEF PacketsInv, FollowUpsTypeOK
  <1>3. /\ p \in Packets /\ Stored(p) /\ (sender[s].dated => Dated(p))
        /\ packet[p] \in Packet
    BY <1>1, <1>2, <1>a, SenderParts
    DEF PacketsInv, TrailInv, SendersSound, TypeOK
  <1>4. /\ row \in Packet /\ row.sent # "never"
        /\ row.status \notin {"none", "creating"}
    BY <1>3, <1>b, AfterEmailRow DEF Stored, Dated
  <1>5. /\ packet' \in [Packets -> Packet] /\ packet'[p] = row
        /\ \A q \in Packets \ {p} : packet'[q] = packet[q]
    BY <1>1, <1>2, <1>3, <1>4 DEF TypeOK
  <1>6. /\ events' \in [Packets -> SUBSET Event]
        /\ "packet_email_sent" \in events'[p]
        /\ \A q \in Packets \ {p} : events'[q] = events[q]
    BY <1>1, <1>2, <1>3 DEF TypeOK, Event
  <1>7. /\ sender' \in [Senders -> Sending \cup {Idle}]
        /\ sender'[s] = Idle /\ \A r \in Senders \ {s} : sender'[r] = sender[r]
    BY <1>1, <1>2 DEF TypeOK
  <1>8. /\ packetTasks' \in [Packets -> Nat]
        /\ \A q \in Packets : packetTasks'[q] > 0 => packetTasks[q] > 0
    BY <1>1, <1>2, <1>3
  <1>9. FollowUpsTypeOK'
    <2>1. TypeOK'
      BY <1>1, <1>2, <1>5, <1>6, <1>7 DEF TypeOK
    <2> QED  BY <1>1, <1>8, <2>1 DEF PacketsInv, FollowUpsTypeOK
  <1>10. \A q \in Packets \ {p} : /\ Stored(q)' = Stored(q)
                                  /\ Dated(q)' = Dated(q)
                                  /\ Recorded(q)' = Recorded(q)
    BY <1>5, <1>6 DEF Stored, Dated, Recorded
  <1>11. Stored(p)' /\ Dated(p)' /\ Recorded(p)'
    BY <1>4, <1>5, <1>6 DEF Stored, Dated, Recorded
  <1>12. \A q \in Packets : /\ Stored(q) => Stored(q)'
                            /\ Dated(q) => Dated(q)'
                            /\ Recorded(q) => Recorded(q)'
    BY <1>10, <1>11
  <1>13. SendersSound'
    <2> SUFFICES ASSUME NEW r \in Senders, sender'[r] # Idle
                 PROVE  /\ Stored(sender[r].packet)'
                        /\ sender'[r].dated => Dated(sender[r].packet)'
                        /\ sender'[r].at = "sending" =>
                             REQUIRED_DOC_TYPES \subseteq sender'[r].types
      BY DEF SendersSound
    <2>1. sender'[r] = sender[r] /\ sender[r] # Idle
      BY <1>7
    <2>2. PICK q \in Packets : q = sender[r].packet
      BY <1>2, <2>1, SenderParts
    <2>3. /\ Stored(q) /\ (sender[r].dated => Dated(q))
          /\ sender[r].at = "sending" => REQUIRED_DOC_TYPES \subseteq sender[r].types
      BY <2>1, <2>2 DEF PacketsInv, TrailInv, SendersSound
    <2>4. Stored(q)' /\ (sender[r].dated => Dated(q)')
      BY <1>12, <2>2, <2>3
    <2>5. sender'[r].packet = q
      BY <2>1, <2>2
    <2> QED  BY <2>1, <2>3, <2>4, <2>5 DEF Stored, Dated
  <1>14. UnsentSound'
    BY <1>10, <1>11 DEF PacketsInv, TrailInv, UnsentSound
  <1>15. PlansSound'
    BY <1>1, <1>12, PlanParts DEF PacketsInv, TrailInv, PlansSound
  <1>16. SentDateMatchesTrail'
    BY <1>10, <1>11
    DEF PacketsInv, TrailInv, SentDateMatchesTrail, Dated, Recorded
  <1>17. TaskHasSending' /\ OnlyCompleteMailed'
    BY <1>1, <1>8, <1>12
    DEF PacketsInv, TrailInv, TaskHasSending, OnlyCompleteMailed, Recorded
  <1>18. FiniteLoad'
    <2>1. {q \in Packets : Stored(q)}' \subseteq {q \in Packets : Stored(q)} \cup {p}
      BY <1>10
    <2>2. IsFiniteSet({q \in Packets : Stored(q)} \cup {p})
      BY FS_AddElement DEF PacketsInv, FiniteLoad
    <2>3. IsFiniteSet({q \in Packets : Stored(q)}')
      BY <2>1, <2>2, FS_Subset
    <2> QED  BY <1>1, <2>3 DEF PacketsInv, FiniteLoad
  <1> QED  BY <1>9, <1>13, <1>14, <1>15, <1>16, <1>17, <1>18 DEF PacketsInv, TrailInv

-----------------------------------------------------------------------------
(* The generation of follow-ups.                                           *)

\* A step that changes tasks and plans only.
LEMMA TaskStepKeeps ==
    ASSUME PacketsInv, UNCHANGED packetVars, FollowUpsTypeOK',
           PlansSound', TaskHasSending'
    PROVE  PacketsInv'
  BY DEF PacketsInv, TrailInv, FiniteLoad, SendersSound, UnsentSound,
         SentDateMatchesTrail, OnlyCompleteMailed, packetVars, Stored, Dated,
         Recorded

\* A packet that is due for a follow-up has been sent, and its trail says so.
LEMMA UnansweredIsRecorded ==
    ASSUME PacketsInv, NEW p \in Packets, Unanswered(p)
    PROVE  Stored(p) /\ Recorded(p)
  BY DEF PacketsInv, TrailInv, SentDateMatchesTrail, Unanswered, Recorded

LEMMA WantedTypes ==
    ASSUME NEW age
    PROVE  Wanted(age) \subseteq PAYMENT_TASK_TYPES
  BY DEF Wanted

LEMMA BeginGenerateKeeps ==
    ASSUME PacketsInv, NEW g \in Generators, BeginGenerate(g)
    PROVE  PacketsInv'
  <1>1. PICK age \in SubmittedAges :
          generator' = [generator EXCEPT ![g] =
             [active |-> TRUE,
              packets |-> Missing({p \in Packets : Unanswered(p)}, packetTasks),
              payments |-> IF payment \in {"none", "paid"} THEN {}
                           ELSE Missing(Wanted(age), paymentTasks),
              paid |-> payment = "paid"]]
    BY DEF BeginGenerate
  <1>2. PICK P : P = Missing({p \in Packets : Unanswered(p)}, packetTasks)
    OBVIOUS
  <1>3. PICK T : T = IF payment \in {"none", "paid"} THEN {}
                     ELSE Missing(Wanted(age), paymentTasks)
    OBVIOUS
  <1>4. PICK paid \in BOOLEAN : paid = (payment = "paid")
    OBVIOUS
  <1>5. /\ P \subseteq Packets /\ \A p \in P : Stored(p) /\ Recorded(p)
        /\ T \subseteq PAYMENT_TASK_TYPES
    BY <1>2, <1>3, UnansweredIsRecorded, WantedTypes DEF Missing
  <1> DEFINE plan == [active |-> TRUE, packets |-> P, payments |-> T, paid |-> paid]
  <1>6. plan \in Plan /\ plan.packets = P
    BY <1>4, <1>5 DEF Plan
  <1>7. generator' = [generator EXCEPT ![g] = plan]
    BY <1>1, <1>2, <1>3, <1>4
  <1> HIDE DEF plan
  <1>8. UNCHANGED <<packetVars, payment, packetTasks, paymentTasks>>
    BY DEF BeginGenerate
  <1>9. /\ generator' \in [Generators -> Plan \cup {NoPlan}]
        /\ generator'[g] = plan
        /\ \A h \in Generators \ {g} : generator'[h] = generator[h]
    BY <1>6, <1>7 DEF PacketsInv, FollowUpsTypeOK
  <1>10. FollowUpsTypeOK'
    <2>1. TypeOK'
      BY <1>8 DEF PacketsInv, FollowUpsTypeOK, TypeOK, packetVars
    <2> QED  BY <1>8, <1>9, <2>1 DEF PacketsInv, FollowUpsTypeOK
  <1>11. \A p : (Stored(p)' <=> Stored(p)) /\ (Recorded(p)' <=> Recorded(p))
    BY <1>8 DEF packetVars, Stored, Recorded
  <1>12. PlansSound'
    <2>1. \A h \in Generators : generator'[h].active =>
            \A p \in generator'[h].packets : Stored(p) /\ Recorded(p)
      BY <1>5, <1>6, <1>9 DEF PacketsInv, TrailInv, PlansSound
    <2> QED  BY <1>11, <2>1 DEF PlansSound
  <1>13. TaskHasSending'
    BY <1>8 DEF PacketsInv, TrailInv, TaskHasSending, packetVars
  <1> QED  BY <1>8, <1>10, <1>12, <1>13, TaskStepKeeps

LEMMA CommitGenerateKeeps ==
    ASSUME PacketsInv, NEW g \in Generators, CommitGenerate(g)
    PROVE  PacketsInv'
  <1>1. PICK plan : plan = generator[g]
    OBVIOUS
  <1>2. /\ packetTasks' = [p \in Packets |->
              packetTasks[p] + IF p \in plan.packets THEN 1 ELSE 0]
        /\ paymentTasks' = PaymentTasksAfter(plan)
        /\ generator' = [generator EXCEPT ![g] = NoPlan]
        /\ UNCHANGED <<packetVars, payment>>
        /\ generator[g].active
    BY <1>1 DEF CommitGenerate
  <1>3. /\ packetTasks \in [Packets -> Nat]
        /\ paymentTasks \in [PAYMENT_TASK_TYPES -> Nat]
        /\ generator \in [Generators -> Plan \cup {NoPlan}]
    BY DEF PacketsInv, FollowUpsTypeOK
  <1>4. packetTasks' \in [Packets -> Nat]
    BY <1>2, <1>3
  <1>5. paymentTasks' \in [PAYMENT_TASK_TYPES -> Nat]
    BY <1>2, <1>3 DEF PaymentTasksAfter
  <1>6. /\ generator' \in [Generators -> Plan \cup {NoPlan}]
        /\ generator'[g] = NoPlan
        /\ \A h \in Generators \ {g} : generator'[h] = generator[h]
    BY <1>2, <1>3
  <1>7. FollowUpsTypeOK'
    <2>1. TypeOK'
      BY <1>2 DEF PacketsInv, FollowUpsTypeOK, TypeOK, packetVars
    <2> QED  BY <1>2, <1>4, <1>5, <1>6, <2>1 DEF PacketsInv, FollowUpsTypeOK
  <1>8. \A p : (Stored(p)' <=> Stored(p)) /\ (Recorded(p)' <=> Recorded(p))
    BY <1>2 DEF packetVars, Stored, Recorded
  <1>9. PlansSound'
    <2>1. NoPlan.active = FALSE
      BY DEF NoPlan
    <2>2. \A h \in Generators : generator'[h].active =>
            \A p \in generator'[h].packets : Stored(p) /\ Recorded(p)
      BY <1>6, <2>1 DEF PacketsInv, TrailInv, PlansSound
    <2> QED  BY <1>8, <2>2 DEF PlansSound
  <1>10. TaskHasSending'
    <2>1. \A p \in Packets : packetTasks[p] > 0 => Recorded(p)
      BY DEF PacketsInv, TrailInv, TaskHasSending, Recorded
    <2>2. \A p \in plan.packets : Recorded(p)
      BY <1>1, <1>2 DEF PacketsInv, TrailInv, PlansSound
    <2>3. \A p \in Packets : packetTasks'[p] > 0 => packetTasks[p] > 0 \/ p \in plan.packets
      BY <1>2, <1>3
    <2>4. \A p \in Packets : packetTasks'[p] > 0 => Recorded(p)'
      BY <1>8, <2>1, <2>2, <2>3
    <2> QED  BY <2>4 DEF TaskHasSending, Recorded
  <1> QED  BY <1>2, <1>7, <1>9, <1>10, TaskStepKeeps

LEMMA AbortGenerateKeeps ==
    ASSUME PacketsInv, NEW g \in Generators, AbortGenerate(g)
    PROVE  PacketsInv'
  <1>1. /\ generator' = [generator EXCEPT ![g] = NoPlan]
        /\ UNCHANGED <<packetVars, payment, packetTasks, paymentTasks>>
    BY DEF AbortGenerate
  <1>2. /\ generator' \in [Generators -> Plan \cup {NoPlan}]
        /\ generator'[g] = NoPlan
        /\ \A h \in Generators \ {g} : generator'[h] = generator[h]
    BY <1>1 DEF PacketsInv, FollowUpsTypeOK
  <1>3. FollowUpsTypeOK'
    <2>1. TypeOK'
      BY <1>1 DEF PacketsInv, FollowUpsTypeOK, TypeOK, packetVars
    <2> QED  BY <1>1, <1>2, <2>1 DEF PacketsInv, FollowUpsTypeOK
  <1>4. \A p : (Stored(p)' <=> Stored(p)) /\ (Recorded(p)' <=> Recorded(p))
    BY <1>1 DEF packetVars, Stored, Recorded
  <1>5. PlansSound'
    <2>1. NoPlan.active = FALSE
      BY DEF NoPlan
    <2>2. \A h \in Generators : generator'[h].active =>
            \A p \in generator'[h].packets : Stored(p) /\ Recorded(p)
      BY <1>2, <2>1 DEF PacketsInv, TrailInv, PlansSound
    <2> QED  BY <1>4, <2>2 DEF PlansSound
  <1>6. TaskHasSending'
    BY <1>1 DEF PacketsInv, TrailInv, TaskHasSending, packetVars
  <1> QED  BY <1>1, <1>3, <1>5, <1>6, TaskStepKeeps

-----------------------------------------------------------------------------
LEMMA PacketStepKeeps ==
    ASSUME PacketsInv, PacketStep, UNCHANGED taskVars
    PROVE  PacketsInv'
  <1>1. ASSUME NEW d \in Docs, UploadDocument(d) \/ DeleteDocument(d) \/ LoseFile(d)
        PROVE  PacketsInv'
    BY <1>1, UploadDocumentKeeps, DeleteDocumentKeeps, LoseFileKeeps
  <1>2. CASE RenumberInvoice \/ MoveLoad
    BY <1>2, RenumberInvoiceKeeps, MoveLoadKeeps
  <1>3. ASSUME NEW p \in Packets,
               BeginCreate(p) \/ CommitCreate(p) \/ MarkAccepted(p)
        PROVE  PacketsInv'
    BY <1>3, BeginCreateKeeps, CommitCreateKeeps, MarkAcceptedKeeps
  <1>4. ASSUME NEW p \in Packets, NEW destination \in Destinations,
               MarkSent(p, destination)
        PROVE  PacketsInv'
    BY <1>4, MarkSentKeeps
  <1>5. ASSUME NEW p \in Packets, NEW resubmission \in BOOLEAN,
               MarkRejected(p, resubmission)
        PROVE  PacketsInv'
    BY <1>5, MarkRejectedKeeps
  <1>6. ASSUME NEW s \in Senders, NEW p \in Packets, BeginEmail(s, p)
        PROVE  PacketsInv'
    BY <1>6, BeginEmailKeeps
  <1>7. ASSUME NEW s \in Senders, Deliver(s) \/ Refuse(s) \/ CrashEmail(s)
        PROVE  PacketsInv'
    BY <1>7, DeliverKeeps, EndEmailKeeps
  <1> QED  BY <1>1, <1>2, <1>3, <1>4, <1>5, <1>6, <1>7 DEF PacketStep

LEMMA PacketsNextKeeps == PacketsInv /\ [Next]_vars => PacketsInv'
  <1> SUFFICES ASSUME PacketsInv, [Next]_vars PROVE PacketsInv'
    OBVIOUS
  <1>1. CASE UNCHANGED vars
    <2>1. UNCHANGED packetVars /\ UNCHANGED taskVars
      BY <1>1 DEF vars, taskVars
    <2>2. FollowUpsTypeOK' /\ PlansSound' /\ TaskHasSending'
      BY <2>1 DEF packetVars, taskVars, PacketsInv, TrailInv, FollowUpsTypeOK,
                  TypeOK, PlansSound, TaskHasSending, Stored, Recorded
    <2> QED  BY <2>1, <2>2, TaskStepKeeps
  <1>2. CASE PacketStep /\ UNCHANGED taskVars
    BY <1>2, PacketStepKeeps
  <1>3. ASSUME NEW s \in Senders, CommitEmailAndTasks(s)
        PROVE  PacketsInv'
    BY <1>3, CommitEmailKeeps
  <1>4. CASE Wait
    BY <1>4, WaitKeeps
  <1>5. ASSUME NEW status \in Payments, SetPayment(status)
        PROVE  PacketsInv'
    BY <1>5, SetPaymentKeeps
  <1>6. ASSUME NEW g \in Generators,
               BeginGenerate(g) \/ CommitGenerate(g) \/ AbortGenerate(g)
        PROVE  PacketsInv'
    BY <1>6, BeginGenerateKeeps, CommitGenerateKeeps, AbortGenerateKeeps
  <1> QED  BY <1>1, <1>2, <1>3, <1>4, <1>5, <1>6 DEF Next

LEMMA PacketsInvHolds == Spec => []PacketsInv
  BY PacketsInitially, PacketsNextKeeps, PTL DEF Spec

-----------------------------------------------------------------------------
(* What follows for the packets.                                           *)

LEMMA EvidenceParts ==
    ASSUME NEW p
    PROVE  LET e == Evidence(p)
           IN  /\ e.rows = rows /\ e.snapshot = packet[p].snapshot
               /\ e.type = TypeOf
               /\ "packet_email_sent" \in events[p] => e.emailed
  <1> DEFINE e(sent) == [rows |-> rows, snapshot |-> packet[p].snapshot,
                         type |-> TypeOf, field |-> Fields, load |-> LoadData,
                         funded |-> Funded, duplicate |-> shared,
                         emailed |-> sent]
  <1>1. ASSUME NEW sent
        PROVE  /\ e(sent).rows = rows /\ e(sent).snapshot = packet[p].snapshot
               /\ e(sent).type = TypeOf /\ e(sent).emailed = sent
    OBVIOUS
  <1>2. Evidence(p) = e("packet_email_sent" \in events[p])
    BY Zenon DEF Evidence
  <1> HIDE DEF e
  <1>3. PICK sent : sent = ("packet_email_sent" \in events[p])
    BY Zenon
  <1>4. "packet_email_sent" \in events[p] => sent
    BY <1>3, Zenon
  <1>5. Evidence(p) = e(sent)
    BY <1>2, <1>3, Zenon
  <1> QED  BY <1>1, <1>4, <1>5, Zenon

\* A packet that the audit does not fail can be sent, if no file is lost.
LEMMA AuditedIsComplete ==
    ASSUME PacketsInv, NEW p \in StoredPackets,
           AuditStatus(Findings(Evidence(p))) # "failed",
           packet[p].snapshot # {}, files = rows
    PROVE  REQUIRED_DOC_TYPES \subseteq Archive(p)
  <1> DEFINE e == Evidence(p)
  <1>1. \A type \in REQUIRED_DOC_TYPES :
            /\ type \in {TypeOf[d] : d \in rows}
            /\ type \in {TypeOf[d] : d \in packet[p].snapshot}
    <2> SUFFICES ASSUME NEW type \in REQUIRED_DOC_TYPES
                 PROVE  /\ type \in {TypeOf[d] : d \in rows}
                        /\ type \in {TypeOf[d] : d \in packet[p].snapshot}
      OBVIOUS
    <2>1. /\ type \in TypesIn(e, e.rows)
          /\ e.snapshot # {} => type \in TypesIn(e, e.snapshot)
      <3> HIDE DEF e
      <3>1. AuditStatus(Findings(e)) # "failed"
        BY DEF e
      <3> QED  BY <3>1, NotFailedIsComplete
    <2>2. e.rows = rows /\ e.snapshot = packet[p].snapshot /\ e.type = TypeOf
      BY EvidenceParts
    <2> HIDE DEF e
    <2> QED  BY <2>1, <2>2 DEF TypesIn
  <1>2. ASSUME NEW type \in REQUIRED_DOC_TYPES
        PROVE  Resolved(type) # {}
    <2> DEFINE D == {d \in files : TypeOf[d] = type}
    <2>1. D # {}
      BY <1>1
    <2>2. D \subseteq Nat /\ IsFiniteSet(D)
      <3>1. D \subseteq rows /\ rows \subseteq Docs /\ IsFiniteSet(rows)
        BY DEF PacketsInv, FollowUpsTypeOK, TypeOK, FiniteLoad
      <3> HIDE DEF D
      <3> QED  BY <3>1, DocsAssumption, FS_Subset
    <2>3. PICK m \in D : \A n \in D : n <= m
      <3> HIDE DEF D
      <3> QED  BY <2>1, <2>2, GreatestElement
    <2>4. m \in Resolved(type)
      BY <2>3 DEF Resolved
    <2> QED  BY <2>4
  <1>3. Attachable(p)
    BY <1>1, <1>2 DEF Attachable, TypesOf
  <1> QED  BY <1>3, AttachableIsComplete DEF Archive

LEMMA AuditsForetell == PacketsInv => AuditForetellsSending
  <1> SUFFICES ASSUME PacketsInv, NEW p \in StoredPackets
               PROVE  LET findings == Findings(Evidence(p))
                          status == AuditStatus(findings)
                          score == confidence_score(Evidence(p), findings)
                      IN  /\ status # "failed" /\ packet[p].snapshot # {}
                             /\ files = rows
                                => REQUIRED_DOC_TYPES \subseteq Archive(p)
                          /\ status = "failed" => score <= 75
                          /\ status = "passed" =>
                                score >= 85 /\ "packet_email_sent" \notin events[p]
    BY DEF AuditForetellsSending
  <1>1. PICK e : e = Evidence(p)
    OBVIOUS
  <1>2. IsFiniteSet(e.rows)
    BY <1>1, EvidenceParts DEF PacketsInv, FiniteLoad
  <1>3. /\ AuditStatus(Findings(e)) = "failed" =>
              confidence_score(e, Findings(e)) <= 75
        /\ AuditStatus(Findings(e)) = "passed" =>
              confidence_score(e, Findings(e)) >= 85
    BY <1>2, ScoreFollowsStatus
  <1>4. "packet_email_sent" \in events[p] => AuditStatus(Findings(e)) # "passed"
    BY <1>1, EvidenceParts, EmailedDoesNotPass
  <1> QED  BY <1>1, <1>3, <1>4, AuditedIsComplete

\* Every mail that leaves carries the required documents, and the audit, its
\* status and its score say beforehand which packets can be sent, whatever is
\* uploaded, deleted, lost, created, marked and sent meanwhile.
THEOREM MailsAlwaysComplete == Spec => []MailsAreComplete
  <1>1. PacketsInv => MailsAreComplete
    BY AuditsForetell DEF PacketsInv, TrailInv, MailsAreComplete
  <1> QED  BY <1>1, PacketsInvHolds, PTL

\* A packet has a date of sending exactly when its trail has a sending, with
\* any number of mails under way while others mark it or create packets.
THEOREM SentDatesMatchTrails == Spec => []SentDateMatchesTrail
  <1>1. PacketsInv => SentDateMatchesTrail
    BY DEF PacketsInv, TrailInv
  <1> QED  BY <1>1, PacketsInvHolds, PTL

\* Every column and every event that the packets' requests write has its type.
THEOREM FollowUpsTypeCorrect == Spec => []FollowUpsTypeOK
  <1>1. PacketsInv => FollowUpsTypeOK
    BY DEF PacketsInv
  <1> QED  BY <1>1, PacketsInvHolds, PTL

\* Only packets whose sending is on record are followed up, also when runs of
\* the daily generation overlap.
THEOREM TasksAlwaysHaveSendings == Spec => []TaskHasSending
  <1>1. PacketsInv => TaskHasSending
    BY DEF PacketsInv, TrailInv
  <1> QED  BY <1>1, PacketsInvHolds, PTL

-----------------------------------------------------------------------------
(* One run of the daily generation at a time.                              *)

\* The tasks that a generation is about to add are still missing.
PlansFresh ==
    \A g \in Generators : generator[g].active =>
        /\ \A p \in generator[g].packets : packetTasks[p] = 0
        /\ \A t \in generator[g].payments : paymentTasks[t] = 0

LEMMA OneGenerationKeeps ==
    ASSUME \A g, h \in Generators : g = h,
           PacketsInv, PlansFresh, OneOpenTask, [Next]_vars
    PROVE  PlansFresh' /\ OneOpenTask'
  <1>1. /\ packetTasks \in [Packets -> Nat]
        /\ paymentTasks \in [PAYMENT_TASK_TYPES -> Nat]
        /\ generator \in [Generators -> Plan \cup {NoPlan}]
    BY DEF PacketsInv, FollowUpsTypeOK
  <1>2. CASE UNCHANGED <<packetTasks, paymentTasks, generator>>
    BY <1>2 DEF PlansFresh, OneOpenTask
  <1>3. ASSUME NEW s \in Senders, CommitEmailAndTasks(s)
        PROVE  PlansFresh' /\ OneOpenTask'
    <2>1. PICK p : p = sender[s].packet
      OBVIOUS
    <2>2. /\ packetTasks' = [packetTasks EXCEPT ![p] = 0]
          /\ UNCHANGED <<paymentTasks, generator>>
      BY <1>3, <2>1 DEF CommitEmailAndTasks
    <2>3. \A q \in Packets : packetTasks'[q] \in {0, packetTasks[q]}
      BY <1>1, <2>2
    <2>4. OneOpenTask'
      BY <1>1, <2>2, <2>3 DEF OneOpenTask
    <2>5. PlansFresh'
      BY <2>2, <2>3, PlanParts DEF PlansFresh, PacketsInv
    <2> QED  BY <2>4, <2>5
  <1>4. ASSUME NEW g \in Generators, BeginGenerate(g)
        PROVE  PlansFresh' /\ OneOpenTask'
    <2>1. PICK age \in SubmittedAges :
            generator' = [generator EXCEPT ![g] =
               [active |-> TRUE,
                packets |-> Missing({p \in Packets : Unanswered(p)}, packetTasks),
                payments |-> IF payment \in {"none", "paid"} THEN {}
                             ELSE Missing(Wanted(age), paymentTasks),
                paid |-> payment = "paid"]]
      BY <1>4 DEF BeginGenerate
    <2>2. UNCHANGED <<packetTasks, paymentTasks>>
      BY <1>4 DEF BeginGenerate
    <2>3. /\ \A p \in generator'[g].packets : packetTasks[p] = 0
          /\ \A t \in generator'[g].payments : paymentTasks[t] = 0
      BY <1>1, <2>1 DEF Missing
    <2>4. \A h \in Generators \ {g} : generator'[h] = generator[h]
      BY <1>1, <2>1
    <2> QED  BY <2>2, <2>3, <2>4 DEF PlansFresh, OneOpenTask
  <1>5. ASSUME NEW g \in Generators, CommitGenerate(g)
        PROVE  PlansFresh' /\ OneOpenTask'
    <2>1. PICK plan : plan = generator[g]
      OBVIOUS
    <2>2. /\ packetTasks' = [p \in Packets |->
                packetTasks[p] + IF p \in plan.packets THEN 1 ELSE 0]
          /\ paymentTasks' = PaymentTasksAfter(plan)
          /\ generator' = [generator EXCEPT ![g] = NoPlan]
          /\ generator[g].active
      BY <1>5, <2>1 DEF CommitGenerate
    <2>3. /\ \A p \in plan.packets : packetTasks[p] = 0
          /\ \A t \in plan.payments : paymentTasks[t] = 0
      BY <2>1, <2>2 DEF PlansFresh
    <2>4. OneOpenTask'
      <3>1. \A p \in Packets : packetTasks'[p] <= 1
        BY <1>1, <2>2, <2>3 DEF OneOpenTask
      <3>2. \A t \in PAYMENT_TASK_TYPES : paymentTasks'[t] <= 1
        BY <1>1, <2>2, <2>3 DEF OneOpenTask, PaymentTasksAfter
      <3> QED  BY <3>1, <3>2 DEF OneOpenTask
    <2>5. \A h \in Generators : generator'[h] = NoPlan
      BY <1>1, <2>2
    <2> QED  BY <2>4, <2>5 DEF PlansFresh, NoPlan
  <1>6. ASSUME NEW g \in Generators, AbortGenerate(g)
        PROVE  PlansFresh' /\ OneOpenTask'
    <2>1. /\ UNCHANGED <<packetTasks, paymentTasks>>
          /\ \A h \in Generators : generator'[h] = NoPlan
      BY <1>1, <1>6 DEF AbortGenerate
    <2> QED  BY <2>1 DEF PlansFresh, OneOpenTask, NoPlan
  <1>7. CASE UNCHANGED vars
    BY <1>2, <1>7 DEF vars
  <1>8. CASE PacketStep /\ UNCHANGED taskVars
    BY <1>2, <1>8 DEF taskVars
  <1>9. CASE Wait
    BY <1>2, <1>9 DEF Wait, taskVars
  <1>10. ASSUME NEW status \in Payments, SetPayment(status)
         PROVE  PlansFresh' /\ OneOpenTask'
    BY <1>2, <1>10 DEF SetPayment
  <1> QED  BY <1>3, <1>4, <1>5, <1>6, <1>7, <1>8, <1>9, <1>10 DEF Next

\* As long as runs of the daily generation do not overlap, every sending that
\* is on record has one open task at most and nothing else has any, although a
\* run commits what it has read before others mailed, marked or rejected.
THEOREM TasksAlwaysMatchSendings ==
    ASSUME \A g, h \in Generators : g = h
    PROVE  Spec => []TasksMatchSendings
  <1> DEFINE Inv == PacketsInv /\ PlansFresh /\ OneOpenTask
  <1>1. Init => PlansFresh /\ OneOpenTask
    BY DEF Init, PlansFresh, OneOpenTask, NoPlan
  <1>2. Inv /\ [Next]_vars => Inv'
    BY PacketsNextKeeps, OneGenerationKeeps
  <1>3. Inv => TasksMatchSendings
    BY DEF PacketsInv, TrailInv, TasksMatchSendings
  <1>4. Init => Inv
    BY <1>1, PacketsInitially
  <1> QED  BY <1>2, <1>3, <1>4, PTL DEF Spec

-----------------------------------------------------------------------------
(* The extraction of documents.  (How many files there are in all is a sum *)
(* that bounds the runs and that no proof needs.)                          *)

ExtractedRow == [status : Live \cup {"absent", "deleted"},
                 file : Nat, fields : SUBSET Nat, dated : BOOLEAN]

ThreadState == {IdleThread} \cup [step : ThreadStep \ {"idle"}, doc : Uploaded,
                                  file : Nat]

ClientState == {IdleClient} \cup Edits
               \cup [op : {"extract"}, doc : Uploaded, file : Nat,
                     force : BOOLEAN]

ExtractionTypes ==
    /\ doc \in [Uploaded -> ExtractedRow]
    /\ request \in [Clients -> ClientState]
    /\ job \in [Uploaded -> Job]
    /\ run \in [Runners -> ThreadState]

\* No two sessions, of threads or of requests, extract the same document: the
\* first has locked its row.
OneExtraction ==
    \A d \in Uploaded :
        /\ \A r, s \in Runners :
             On(r, d, "extracting") /\ On(s, d, "extracting") => r = s
        /\ \A c, e \in Clients : Extracting(c, d) /\ Extracting(e, d) => c = e
        /\ \A r \in Runners, c \in Clients :
             ~(On(r, d, "extracting") /\ Extracting(c, d))

\* The row that a session extracts is there, and has the file it extracts.
FileIsCurrent ==
    \A d \in Uploaded :
        /\ RowLocked(d) => doc[d].status \in Live
        /\ \A r \in Runners :
             On(r, d, "extracting") => run[r].file = doc[d].file
        /\ \A c \in Clients : Extracting(c, d) => request[c].file = doc[d].file

ExtractionInv == /\ ExtractionTypes
                 /\ OneExtraction
                 /\ FileIsCurrent
                 /\ CompletedUnlessOvertaken

\* Whoever extracts after a step did so before it, and the same file.
NoneTakesALock ==
    /\ \A r \in Runners, d \in Uploaded :
         On(r, d, "extracting")' =>
             On(r, d, "extracting") /\ run'[r].file = run[r].file
    /\ \A c \in Clients, d \in Uploaded :
         Extracting(c, d)' =>
             Extracting(c, d) /\ request'[c].file = request[c].file

LEMMA ExtractionInitially == ExtractionInit => ExtractionInv
  <1> SUFFICES ASSUME ExtractionInit PROVE ExtractionInv
    OBVIOUS
  <1>1. doc \in [Uploaded -> ExtractedRow] /\ CompletedUnlessOvertaken
    BY DEF ExtractionInit, ExtractedRow, CompletedUnlessOvertaken
  <1>2. job \in [Uploaded -> Job]
    BY BoundsAssumption DEF ExtractionInit, Job, NoJob
  <1>3. request \in [Clients -> ClientState] /\ run \in [Runners -> ThreadState]
    BY DEF ExtractionInit, ClientState, ThreadState
  <1>4. /\ \A r \in Runners, d \in Uploaded : ~On(r, d, "extracting")
        /\ \A c \in Clients, d \in Uploaded : ~Extracting(c, d)
    BY DEF ExtractionInit, On, Extracting, IdleThread, IdleClient
  <1> QED
    BY <1>1, <1>2, <1>3, <1>4
    DEF ExtractionInv, ExtractionTypes, OneExtraction, FileIsCurrent, RowLocked

\* A step in which no session takes a lock, and no locked row goes or gets a
\* file.
LEMMA LocksKept ==
    ASSUME ExtractionInv, NoneTakesALock,
           \A d \in Uploaded :
               RowLocked(d) => doc'[d].file = doc[d].file /\ doc'[d].status \in Live
    PROVE  OneExtraction' /\ FileIsCurrent'
  <1>1. OneExtraction'
    BY DEF ExtractionInv, OneExtraction, NoneTakesALock
  <1>2. FileIsCurrent'
    BY DEF ExtractionInv, FileIsCurrent, NoneTakesALock, RowLocked
  <1> QED  BY <1>1, <1>2

\* A step that writes one row: the row has what it needs if it is completed.
LEMMA RowWritten ==
    ASSUME ExtractionInv, NEW d \in Uploaded, NEW row \in ExtractedRow,
           doc' = [doc EXCEPT ![d] = row],
           overtaken \ {d} \subseteq overtaken',
           row.status = "completed" => row.file \in row.fields \/ d \in overtaken'
    PROVE  /\ doc' \in [Uploaded -> ExtractedRow]
           /\ doc'[d] = row /\ \A e \in Uploaded \ {d} : doc'[e] = doc[e]
           /\ CompletedUnlessOvertaken'
  <1>1. /\ doc' \in [Uploaded -> ExtractedRow] /\ doc'[d] = row
        /\ \A e \in Uploaded \ {d} : doc'[e] = doc[e]
    BY DEF ExtractionInv, ExtractionTypes
  <1> QED  BY <1>1 DEF ExtractionInv, CompletedUnlessOvertaken

\* A client whose request is over, or about to write, extracts nothing.
LEMMA ClientMoves ==
    ASSUME ExtractionInv, UNCHANGED run, NEW c \in Clients,
           NEW next \in {IdleClient} \cup Edits,
           request' = [request EXCEPT ![c] = next]
    PROVE  request' \in [Clients -> ClientState] /\ NoneTakesALock
  <1>1. next.op # "extract"
    BY DEF IdleClient, Edits, Uploading
  <1>2. request \in [Clients -> ClientState]
    BY DEF ExtractionInv, ExtractionTypes
  <1>3. request'[c] = next /\ \A e \in Clients \ {c} : request'[e] = request[e]
    BY <1>2
  <1>4. request' \in [Clients -> ClientState]
    BY <1>2 DEF ClientState
  <1>5. NoneTakesALock
    BY <1>1, <1>3 DEF NoneTakesALock, On, Extracting
  <1> QED  BY <1>4, <1>5

\* A step that leaves the rows and the locks alone.
LEMMA RowsAlone ==
    ASSUME ExtractionInv, UNCHANGED <<doc, overtaken>>, NoneTakesALock
    PROVE  /\ doc' \in [Uploaded -> ExtractedRow]
           /\ OneExtraction' /\ FileIsCurrent' /\ CompletedUnlessOvertaken'
  <1>1. \A d \in Uploaded :
            RowLocked(d) => doc'[d].file = doc[d].file /\ doc'[d].status \in Live
    BY DEF ExtractionInv, FileIsCurrent
  <1>2. doc' \in [Uploaded -> ExtractedRow] /\ CompletedUnlessOvertaken'
    BY DEF ExtractionInv, ExtractionTypes, CompletedUnlessOvertaken
  <1> QED  BY <1>1, <1>2, LocksKept

\* A step that writes a row that nobody has locked.
LEMMA FreeRowWritten ==
    ASSUME ExtractionInv, UNCHANGED job, NoneTakesALock,
           request' \in [Clients -> ClientState], run' \in [Runners -> ThreadState],
           NEW d \in Uploaded, ~RowLocked(d), NEW row \in ExtractedRow,
           doc' = [doc EXCEPT ![d] = row],
           overtaken \ {d} \subseteq overtaken',
           row.status = "completed" => row.file \in row.fields \/ d \in overtaken'
    PROVE  ExtractionInv'
  <1>1. /\ doc' \in [Uploaded -> ExtractedRow] /\ CompletedUnlessOvertaken'
        /\ doc'[d] = row /\ \A e \in Uploaded \ {d} : doc'[e] = doc[e]
    BY RowWritten
  <1>2. OneExtraction' /\ FileIsCurrent'
    <2>1. \A e \in Uploaded :
              RowLocked(e) => doc'[e].file = doc[e].file /\ doc'[e].status \in Live
      BY <1>1 DEF ExtractionInv, FileIsCurrent
    <2> QED  BY <2>1, LocksKept
  <1>3. ExtractionTypes'
    BY <1>1 DEF ExtractionInv, ExtractionTypes
  <1> QED  BY <1>1, <1>2, <1>3 DEF ExtractionInv

\* What a session writes is what it extracts: the row is completed with the
\* fields of its file, or left, or failed.
LEMMA LockedRowWritten ==
    ASSUME ExtractionInv, UNCHANGED job, NoneTakesALock,
           request' \in [Clients -> ClientState], run' \in [Runners -> ThreadState],
           NEW d \in Uploaded, NEW row \in ExtractedRow,
           doc' = [doc EXCEPT ![d] = row], row.file = doc[d].file,
           overtaken \ {d} \subseteq overtaken',
           \/ row.status = "completed" /\ row.file \in row.fields
           \/ row.status = "failed"
    PROVE  ExtractionInv'
  <1>1. /\ doc' \in [Uploaded -> ExtractedRow] /\ CompletedUnlessOvertaken'
        /\ doc'[d] = row /\ \A e \in Uploaded \ {d} : doc'[e] = doc[e]
    BY RowWritten
  <1>2. OneExtraction' /\ FileIsCurrent'
    <2>1. \A e \in Uploaded :
              RowLocked(e) => doc'[e].file = doc[e].file /\ doc'[e].status \in Live
      BY <1>1 DEF ExtractionInv, FileIsCurrent, Live
    <2> QED  BY <2>1, LocksKept
  <1>3. ExtractionTypes'
    BY <1>1 DEF ExtractionInv, ExtractionTypes
  <1> QED  BY <1>1, <1>2, <1>3 DEF ExtractionInv

LEMMA SameLocks ==
    ASSUME UNCHANGED <<request, run>> PROVE NoneTakesALock
  BY DEF NoneTakesALock, On, Extracting

LEMMA InsertKeeps ==
    ASSUME ExtractionInv, NEW d \in Uploaded, NEW op, InsertDocument(d, op)
    PROVE  ExtractionInv'
  <1>1. doc[d] \in ExtractedRow /\ doc[d].status = "absent"
    BY DEF ExtractionInv, ExtractionTypes, InsertDocument
  <1>2. PICK row : row = [doc[d] EXCEPT !.status = "queued", !.file = 1]
    OBVIOUS
  <1>3. row \in ExtractedRow /\ row.status = "queued"
    BY <1>1, <1>2 DEF ExtractedRow, Live
  <1>4. doc' = [doc EXCEPT ![d] = row]
    BY <1>2 DEF InsertDocument
  <1>5. ~RowLocked(d)
    BY <1>1 DEF ExtractionInv, FileIsCurrent, Live
  <1>6. /\ UNCHANGED <<job, overtaken>> /\ NoneTakesALock
        /\ request' \in [Clients -> ClientState] /\ run' \in [Runners -> ThreadState]
    BY SameLocks DEF InsertDocument, ExtractionInv, ExtractionTypes
  <1> QED  BY <1>3, <1>4, <1>5, <1>6, FreeRowWritten

LEMMA DeleteKeeps ==
    ASSUME ExtractionInv, NEW d \in Uploaded, Delete(d)
    PROVE  ExtractionInv'
  <1>1. doc[d] \in ExtractedRow
    BY DEF ExtractionInv, ExtractionTypes
  <1>2. PICK row : row = [doc[d] EXCEPT !.status = "deleted", !.fields = {}]
    OBVIOUS
  <1>3. row \in ExtractedRow /\ row.status = "deleted"
    BY <1>1, <1>2 DEF ExtractedRow
  <1>4. doc' = [doc EXCEPT ![d] = row] /\ ~RowLocked(d)
    BY <1>2 DEF Delete
  <1>5. /\ UNCHANGED <<job, overtaken>> /\ NoneTakesALock
        /\ request' \in [Clients -> ClientState] /\ run' \in [Runners -> ThreadState]
    BY SameLocks DEF Delete, ExtractionInv, ExtractionTypes
  <1> QED  BY <1>3, <1>4, <1>5, FreeRowWritten

\* A requeued row is queued, or has the status it had.
LEMMA RequeuedRow ==
    ASSUME NEW row \in ExtractedRow, NEW columns
    PROVE  /\ Requeued(row, columns) \in ExtractedRow
           /\ Requeued(row, columns).status =
                IF "status" \in columns THEN "queued" ELSE row.status
           /\ Requeued(row, columns).file = row.file
           /\ Requeued(row, columns).fields = row.fields
  <1>1. PICK s : s = IF "status" \in columns THEN "queued" ELSE row.status
    OBVIOUS
  <1>2. PICK b \in BOOLEAN : b = (row.dated /\ "dated" \notin columns)
    BY DEF ExtractedRow
  <1>3. Requeued(row, columns) = [row EXCEPT !.status = s, !.dated = b]
    BY <1>1, <1>2 DEF Requeued
  <1>4. s \in Live \cup {"absent", "deleted"}
    BY <1>1 DEF ExtractedRow, Live
  <1> QED  BY <1>1, <1>3, <1>4 DEF ExtractedRow

LEMMA BeginEditKeeps ==
    ASSUME ExtractionInv, NEW c \in Clients, NEW d \in Uploaded, NEW op,
           BeginEdit(c, d, op)
    PROVE  ExtractionInv'
  <1>1. PICK cleared \in BOOLEAN :
            request' = [request EXCEPT ![c] = [op |-> op, doc |-> d,
                                               columns |-> Changed(d, cleared)]]
    BY DEF BeginEdit
  <1>2. PICK next : next = [op |-> op, doc |-> d, columns |-> Changed(d, cleared)]
    OBVIOUS
  <1>3. next \in Edits
    BY <1>2 DEF Edits, BeginEdit, Changed
  <1>4. request' = [request EXCEPT ![c] = next]
    BY <1>1, <1>2
  <1>5. UNCHANGED <<doc, job, run, overtaken>>
    BY DEF BeginEdit
  <1>6. request' \in [Clients -> ClientState] /\ NoneTakesALock
    BY <1>3, <1>4, <1>5, ClientMoves
  <1> QED  BY <1>5, <1>6, RowsAlone DEF ExtractionInv, ExtractionTypes

LEMMA AbandonKeeps ==
    ASSUME ExtractionInv, NEW c \in Clients, Abandon(c)
    PROVE  ExtractionInv'
  <1>1. /\ UNCHANGED <<doc, job, run, overtaken>>
        /\ request' = [request EXCEPT ![c] = IdleClient]
    BY DEF Abandon
  <1>2. request' \in [Clients -> ClientState] /\ NoneTakesALock
    BY <1>1, ClientMoves
  <1> QED  BY <1>1, <1>2, RowsAlone DEF ExtractionInv, ExtractionTypes

\* A replacement changes the file of a row that is, or becomes, queued, or
\* failed, or overtakes an extraction.
LEMMA CommitReplaceKeeps ==
    ASSUME ExtractionInv, NEW c \in Clients, NEW d \in Uploaded,
           CommitReplace(c, d)
    PROVE  ExtractionInv'
  <1>1. doc[d] \in ExtractedRow /\ ~RowLocked(d) /\ UNCHANGED <<job, run>>
    BY DEF ExtractionInv, ExtractionTypes, CommitReplace
  <1>2. PICK new : new = Requeued(doc[d], request[c].columns)
    OBVIOUS
  <1>3. /\ new \in ExtractedRow /\ new.file = doc[d].file
        /\ new.status = IF "status" \in request[c].columns THEN "queued"
                        ELSE doc[d].status
    BY <1>1, <1>2, RequeuedRow
  <1>4. PICK row : row = [new EXCEPT !.file = doc[d].file + 1]
    OBVIOUS
  <1>5. row \in ExtractedRow /\ row.status = new.status
    BY <1>3, <1>4 DEF ExtractedRow
  <1>6. doc' = [doc EXCEPT ![d] = row]
    BY <1>2, <1>4 DEF CommitReplace
  <1>7. overtaken \subseteq overtaken' /\ (row.status = "completed" => d \in overtaken')
    BY <1>3, <1>5 DEF CommitReplace
  <1>8. request' = [request EXCEPT ![c] = IdleClient]
    BY DEF CommitReplace
  <1>9. request' \in [Clients -> ClientState] /\ NoneTakesALock
    BY <1>1, <1>8, ClientMoves
  <1>10. run' \in [Runners -> ThreadState]
    BY <1>1 DEF ExtractionInv, ExtractionTypes
  <1> QED  BY <1>1, <1>5, <1>6, <1>7, <1>9, <1>10, FreeRowWritten

LEMMA CommitReprocessKeeps ==
    ASSUME ExtractionInv, NEW c \in Clients, NEW d \in Uploaded,
           CommitReprocess(c, d)
    PROVE  ExtractionInv'
  <1>1. /\ doc[d] \in ExtractedRow /\ ~RowLocked(d)
        /\ UNCHANGED <<job, run, overtaken>>
    BY DEF ExtractionInv, ExtractionTypes, CommitReprocess
  <1>2. PICK row : row = Requeued(doc[d], request[c].columns)
    OBVIOUS
  <1>3. /\ row \in ExtractedRow /\ row.file = doc[d].file
        /\ row.fields = doc[d].fields /\ row.status \in {"queued", doc[d].status}
    BY <1>1, <1>2, RequeuedRow
  <1>4. row.status = "completed" => row.file \in row.fields \/ d \in overtaken'
    BY <1>1, <1>3 DEF ExtractionInv, CompletedUnlessOvertaken
  <1>5. /\ doc' = [doc EXCEPT ![d] = row]
        /\ request' = [request EXCEPT ![c] = IdleClient]
    BY <1>2 DEF CommitReprocess
  <1>6. request' \in [Clients -> ClientState] /\ NoneTakesALock
    BY <1>1, <1>5, ClientMoves
  <1>7. run' \in [Runners -> ThreadState]
    BY <1>1 DEF ExtractionInv, ExtractionTypes
  <1> QED  BY <1>1, <1>3, <1>4, <1>5, <1>6, <1>7, FreeRowWritten

\* The request locks the row and knows the file it has.
LEMMA BeginExtractKeeps ==
    ASSUME ExtractionInv, NEW c \in Clients, NEW d \in Uploaded,
           BeginExtract(c, d)
    PROVE  ExtractionInv'
  <1>1. /\ doc[d] \in ExtractedRow /\ doc[d].status \in Live /\ ~RowLocked(d)
        /\ UNCHANGED <<doc, job, run, overtaken>>
    BY DEF ExtractionInv, ExtractionTypes, BeginExtract
  <1>2. PICK force \in BOOLEAN :
            request' = [request EXCEPT ![c] = [op |-> "extract", doc |-> d,
                                               file |-> doc[d].file,
                                               force |-> force]]
    BY DEF BeginExtract
  <1>3. PICK next : next = [op |-> "extract", doc |-> d, file |-> doc[d].file,
                            force |-> force]
    OBVIOUS
  <1>4. /\ next \in ClientState
        /\ next.op = "extract" /\ next.doc = d /\ next.file = doc[d].file
    BY <1>1, <1>3 DEF ClientState, ExtractedRow
  <1>5. /\ request' \in [Clients -> ClientState] /\ request'[c] = next
        /\ \A e \in Clients \ {c} : request'[e] = request[e]
    BY <1>2, <1>3, <1>4 DEF ExtractionInv, ExtractionTypes
  <1>6. /\ \A e \in Clients, f \in Uploaded :
             Extracting(e, f)' <=>
                 (Extracting(e, f) /\ e # c) \/ (e = c /\ f = d)
        /\ \A r \in Runners, f \in Uploaded :
             On(r, f, "extracting")' <=> On(r, f, "extracting")
    BY <1>1, <1>4, <1>5 DEF Extracting, On
  <1>7. OneExtraction'
    BY <1>1, <1>6 DEF ExtractionInv, OneExtraction, RowLocked
  <1>8. FileIsCurrent'
    BY <1>1, <1>4, <1>5, <1>6 DEF ExtractionInv, FileIsCurrent, RowLocked
  <1> QED
    BY <1>1, <1>5, <1>7, <1>8
    DEF ExtractionInv, ExtractionTypes, CompletedUnlessOvertaken

LEMMA FinishExtractKeeps ==
    ASSUME ExtractionInv, NEW c \in Clients, NEW d \in Uploaded,
           FinishExtract(c, d)
    PROVE  ExtractionInv'
  <1> DEFINE kept == IF request[c].force THEN {} ELSE doc[d].fields
             all  == kept \cup {request[c].file}
  <1>1. /\ doc[d] \in ExtractedRow /\ request[c].file = doc[d].file
        /\ UNCHANGED <<job, run>>
        /\ request' = [request EXCEPT ![c] = IdleClient]
    BY DEF ExtractionInv, ExtractionTypes, FileIsCurrent, FinishExtract
  <1>2. request' \in [Clients -> ClientState] /\ NoneTakesALock
    BY <1>1, ClientMoves
  <1>3. run' \in [Runners -> ThreadState]
    BY <1>1 DEF ExtractionInv, ExtractionTypes
  <1>4. kept \in SUBSET Nat /\ all \in SUBSET Nat /\ doc[d].file \in all
    BY <1>1 DEF ExtractedRow
  <1>5. ASSUME doc' = [doc EXCEPT ![d].status = "completed",
                                  ![d].dated = TRUE, ![d].fields = all],
               overtaken' = overtaken \ {d}
        PROVE  ExtractionInv'
    <2> HIDE DEF kept, all
    <2>1. PICK row : row = [doc[d] EXCEPT !.status = "completed",
                                          !.dated = TRUE, !.fields = all]
      OBVIOUS
    <2>2. /\ row \in ExtractedRow /\ row.status = "completed"
          /\ row.file = doc[d].file /\ row.file \in row.fields
      BY <1>1, <1>4, <2>1 DEF ExtractedRow, Live
    <2>3. doc' = [doc EXCEPT ![d] = row]
      BY <1>5, <2>1
    <2> QED  BY <1>1, <1>2, <1>3, <1>5, <2>2, <2>3, LockedRowWritten
  <1>6. ASSUME NEW fields \in {kept, all}, UNCHANGED overtaken,
               doc' = [doc EXCEPT ![d].status = "failed", ![d].fields = fields]
        PROVE  ExtractionInv'
    <2>1. fields \in SUBSET Nat
      BY <1>4
    <2> HIDE DEF kept, all
    <2>2. PICK row : row = [doc[d] EXCEPT !.status = "failed", !.fields = fields]
      OBVIOUS
    <2>3. /\ row \in ExtractedRow /\ row.status = "failed"
          /\ row.file = doc[d].file
      BY <1>1, <2>1, <2>2 DEF ExtractedRow, Live
    <2>4. doc' = [doc EXCEPT ![d] = row]
      BY <1>6, <2>2
    <2> QED  BY <1>1, <1>2, <1>3, <1>6, <2>3, <2>4, LockedRowWritten
  <1>7. CASE UNCHANGED <<doc, overtaken>>
    BY <1>1, <1>2, <1>3, <1>7, RowsAlone DEF ExtractionInv, ExtractionTypes
  <1> QED  BY <1>5, <1>6, <1>7 DEF FinishExtract

LEMMA EnqueueKeeps ==
    ASSUME ExtractionInv, NEW d \in Uploaded, NEW runner \in BOOLEAN,
           Enqueue(d, runner)
    PROVE  ExtractionInv'
  <1>1. [status |-> "queued", attempts |-> 0] \in Job
    BY BoundsAssumption DEF Job
  <1>2. job' \in [Uploaded -> Job]
    BY <1>1 DEF Enqueue, ExtractionInv, ExtractionTypes
  <1>3. UNCHANGED <<doc, request, run, overtaken>>
    BY DEF Enqueue
  <1> QED
    BY <1>2, <1>3, SameLocks, RowsAlone DEF ExtractionInv, ExtractionTypes

\* The thread r goes on to a step at which it extracts nothing.
LEMMA ThreadMoves ==
    ASSUME ExtractionInv, UNCHANGED request, NEW r \in Runners,
           NEW next \in ThreadState, next.step # "extracting",
           run' = [run EXCEPT ![r] = next]
    PROVE  run' \in [Runners -> ThreadState] /\ NoneTakesALock
  <1>1. run \in [Runners -> ThreadState]
    BY DEF ExtractionInv, ExtractionTypes
  <1>2. run'[r] = next /\ \A s \in Runners \ {r} : run'[s] = run[s]
    BY <1>1
  <1>3. run' \in [Runners -> ThreadState]
    BY <1>1
  <1>4. NoneTakesALock
    BY <1>2 DEF NoneTakesALock, On, Extracting
  <1> QED  BY <1>3, <1>4

LEMMA ThreadIsState ==
    ASSUME NEW d \in Uploaded, NEW step \in ThreadStep \ {"idle"}, NEW file \in Nat
    PROVE  /\ Thread(d, step, file) \in ThreadState
           /\ Thread(d, step, file).step = step /\ Thread(d, step, file).doc = d
           /\ Thread(d, step, file).file = file
  BY DEF Thread, ThreadState

LEMMA ThreadGoesOn ==
    ASSUME ExtractionInv, UNCHANGED request, NEW r \in Runners,
           NEW d \in Uploaded, NEW step \in {"started", "succeeded", "raised"},
           run' = [run EXCEPT ![r] = Thread(d, step, 0)]
    PROVE  run' \in [Runners -> ThreadState] /\ NoneTakesALock
  <1>1. step \in ThreadStep \ {"idle"} /\ step # "extracting" /\ 0 \in Nat
    BY DEF ThreadStep
  <1>2. Thread(d, step, 0) \in ThreadState /\ Thread(d, step, 0).step # "extracting"
    BY <1>1, ThreadIsState
  <1> QED  BY <1>2, ThreadMoves

LEMMA StartRunKeeps ==
    ASSUME ExtractionInv, NEW r \in Runners, NEW d \in Uploaded, StartRun(r, d)
    PROVE  ExtractionInv'
  <1>1. /\ job \in [Uploaded -> Job] /\ job[d] \in Job
        /\ UNCHANGED <<doc, request, overtaken>>
    BY DEF ExtractionInv, ExtractionTypes, StartRun
  <1>2. CASE Runnable(d)
    <2>1. PICK row : row = [status |-> "processing",
                            attempts |-> job[d].attempts + 1]
      OBVIOUS
    <2>2. row \in Job
      BY <1>1, <1>2, <2>1, BoundsAssumption DEF Job, Runnable
    <2>3. job' = [job EXCEPT ![d] = row]
      BY <1>2, <2>1 DEF StartRun
    <2>4. job' \in [Uploaded -> Job]
      BY <1>1, <2>2, <2>3
    <2>5. run' = [run EXCEPT ![r] = Thread(d, "started", 0)]
      BY <1>2 DEF StartRun
    <2>6. run' \in [Runners -> ThreadState] /\ NoneTakesALock
      BY <1>1, <2>5, ThreadGoesOn
    <2> QED
      BY <1>1, <2>4, <2>6, RowsAlone DEF ExtractionInv, ExtractionTypes
  <1>3. CASE ~Runnable(d)
    <2>1. job' \in [Uploaded -> Job]
      <3>1. PICK s : s = IF job[d].status = "completed" THEN job[d].status ELSE "failed"
        OBVIOUS
      <3>2. [job[d] EXCEPT !.status = s] \in Job
        BY <1>1, <3>1 DEF Job
      <3>3. job' = [job EXCEPT ![d] = [job[d] EXCEPT !.status = s]]
        BY <1>3, <3>1 DEF StartRun
      <3> QED  BY <1>1, <3>2, <3>3
    <2>2. UNCHANGED run
      BY <1>3 DEF StartRun
    <2> QED
      BY <1>1, <2>1, <2>2, SameLocks, RowsAlone DEF ExtractionInv, ExtractionTypes
  <1> QED  BY <1>2, <1>3

\* The thread locks the row, if it is there, and knows the file it has.
LEMMA LockKeeps ==
    ASSUME ExtractionInv, NEW r \in Runners, NEW d \in Uploaded, Lock(r, d)
    PROVE  ExtractionInv'
  <1>1. /\ ~RowLocked(d) /\ UNCHANGED <<doc, request, job, overtaken>>
        /\ doc[d] \in ExtractedRow
    BY DEF ExtractionInv, ExtractionTypes, Lock
  <1>2. CASE doc[d].status \notin Live
    <2>1. run' = [run EXCEPT ![r] = Thread(d, "raised", 0)]
      BY <1>2 DEF Lock
    <2>2. run' \in [Runners -> ThreadState] /\ NoneTakesALock
      BY <1>1, <2>1, ThreadGoesOn
    <2> QED  BY <1>1, <2>2, RowsAlone DEF ExtractionInv, ExtractionTypes
  <1>3. CASE doc[d].status \in Live
    <2>1. PICK next : next = Thread(d, "extracting", doc[d].file)
      OBVIOUS
    <2>2. doc[d].file \in Nat /\ "extracting" \in ThreadStep \ {"idle"}
      BY <1>1 DEF ExtractedRow, ThreadStep
    <2>3. /\ next \in ThreadState /\ next.step = "extracting"
          /\ next.doc = d /\ next.file = doc[d].file
      BY <2>1, <2>2, ThreadIsState
    <2>4. /\ run' \in [Runners -> ThreadState] /\ run'[r] = next
          /\ \A s \in Runners \ {r} : run'[s] = run[s]
      BY <1>3, <2>1, <2>3 DEF Lock, ExtractionInv, ExtractionTypes
    <2>5. /\ \A s \in Runners, f \in Uploaded :
               On(s, f, "extracting")' <=>
                   (On(s, f, "extracting") /\ s # r) \/ (s = r /\ f = d)
          /\ \A c \in Clients, f \in Uploaded :
               Extracting(c, f)' <=> Extracting(c, f)
      <3>1. \A f \in Uploaded : On(r, f, "extracting")' <=> f = d
        BY <2>3, <2>4 DEF On
      <3> QED  BY <1>1, <2>4, <3>1 DEF Extracting, On
    <2>6. OneExtraction'
      BY <1>1, <2>5 DEF ExtractionInv, OneExtraction, RowLocked
    <2>7. FileIsCurrent'
      BY <1>1, <1>3, <2>3, <2>4, <2>5 DEF ExtractionInv, FileIsCurrent, RowLocked
    <2> QED
      BY <1>1, <2>4, <2>6, <2>7
      DEF ExtractionInv, ExtractionTypes, CompletedUnlessOvertaken
  <1> QED  BY <1>2, <1>3

LEMMA ExtractKeeps ==
    ASSUME ExtractionInv, NEW r \in Runners, NEW d \in Uploaded, Extract(r, d)
    PROVE  ExtractionInv'
  <1>1. /\ doc[d] \in ExtractedRow /\ run[r].file = doc[d].file
        /\ UNCHANGED <<request, job>>
    BY DEF Extract, ExtractionInv, ExtractionTypes, FileIsCurrent
  <1>2. request' \in [Clients -> ClientState]
    BY <1>1 DEF ExtractionInv, ExtractionTypes
  <1>3. CASE /\ doc' = [doc EXCEPT ![d].status = "completed", ![d].dated = TRUE,
                                   ![d].fields = @ \cup {run[r].file}]
             /\ run' = [run EXCEPT ![r] = Thread(d, "succeeded", 0)]
             /\ overtaken' = overtaken \ {d}
    <2>1. PICK row : row = [doc[d] EXCEPT !.status = "completed", !.dated = TRUE,
                                          !.fields = @ \cup {run[r].file}]
      OBVIOUS
    <2>2. /\ row \in ExtractedRow /\ row.status = "completed"
          /\ row.file = doc[d].file /\ row.file \in row.fields
      BY <1>1, <2>1 DEF ExtractedRow, Live
    <2>3. doc' = [doc EXCEPT ![d] = row]
      BY <1>3, <2>1
    <2>4. run' \in [Runners -> ThreadState] /\ NoneTakesALock
      BY <1>1, <1>3, ThreadGoesOn
    <2> QED  BY <1>1, <1>2, <1>3, <2>2, <2>3, <2>4, LockedRowWritten
  <1>4. CASE /\ run' = [run EXCEPT ![r] = Thread(d, "raised", 0)]
             /\ UNCHANGED <<doc, overtaken>>
    <2>1. run' \in [Runners -> ThreadState] /\ NoneTakesALock
      BY <1>1, <1>4, ThreadGoesOn
    <2> QED
      BY <1>1, <1>2, <1>4, <2>1, RowsAlone DEF ExtractionInv, ExtractionTypes
  <1> QED  BY <1>3, <1>4 DEF Extract

LEMMA SettleKeeps ==
    ASSUME ExtractionInv, NEW r \in Runners, NEW d \in Uploaded, Settle(r, d)
    PROVE  ExtractionInv'
  <1>1. PICK outcome \in {"succeeded", "raised"} :
            job' = [job EXCEPT ![d].status = Settled(outcome, d)]
    BY DEF Settle
  <1>2. PICK s : s = Settled(outcome, d)
    OBVIOUS
  <1>3. s \in {"completed", "failed", "queued"}
    BY <1>2 DEF Settled
  <1>4. job' \in [Uploaded -> Job]
    <2>1. job[d] \in Job
      BY DEF ExtractionInv, ExtractionTypes
    <2>2. [job[d] EXCEPT !.status = s] \in Job
      BY <1>3, <2>1 DEF Job
    <2>3. job' = [job EXCEPT ![d] = [job[d] EXCEPT !.status = s]]
      BY <1>1, <1>2
    <2> QED  BY <2>2, <2>3 DEF ExtractionInv, ExtractionTypes
  <1>5. /\ run' = [run EXCEPT ![r] = IdleThread]
        /\ UNCHANGED <<doc, request, overtaken>>
    BY DEF Settle
  <1>6. IdleThread \in ThreadState /\ IdleThread.step # "extracting"
    BY DEF ThreadState, IdleThread
  <1>7. run' \in [Runners -> ThreadState] /\ NoneTakesALock
    BY <1>5, <1>6, ThreadMoves
  <1> QED  BY <1>4, <1>5, <1>7, RowsAlone DEF ExtractionInv, ExtractionTypes

LEMMA CrashKeeps ==
    ASSUME ExtractionInv, Crash
    PROVE  ExtractionInv'
  <1>1. NoJob \in Job
    BY BoundsAssumption DEF NoJob, Job
  <1>2. UNCHANGED <<doc, overtaken>> /\ job' \in [Uploaded -> Job]
    BY <1>1 DEF Crash
  <1>3. request' \in [Clients -> ClientState] /\ run' \in [Runners -> ThreadState]
    BY DEF Crash, ClientState, ThreadState
  <1>4. NoneTakesALock
    BY DEF Crash, NoneTakesALock, On, Extracting, IdleThread, IdleClient
  <1> QED
    BY <1>2, <1>3, <1>4, RowsAlone DEF ExtractionInv, ExtractionTypes

LEMMA ExtractionNextKeeps ==
    ExtractionInv /\ [ExtractionNext]_extractionVars => ExtractionInv'
  <1> SUFFICES ASSUME ExtractionInv, [ExtractionNext]_extractionVars
               PROVE  ExtractionInv'
    OBVIOUS
  <1>1. ASSUME NEW d \in Uploaded, NEW op \in ClientCalls, InsertDocument(d, op)
        PROVE  ExtractionInv'
    BY <1>1, InsertKeeps
  <1>2. ASSUME NEW d \in Uploaded, Delete(d)
        PROVE  ExtractionInv'
    BY <1>2, DeleteKeeps
  <1>3. ASSUME NEW d \in Uploaded, NEW c \in Clients, ClientStep(c, d)
        PROVE  ExtractionInv'
    BY <1>3, BeginEditKeeps, CommitReplaceKeeps, CommitReprocessKeeps,
       BeginExtractKeeps, FinishExtractKeeps DEF ClientStep
  <1>4. ASSUME NEW d \in Uploaded, NEW runner \in BOOLEAN, Enqueue(d, runner)
        PROVE  ExtractionInv'
    BY <1>4, EnqueueKeeps
  <1>5. ASSUME NEW d \in Uploaded, NEW r \in Runners,
               StartRun(r, d) \/ RunJob(r, d)
        PROVE  ExtractionInv'
    BY <1>5, StartRunKeeps, LockKeeps, ExtractKeeps, SettleKeeps DEF RunJob
  <1>6. ASSUME NEW c \in Clients, Abandon(c)
        PROVE  ExtractionInv'
    BY <1>6, AbandonKeeps
  <1>7. CASE Crash
    BY <1>7, CrashKeeps
  <1>8. CASE UNCHANGED extractionVars
    <2>1. UNCHANGED <<doc, request, job, run, overtaken>>
      BY <1>8 DEF extractionVars
    <2> QED
      BY <2>1, SameLocks, RowsAlone DEF ExtractionInv, ExtractionTypes
  <1> QED  BY <1>1, <1>2, <1>3, <1>4, <1>5, <1>6, <1>7, <1>8 DEF ExtractionNext

LEMMA ExtractionInvHolds == ExtractionSpec => []ExtractionInv
  BY ExtractionInitially, ExtractionNextKeeps, PTL DEF ExtractionSpec

\* A completed row without the fields of its file comes from nothing but a
\* replacement that read it queued and was committed after its extraction, for
\* any documents, threads, requests, failures and restarts.
THEOREM CompletedAlwaysUnlessOvertaken ==
    ExtractionSpec => []CompletedUnlessOvertaken
  <1>1. ExtractionInv => CompletedUnlessOvertaken
    BY DEF ExtractionInv
  <1> QED  BY <1>1, ExtractionInvHolds, PTL

\* No job has more attempts than it may have, and no two sessions, of threads
\* or of requests, extract one document at the same time, although runs of one
\* job may overlap with each other and with POST /documents/{id}/extract; each
\* extracts the file that the row has when it is committed.
THEOREM ExtractionsNeverOverlap ==
    ExtractionSpec => [](/\ OneExtraction /\ FileIsCurrent
                         /\ \A d \in Uploaded : job[d].attempts <= MaxAttempts)
  <1>1. ExtractionInv => /\ OneExtraction /\ FileIsCurrent
                         /\ \A d \in Uploaded : job[d].attempts <= MaxAttempts
    BY BoundsAssumption DEF ExtractionInv, ExtractionTypes, Job
  <1> QED  BY <1>1, ExtractionInvHolds, PTL

-----------------------------------------------------------------------------
(* The operational e-mails.                                                *)

\* Session s has a row of type t, and has one whose mail has left.
HasRow(s, t) == Open(s) /\ \E row \in session[s].own : row.type = t
HasMailed(s, t) ==
    Open(s) /\ \E row \in session[s].own : row.type = t /\ row.mailed

\* A row of type t whose mail has left is committed, or is still a session's.
RowCommitted(t) == \E row \in BagToSet(notices) : row.type = t /\ row.mailed
RowRemains(t) == RowCommitted(t) \/ \E s \in Sessions : HasMailed(s, t)

Addressee(t) == IF t \in OpsTypes THEN "ops" ELSE "other"

\* Session s will send a mail of type t, and would have seen the others' rows.
Awaits(s, t) ==
    /\ Open(s) /\ ~session[s].late
    /\ \/ session[s].sending /\ t = Head(session[s].due)
       \/ /\ session[s].kind = "demo"
          /\ \E i \in DOMAIN session[s].due : t = session[s].due[i]

\* Every mail of the type so far is excused.
AllExcused(t) == mails[t] <= unsaved[t] + overlaps[t]

\* One mail needs no excuse, but then its row remains.
RowForUnexcused ==
    \A t \in Types : ~AllExcused(t) => RowRemains(t)

AwaitedAreExcused ==
    \A s \in Sessions, t \in Types : Awaits(s, t) => AllExcused(t)

\* Of two sessions with rows of one type, and of two demo requests, the later
\* one is late.
OverlapsAreLate ==
    \A s, r \in Sessions :
        s # r => /\ \A t \in Types : HasRow(s, t) /\ HasRow(r, t) =>
                                     session[s].late \/ session[r].late
                 /\ Open(s) /\ Open(r) /\ session[s].kind = "demo" =>
                      session[s].late \/ session[r].late

LeadsSound ==
    /\ \A s \in Sessions :
         Open(s) => (session[s].kind = "demo" <=> subject = "lead")
    /\ subject = "lead" =>
         document = "absent" /\ \A t \in Types : RowCommitted(t) => lead

DeletedHasNoRows ==
    document = "deleted" => \A s \in Sessions : Open(s) => session[s].own = {}

RowsAddressed ==
    /\ \A row \in BagToSet(notices) :
         row.mailed => row.to = Addressee(row.type)
    /\ \A s \in Sessions : Open(s) =>
         \A row \in session[s].own : row.mailed => row.to = Addressee(row.type)

DueSound ==
    \A s \in Sessions : Open(s) =>
        /\ \A i, j \in DOMAIN session[s].due :
             i # j => session[s].due[i] # session[s].due[j]
        /\ session[s].sending =>
             /\ session[s].due # <<>>
             /\ HasRow(s, Head(session[s].due))
             /\ Recipient(Head(session[s].due)) # "none"

MailsInv ==
    /\ NotificationsTypeOK /\ MailedOnce
    /\ RowForUnexcused /\ AwaitedAreExcused /\ OverlapsAreLate
    /\ LeadsSound /\ DeletedHasNoRows /\ RowsAddressed /\ DueSound

LEMMA TypesOfMails ==
    /\ {"document_uploaded", "driver_upload_confirmation", "invoice_submitted",
        "demo_request_received", "demo_request_acknowledgement"} \subseteq Types
    /\ PaymentMails \subseteq Types
    /\ MailTypesOf["load"] \subseteq Types
  <1>1. /\ "document" \in DOMAIN MailTypesOf
        /\ "load" \in DOMAIN MailTypesOf
        /\ "lead" \in DOMAIN MailTypesOf
    BY DEF MailTypesOf
  <1>2. /\ MailTypesOf["document"] \subseteq Types
        /\ MailTypesOf["load"] \subseteq Types
        /\ MailTypesOf["lead"] \subseteq Types
    BY <1>1 DEF Types
  <1>3. /\ MailTypesOf["document"]
             = {"document_uploaded", "driver_upload_confirmation"}
        /\ MailTypesOf["load"] = {"invoice_submitted"} \cup PaymentMails
        /\ MailTypesOf["lead"]
             = {"demo_request_received", "demo_request_acknowledgement"}
    BY DEF MailTypesOf
  <1> QED  BY <1>2, <1>3

\* A bag to which the rows of a set are added.
LEMMA RowsAdded ==
    ASSUME NEW B, IsABag(B), NEW S
    PROVE  /\ IsABag(B (+) SetToBag(S))
           /\ BagToSet(B (+) SetToBag(S)) = BagToSet(B) \cup S
  <1> DEFINE C == B (+) SetToBag(S)
  <1>1. DOMAIN SetToBag(S) = S /\ \A e \in S : SetToBag(S)[e] = 1
    BY DEF SetToBag
  <1>2. DOMAIN C = DOMAIN B \cup S
    BY <1>1 DEF (+)
  <1>3. ASSUME NEW e \in DOMAIN C
        PROVE  C[e] \in {n \in Nat : n > 0}
    <2>1. C[e] = (IF e \in DOMAIN B THEN B[e] ELSE 0)
                 + (IF e \in S THEN SetToBag(S)[e] ELSE 0)
      BY <1>1, <1>2, <1>3 DEF (+)
    <2>2. e \in DOMAIN B => B[e] \in Nat /\ B[e] > 0
      BY DEF IsABag
    <2> QED  BY <1>1, <1>2, <1>3, <2>1, <2>2
  <1>4. C = [e \in DOMAIN C |-> C[e]]
    BY <1>2, <1>1 DEF (+)
  <1>5. IsABag(C)
    <2> HIDE DEF C
    <2> QED  BY <1>3, <1>4 DEF IsABag
  <1> QED  BY <1>2, <1>5 DEF BagToSet

LEMMA RowsRemoved ==
    ASSUME NEW B, IsABag(B), NEW S
    PROVE  /\ IsABag(B (-) SetToBag(S))
           /\ BagToSet(B (-) SetToBag(S)) \subseteq BagToSet(B)
           /\ BagToSet(B) \ S \subseteq BagToSet(B (-) SetToBag(S))
  <1> DEFINE A == [e \in DOMAIN B |-> IF e \in S THEN B[e] - 1 ELSE B[e]]
             C == [e \in {d \in DOMAIN B : A[d] > 0} |-> A[e]]
  <1>1. DOMAIN SetToBag(S) = S /\ \A e \in S : SetToBag(S)[e] = 1
    BY DEF SetToBag
  <1>2. A = [e \in DOMAIN B |-> IF e \in DOMAIN SetToBag(S)
                                THEN B[e] - SetToBag(S)[e] ELSE B[e]]
    BY <1>1
  <1>3. B (-) SetToBag(S) = C
    <2>1. DOMAIN A = DOMAIN B
      OBVIOUS
    <2> HIDE DEF A
    <2> QED  BY <1>2, <2>1 DEF (-)
  <1>4. \A e \in DOMAIN B : B[e] \in Nat /\ B[e] > 0
    BY DEF IsABag
  <1>5. \A e \in DOMAIN C : C[e] \in {n \in Nat : n > 0}
    BY <1>4
  <1>6. C = [e \in DOMAIN C |-> C[e]]
    OBVIOUS
  <1>7. IsABag(C)
    <2> HIDE DEF C
    <2> QED  BY <1>5, <1>6 DEF IsABag
  <1>8. DOMAIN C \subseteq DOMAIN B /\ DOMAIN B \ S \subseteq DOMAIN C
    BY <1>4
  <1> QED  BY <1>3, <1>7, <1>8 DEF BagToSet

LEMMA OpenSession ==
    ASSUME NotificationsTypeOK, NEW s \in Sessions, Open(s)
    PROVE  /\ session[s] \in Work
           /\ session[s].due \in Seq(Types)
           /\ session[s].own \subseteq Notification
           /\ session[s].late \in BOOLEAN /\ session[s].sending \in BOOLEAN
  <1>1. session[s] \in Work \cup {Closed}
    BY DEF NotificationsTypeOK
  <1>2. Closed.kind = "idle"
    BY DEF Closed
  <1>3. session[s] \in Work
    BY <1>1, <1>2 DEF Open
  <1> QED  BY <1>3 DEF Work

LEMMA ClosedIsNotOpen == Closed.kind = "idle"
  BY DEF Closed

\* What is left of a sequence that repeats nothing.
LEMMA DueLeft ==
    ASSUME NEW q \in Seq(Types), q # <<>>,
           \A i, j \in DOMAIN q : i # j => q[i] # q[j]
    PROVE  /\ Head(q) \in Types /\ Tail(q) \in Seq(Types)
           /\ \E i \in DOMAIN q : Head(q) = q[i]
           /\ \A i, j \in DOMAIN Tail(q) : i # j => Tail(q)[i] # Tail(q)[j]
           /\ \A i \in DOMAIN Tail(q) :
                /\ Tail(q)[i] # Head(q)
                /\ \E j \in DOMAIN q : Tail(q)[i] = q[j]
  <1>1. Len(q) \in Nat /\ Len(q) > 0 /\ DOMAIN q = 1 .. Len(q)
    OBVIOUS
  <1>2. /\ Head(q) = q[1] /\ Len(Tail(q)) = Len(q) - 1
        /\ Tail(q) \in Seq(Types)
    BY <1>1
  <1>3. /\ DOMAIN Tail(q) = 1 .. Len(q) - 1
        /\ \A i \in DOMAIN Tail(q) : Tail(q)[i] = q[i + 1]
    BY <1>1, <1>2
  <1>4. \A i \in DOMAIN Tail(q) : i + 1 \in DOMAIN q /\ i + 1 # 1
    BY <1>1, <1>3
  <1>5. 1 \in DOMAIN q /\ q[1] \in Types
    BY <1>1
  <1>6. \A i, j \in DOMAIN Tail(q) : i # j => i + 1 # j + 1
    BY <1>3
  <1> QED  BY <1>2, <1>3, <1>4, <1>5, <1>6

LEMMA MailsInitially == NotificationsInit => MailsInv
  <1> SUFFICES ASSUME NotificationsInit PROVE MailsInv
    OBVIOUS
  <1>1. IsABag(notices) /\ BagToSet(notices) = {}
    <2>1. notices = [e \in {} |-> 1]
      BY DEF NotificationsInit, EmptyBag, SetToBag
    <2>2. DOMAIN notices = {} /\ notices \in [{} -> {n \in Nat : n > 0}]
      BY <2>1
    <2> QED  BY <2>2 DEF IsABag, BagToSet
  <1>2. NotificationsTypeOK
    <2>1. session \in [Sessions -> Work \cup {Closed}]
      BY DEF NotificationsInit
    <2>2. {mails, unsaved, overlaps} \subseteq [Types -> Nat]
      BY DEF NotificationsInit
    <2>3. changes \in 0 .. MaxChanges /\ faults \in 0 .. MaxFaults
      BY OpenAssumption DEF NotificationsInit
    <2>4. BagToSet(notices) \subseteq Notification
      BY <1>1
    <2> QED  BY <1>1, <2>1, <2>2, <2>3, <2>4
             DEF NotificationsInit, NotificationsTypeOK
  <1>3. \A s \in Sessions : ~Open(s)
    BY ClosedIsNotOpen DEF NotificationsInit, Open
  <1>4. MailedOnce /\ RowForUnexcused
    <2>1. \A t \in Types : mails[t] = 0 /\ unsaved[t] = 0 /\ overlaps[t] = 0
      BY DEF NotificationsInit
    <2> QED  BY <2>1 DEF MailedOnce, RowForUnexcused, AllExcused
  <1>5. AwaitedAreExcused /\ OverlapsAreLate /\ DeletedHasNoRows /\ DueSound
    BY <1>3 DEF AwaitedAreExcused, Awaits, OverlapsAreLate, HasRow,
                DeletedHasNoRows, DueSound
  <1>6. LeadsSound /\ RowsAddressed
    BY <1>1, <1>3 DEF LeadsSound, RowCommitted, RowsAddressed, NotificationsInit
  <1> QED  BY <1>2, <1>4, <1>5, <1>6 DEF MailsInv

\* A step that leaves the sessions and the counts of mails alone.
LEMMA MailsUntouched ==
    ASSUME MailsInv, NotificationsTypeOK', DeletedHasNoRows',
           subject = "lead" => UNCHANGED document,
           subject' = subject, setting' = setting, lead' = lead,
           session' = session, mails' = mails, unsaved' = unsaved,
           overlaps' = overlaps,
           \A t \in Types : RowCommitted(t)' <=> RowCommitted(t),
           \A row \in BagToSet(notices') :
             row.mailed => row.to = Addressee(row.type)
    PROVE  MailsInv'
  <1>1. \A s \in Sessions :
          /\ Open(s)' <=> Open(s)
          /\ \A t \in Types : /\ HasRow(s, t)' <=> HasRow(s, t)
                              /\ HasMailed(s, t)' <=> HasMailed(s, t)
                              /\ Awaits(s, t)' <=> Awaits(s, t)
    BY DEF Open, HasRow, HasMailed, Awaits
  <1>2. \A t \in Types : AllExcused(t)' <=> AllExcused(t)
    BY DEF AllExcused
  <1>3. RowForUnexcused' /\ AwaitedAreExcused' /\ MailedOnce'
    BY <1>1, <1>2 DEF MailsInv, RowForUnexcused, RowRemains, AwaitedAreExcused,
                      MailedOnce
  <1>4. OverlapsAreLate'
    <2> SUFFICES ASSUME NEW s \in Sessions, NEW r \in Sessions, s # r
                 PROVE  /\ \A t \in Types : HasRow(s, t)' /\ HasRow(r, t)' =>
                                     session'[s].late \/ session'[r].late
                        /\ (Open(s)' /\ Open(r)' /\ session'[s].kind = "demo" =>
                             session'[s].late \/ session'[r].late)
      BY DEF OverlapsAreLate
    <2>1. /\ \A t \in Types : HasRow(s, t) /\ HasRow(r, t) =>
                                session[s].late \/ session[r].late
          /\ (Open(s) /\ Open(r) /\ session[s].kind = "demo" =>
                session[s].late \/ session[r].late)
      BY DEF MailsInv, OverlapsAreLate
    <2> QED  BY <1>1, <2>1
  <1>5. LeadsSound' /\ RowsAddressed'
    <2>1. LeadsSound'
      BY <1>1 DEF MailsInv, LeadsSound
    <2>2. RowsAddressed'
      BY <1>1 DEF MailsInv, RowsAddressed, Addressee
    <2> QED  BY <2>1, <2>2
  <1>6. DueSound'
    <2>1. \A s \in Sessions : Open(s) /\ session[s].sending =>
             Head(session[s].due) \in Types
      BY OpenSession DEF MailsInv, DueSound
    <2> QED  BY <1>1, <2>1 DEF MailsInv, DueSound, Recipient, HasRow, Open
  <1> QED  BY <1>3, <1>4, <1>5, <1>6 DEF MailsInv

LEMMA StartKeeps ==
    ASSUME MailsInv, NEW s \in Sessions,
           NEW kind \in {"task", "driver_upload", "status", "payment", "demo"},
           NEW due \in Seq(Types), \A i, j \in DOMAIN due : i # j => due[i] # due[j],
           NEW late \in BOOLEAN, Starts(s, kind, due, late),
           kind = "demo" <=> subject = "lead",
           kind = "demo" => ~lead /\ (Held("demo") => late),
           deferred' \in Nat, changes' \in 0 .. MaxChanges,
           UNCHANGED <<subject, setting, document, lead, notices, history, faults>>
    PROVE  MailsInv'
  <1> DEFINE w == [kind |-> kind, due |-> due, own |-> {}, sending |-> FALSE,
                   late |-> late]
  <1>1. w \in Work
    BY DEF Work
  <1>2. /\ session' = [session EXCEPT ![s] = w] /\ ~Open(s)
        /\ session \in [Sessions -> Work \cup {Closed}]
    BY DEF Starts, MailsInv, NotificationsTypeOK
  <1>3. NotificationsTypeOK'
    BY <1>1, <1>2 DEF MailsInv, NotificationsTypeOK, history
  <1>4. /\ session'[s] = w
        /\ \A r \in Sessions : r # s => session'[r] = session[r]
        /\ w.kind = kind /\ w.due = due /\ w.own = {} /\ w.sending = FALSE
        /\ w.late = late /\ kind # "idle"
    BY <1>2
  <1> HIDE DEF w
  <1>5. Open(s)' /\ \A r \in Sessions : r # s => (Open(r)' <=> Open(r))
    BY <1>4 DEF Open
  <1>6. \A r \in Sessions, t \in Types :
          /\ HasRow(r, t)' <=> HasRow(r, t)
          /\ HasMailed(r, t)' <=> HasMailed(r, t)
    BY <1>2, <1>4, <1>5 DEF HasRow, HasMailed
  <1>7. \A t \in Types : /\ AllExcused(t)' <=> AllExcused(t)
                         /\ RowRemains(t)' <=> RowRemains(t)
    BY <1>6 DEF AllExcused, RowRemains, RowCommitted, history
  <1>8. MailedOnce' /\ RowForUnexcused'
    BY <1>7 DEF MailsInv, RowForUnexcused, MailedOnce, history
  <1>9. ASSUME kind = "demo"
        PROVE  /\ \A r \in Sessions : Open(r) => late
               /\ \A t \in Types : late \/ AllExcused(t)
    <2>1. \A r \in Sessions : Open(r) => late
      BY <1>9 DEF MailsInv, LeadsSound, Held
    <2>2. \A t \in Types : ~RowCommitted(t)
      BY <1>9 DEF MailsInv, LeadsSound
    <2> QED  BY <2>1, <2>2 DEF MailsInv, RowForUnexcused, RowRemains, HasMailed
  <1>10. AwaitedAreExcused'
    <2> SUFFICES ASSUME NEW r \in Sessions, NEW t \in Types, Awaits(r, t)'
                 PROVE  AllExcused(t)'
      BY DEF AwaitedAreExcused
    <2>1. CASE r = s
      BY <1>4, <1>7, <1>9, <2>1 DEF Awaits
    <2>2. CASE r # s
      <3>1. Awaits(r, t)
        BY <1>4, <1>5, <2>2 DEF Awaits
      <3> QED  BY <1>7, <3>1 DEF MailsInv, AwaitedAreExcused
    <2> QED  BY <2>1, <2>2
  <1>11. OverlapsAreLate'
    <2> SUFFICES ASSUME NEW q \in Sessions, NEW r \in Sessions, q # r
                 PROVE  /\ \A t \in Types : HasRow(q, t)' /\ HasRow(r, t)' =>
                                     session'[q].late \/ session'[r].late
                        /\ (Open(q)' /\ Open(r)' /\ session'[q].kind = "demo" =>
                             session'[q].late \/ session'[r].late)
      BY DEF OverlapsAreLate
    <2>1. CASE q # s /\ r # s
      BY <1>4, <1>5, <1>6, <2>1 DEF MailsInv, OverlapsAreLate
    <2>2. CASE q = s
      <3>1. r # s /\ \A t \in Types : ~HasRow(s, t)
        BY <1>2, <2>2 DEF HasRow
      <3>2. kind = "demo" /\ Open(r) => late
        BY <1>9
      <3> QED  BY <1>4, <1>5, <1>6, <2>2, <3>1, <3>2
    <2>3. CASE r = s
      <3>1. q # s /\ \A t \in Types : ~HasRow(s, t)
        BY <1>2, <2>3 DEF HasRow
      <3>2. Open(q) /\ session[q].kind = "demo" => kind = "demo"
        BY DEF MailsInv, LeadsSound
      <3>3. Open(q) /\ session[q].kind = "demo" => late
        BY <1>9, <3>2
      <3> QED  BY <1>4, <1>5, <1>6, <2>3, <3>1, <3>3
    <2> QED  BY <2>1, <2>2, <2>3
  <1>12. LeadsSound'
    BY <1>4, <1>5 DEF MailsInv, LeadsSound, RowCommitted
  <1>13. DeletedHasNoRows' /\ RowsAddressed'
    BY <1>4, <1>5 DEF MailsInv, DeletedHasNoRows, RowsAddressed, Addressee
  <1>14. DueSound'
    <2> SUFFICES ASSUME NEW r \in Sessions, Open(r)'
                 PROVE  /\ \A i, j \in DOMAIN session'[r].due :
                             i # j => session'[r].due[i] # session'[r].due[j]
                        /\ session'[r].sending =>
                             /\ session'[r].due # <<>>
                             /\ HasRow(r, Head(session[r].due))'
                             /\ (Recipient(Head(session[r].due)) # "none")'
      BY DEF DueSound
    <2>1. CASE r = s
      BY <1>4, <2>1
    <2>2. CASE r # s
      <3>1. session'[r] = session[r] /\ Open(r)
        BY <1>4, <1>5, <2>2
      <3>2. session[r].sending => Head(session[r].due) \in Types
        BY <3>1, OpenSession DEF MailsInv, DueSound
      <3> QED  BY <1>6, <3>1, <3>2 DEF MailsInv, DueSound, Recipient
    <2> QED  BY <2>1, <2>2
  <1> QED  BY <1>3, <1>8, <1>10, <1>11, <1>12, <1>13, <1>14 DEF MailsInv

\* One or two different types to be handled.
LEMMA DueOfTypes ==
    ASSUME NEW t \in Types, NEW u \in Types, t # u
    PROVE  /\ <<t>> \in Seq(Types) /\ <<t, u>> \in Seq(Types)
           /\ \A i, j \in DOMAIN <<t>> : i # j => <<t>>[i] # <<t>>[j]
           /\ \A i, j \in DOMAIN <<t, u>> : i # j => <<t, u>>[i] # <<t, u>>[j]
  OBVIOUS

LEMMA MailRequestKeeps ==
    ASSUME MailsInv, NEW s \in Sessions, Request(s)
    PROVE  MailsInv'
  <1>1. deferred' \in Nat /\ changes' \in 0 .. MaxChanges
    BY OpenAssumption DEF Request, OneChange, MailsInv, NotificationsTypeOK
  <1>2. CASE DriverUpload(s)
    <2>1. PICK due \in {<<"document_uploaded">>,
                        <<"document_uploaded", "driver_upload_confirmation">>} :
            Starts(s, "driver_upload", due, FALSE)
      BY <1>2 DEF DriverUpload
    <2>2. due \in Seq(Types) /\ \A i, j \in DOMAIN due : i # j => due[i] # due[j]
      BY TypesOfMails, DueOfTypes
    <2>3. subject # "lead" /\ document' = document
      BY <1>2 DEF DriverUpload, Request
    <2> QED  BY <1>1, <2>1, <2>2, <2>3, StartKeeps DEF Request
  <1>3. CASE TransitionLoadStatus(s)
    <2>1. PICK t \in MailTypesOf["load"] : Starts(s, "status", <<t>>, FALSE)
      BY <1>3 DEF TransitionLoadStatus
    <2>2. /\ <<t>> \in Seq(Types)
          /\ \A i, j \in DOMAIN <<t>> : i # j => <<t>>[i] # <<t>>[j]
      BY TypesOfMails
    <2>3. subject # "lead"
      BY <1>3 DEF TransitionLoadStatus
    <2> QED  BY <1>1, <2>1, <2>2, <2>3, StartKeeps DEF Request
  <1>4. CASE UpdatePayment(s)
    <2>1. PICK t \in PaymentMails : Starts(s, "payment", <<t>>, FALSE)
      BY <1>4 DEF UpdatePayment
    <2>2. /\ <<t>> \in Seq(Types)
          /\ \A i, j \in DOMAIN <<t>> : i # j => <<t>>[i] # <<t>>[j]
      BY TypesOfMails
    <2>3. subject # "lead"
      BY <1>4 DEF UpdatePayment
    <2> QED  BY <1>1, <2>1, <2>2, <2>3, StartKeeps DEF Request
  <1>5. CASE CreateDemoRequest(s)
    <2> DEFINE due == <<"demo_request_received", "demo_request_acknowledgement">>
    <2>1. due \in Seq(Types) /\ \A i, j \in DOMAIN due : i # j => due[i] # due[j]
      BY TypesOfMails, DueOfTypes
    <2>2. PICK late \in BOOLEAN : late <=> Held("demo")
      OBVIOUS
    <2>3. late = Held("demo")
      BY <2>2 DEF Held
    <2>4. subject = "lead" /\ ~lead /\ Starts(s, "demo", due, late)
      BY <1>5, <2>3 DEF CreateDemoRequest
    <2> HIDE DEF due
    <2> QED  BY <1>1, <2>1, <2>2, <2>4, StartKeeps DEF Request
  <1> QED  BY <1>2, <1>3, <1>4, <1>5 DEF Request

LEMMA RunDeferredKeeps ==
    ASSUME MailsInv, NEW s \in Sessions, RunDeferred(s)
    PROVE  MailsInv'
  <1>1. deferred' \in Nat
    BY DEF RunDeferred, MailsInv, NotificationsTypeOK
  <1>2. CASE document = "live"
    <2>1. /\ <<"document_uploaded">> \in Seq(Types)
          /\ \A i, j \in DOMAIN <<"document_uploaded">> :
               i # j => <<"document_uploaded">>[i] # <<"document_uploaded">>[j]
      BY TypesOfMails
    <2>2. Starts(s, "task", <<"document_uploaded">>, FALSE)
      BY <1>2 DEF RunDeferred
    <2>3. changes' \in 0 .. MaxChanges
      BY DEF RunDeferred, MailsInv, NotificationsTypeOK
    <2>4. subject # "lead"
      BY <1>2 DEF MailsInv, LeadsSound
    <2> QED  BY <1>1, <1>2, <2>1, <2>2, <2>3, <2>4, StartKeeps DEF RunDeferred
  <1>3. CASE document # "live"
    <2>1. UNCHANGED session
      BY <1>3 DEF RunDeferred
    <2>2. NotificationsTypeOK' /\ DeletedHasNoRows'
      BY <1>1, <2>1 DEF RunDeferred, MailsInv, NotificationsTypeOK, history,
                        DeletedHasNoRows, Open
    <2> QED  BY <2>1, <2>2, MailsUntouched
             DEF RunDeferred, history, RowCommitted, MailsInv, RowsAddressed
  <1> QED  BY <1>2, <1>3

LEMMA StaffUploadKeeps ==
    ASSUME MailsInv, StaffUpload
    PROVE  MailsInv'
  <1>1. NotificationsTypeOK' /\ DeletedHasNoRows'
    BY OpenAssumption
    DEF StaffUpload, OneChange, MailsInv, NotificationsTypeOK, history,
        DeletedHasNoRows, Open
  <1>2. subject # "lead" /\ notices' = notices
    BY DEF StaffUpload
  <1>3. /\ \A t \in Types : RowCommitted(t)' <=> RowCommitted(t)
        /\ \A row \in BagToSet(notices') :
             row.mailed => row.to = Addressee(row.type)
    BY <1>2 DEF RowCommitted, MailsInv, RowsAddressed
  <1> QED  BY <1>1, <1>2, <1>3, MailsUntouched DEF StaffUpload, history

LEMMA DeleteSubjectKeeps ==
    ASSUME MailsInv, DeleteSubject
    PROVE  MailsInv'
  <1>1. NotificationsTypeOK' /\ DeletedHasNoRows'
    BY OpenAssumption
    DEF DeleteSubject, OneChange, MailsInv, NotificationsTypeOK, history,
        DeletedHasNoRows, Open
  <1>2. subject # "lead" /\ notices' = notices
    BY DEF DeleteSubject, MailsInv, LeadsSound
  <1>3. /\ \A t \in Types : RowCommitted(t)' <=> RowCommitted(t)
        /\ \A row \in BagToSet(notices') :
             row.mailed => row.to = Addressee(row.type)
    BY <1>2 DEF RowCommitted, MailsInv, RowsAddressed
  <1> QED  BY <1>1, <1>2, <1>3, MailsUntouched DEF DeleteSubject, history

LEMMA MarkNotificationSentKeeps ==
    ASSUME MailsInv, NEW row \in BagToSet(notices), MarkNotificationSent(row)
    PROVE  MailsInv'
  <1> DEFINE marked == [row EXCEPT !.status = "sent", !.byHand = TRUE]
             rest == notices (-) SetToBag({row})
  <1>1. IsABag(notices) /\ row \in Notification
    BY DEF MailsInv, NotificationsTypeOK
  <1>2. /\ marked \in Notification /\ marked.type = row.type
        /\ marked.to = row.to /\ marked.mailed = row.mailed
    BY <1>1 DEF Notification
  <1>3. /\ IsABag(rest) /\ BagToSet(rest) \subseteq BagToSet(notices)
        /\ BagToSet(notices) \ {row} \subseteq BagToSet(rest)
    BY <1>1, RowsRemoved
  <1>4. notices' = rest (+) SetToBag({marked})
    BY DEF MarkNotificationSent
  <1> HIDE DEF rest, marked
  <1>5. IsABag(notices') /\ BagToSet(notices') = BagToSet(rest) \cup {marked}
    BY <1>3, <1>4, RowsAdded
  <1>6. NotificationsTypeOK'
    <2>1. BagToSet(notices') \subseteq Notification
      BY <1>2, <1>3, <1>5 DEF MailsInv, NotificationsTypeOK
    <2>2. changes' \in 0 .. MaxChanges
      BY OpenAssumption
      DEF MarkNotificationSent, OneChange, MailsInv, NotificationsTypeOK
    <2>3. UNCHANGED <<subject, setting, document, lead, deferred, session,
                      history, faults>>
      BY DEF MarkNotificationSent
    <2> QED  BY <1>5, <2>1, <2>2, <2>3 DEF MailsInv, NotificationsTypeOK, history
  <1>7. \A t \in Types : RowCommitted(t)' <=> RowCommitted(t)
    BY <1>2, <1>3, <1>5 DEF RowCommitted
  <1>8. \A new \in BagToSet(notices') :
          new.mailed => new.to = Addressee(new.type)
    BY <1>2, <1>3, <1>5 DEF MailsInv, RowsAddressed
  <1>9. DeletedHasNoRows'
    BY DEF MarkNotificationSent, MailsInv, DeletedHasNoRows, Open
  <1> QED  BY <1>6, <1>7, <1>8, <1>9, MailsUntouched DEF MarkNotificationSent, history

LEMMA CreateNotificationKeeps ==
    ASSUME MailsInv, NEW t \in MailTypesOf[subject], CreateNotification(t)
    PROVE  MailsInv'
  <1> DEFINE new == [type |-> t, status |-> "queued", mailed |-> FALSE,
                     to |-> IF t \in OpsTypes THEN "ops" ELSE "other",
                     byHand |-> TRUE]
  <1>1. IsABag(notices) /\ t \in Types
    BY DEF MailsInv, NotificationsTypeOK, Types
  <1>2. new \in Notification /\ ~new.mailed
    BY <1>1 DEF Notification
  <1>3. notices' = notices (+) SetToBag({new})
    BY DEF CreateNotification
  <1> HIDE DEF new
  <1>4. IsABag(notices') /\ BagToSet(notices') = BagToSet(notices) \cup {new}
    BY <1>1, <1>3, RowsAdded
  <1>5. NotificationsTypeOK'
    <2>1. BagToSet(notices') \subseteq Notification
      BY <1>2, <1>4 DEF MailsInv, NotificationsTypeOK
    <2>2. changes' \in 0 .. MaxChanges
      BY OpenAssumption
      DEF CreateNotification, OneChange, MailsInv, NotificationsTypeOK
    <2>3. UNCHANGED <<subject, setting, document, lead, deferred, session,
                      history, faults>>
      BY DEF CreateNotification
    <2> QED  BY <1>4, <2>1, <2>2, <2>3 DEF MailsInv, NotificationsTypeOK, history
  <1>6. /\ \A u \in Types : RowCommitted(u)' <=> RowCommitted(u)
        /\ \A row \in BagToSet(notices') :
             row.mailed => row.to = Addressee(row.type)
    BY <1>2, <1>4 DEF RowCommitted, MailsInv, RowsAddressed
  <1>7. DeletedHasNoRows'
    BY DEF CreateNotification, MailsInv, DeletedHasNoRows, Open
  <1> QED  BY <1>5, <1>6, <1>7, MailsUntouched DEF CreateNotification, history

LEMMA RecipientOfType ==
    ASSUME NEW t
    PROVE  /\ Recipient(t) \in {"ops", "other", "none"}
           /\ Recipient(t) # "none" => Recipient(t) = Addressee(t)
  BY DEF Recipient, Addressee

\* What an open session may become.
MayBecome(s, w) ==
    /\ w \in Work /\ w.kind = session[s].kind
    /\ session[s].late => w.late
    /\ document = "deleted" => w.own = {}
    /\ \A row \in w.own :
         /\ w.late \/ HasRow(s, row.type) \/ ~Unseen(s, row.type)
         /\ row.mailed => row.to = Addressee(row.type)
    /\ \A i, j \in DOMAIN w.due : i # j => w.due[i] # w.due[j]
    /\ w.sending => /\ w.due # <<>>
                    /\ \E row \in w.own : row.type = Head(w.due)
                    /\ Recipient(Head(w.due)) # "none"

LEMMA SessionMoves ==
    ASSUME MailsInv, NEW s \in Sessions, Open(s), NEW w, MayBecome(s, w),
           session' = [session EXCEPT ![s] = w],
           subject' = subject, setting' = setting, lead' = lead,
           document' = document, notices' = notices
    PROVE  /\ OverlapsAreLate' /\ LeadsSound' /\ DeletedHasNoRows'
           /\ RowsAddressed' /\ DueSound'
           /\ session'[s] = w /\ Open(s)'
           /\ session' \in [Sessions -> Work \cup {Closed}]
           /\ \A r \in Sessions \ {s} : /\ session'[r] = session[r]
                                        /\ Open(r)' <=> Open(r)
  <1>1. session \in [Sessions -> Work \cup {Closed}]
    BY DEF MailsInv, NotificationsTypeOK
  <1>2. /\ session'[s] = w
        /\ \A r \in Sessions : r # s => session'[r] = session[r]
        /\ session' \in [Sessions -> Work \cup {Closed}]
    BY <1>1 DEF MayBecome
  <1>3. Open(s)' /\ \A r \in Sessions : r # s => (Open(r)' <=> Open(r))
    BY <1>2 DEF Open, MayBecome
  <1>4. \A r \in Sessions : r # s =>
          \A t \in Types : HasRow(r, t)' <=> HasRow(r, t)
    BY <1>2, <1>3 DEF HasRow
  <1>5. OverlapsAreLate'
    <2>1. \A t \in Types : HasRow(s, t)' =>
            \/ w.late \/ HasRow(s, t)
            \/ \A r \in Sessions : r # s => ~HasRow(r, t)
      BY <1>2 DEF HasRow, Unseen, MayBecome
    <2>2. \A r \in Sessions : r # s =>
            /\ \A t \in Types : HasRow(s, t)' /\ HasRow(r, t)' =>
                                  w.late \/ session[r].late
            /\ (Open(r) /\ w.kind = "demo" => w.late \/ session[r].late)
            /\ (Open(r) /\ session[r].kind = "demo" =>
                  w.late \/ session[r].late)
      BY <1>4, <2>1 DEF MailsInv, OverlapsAreLate, MayBecome
    <2> SUFFICES ASSUME NEW q \in Sessions, NEW r \in Sessions, q # r
                 PROVE  /\ \A t \in Types : HasRow(q, t)' /\ HasRow(r, t)' =>
                                     session'[q].late \/ session'[r].late
                        /\ (Open(q)' /\ Open(r)' /\ session'[q].kind = "demo" =>
                             session'[q].late \/ session'[r].late)
      BY DEF OverlapsAreLate
    <2>3. CASE q # s /\ r # s
      BY <1>2, <1>3, <1>4, <2>3 DEF MailsInv, OverlapsAreLate
    <2>4. CASE q = s
      BY <1>2, <1>3, <2>2, <2>4
    <2>5. CASE r = s
      BY <1>2, <1>3, <2>2, <2>5
    <2> QED  BY <2>3, <2>4, <2>5
  <1>6. LeadsSound'
    BY <1>2, <1>3 DEF MailsInv, LeadsSound, RowCommitted, MayBecome
  <1>7. DeletedHasNoRows'
    BY <1>2, <1>3 DEF MailsInv, DeletedHasNoRows, MayBecome
  <1>8. RowsAddressed'
    BY <1>2, <1>3 DEF MailsInv, RowsAddressed, Addressee, MayBecome
  <1>9. DueSound'
    <2> SUFFICES ASSUME NEW r \in Sessions, Open(r)'
                 PROVE  /\ \A i, j \in DOMAIN session'[r].due :
                             i # j => session'[r].due[i] # session'[r].due[j]
                        /\ session'[r].sending =>
                             /\ session'[r].due # <<>>
                             /\ HasRow(r, Head(session[r].due))'
                             /\ (Recipient(Head(session[r].due)) # "none")'
      BY DEF DueSound
    <2>1. CASE r = s
      BY <1>2, <1>3, <2>1 DEF HasRow, Recipient, MayBecome
    <2>2. CASE r # s
      BY <1>2, <1>3, <2>2 DEF MailsInv, DueSound, HasRow, Recipient
    <2> QED  BY <2>1, <2>2
  <1> QED  BY <1>2, <1>3, <1>5, <1>6, <1>7, <1>8, <1>9

\* Sessions end, and the others stay as they are.
LEMMA SessionsEnd ==
    ASSUME MailsInv, subject' = subject,
           session' \in [Sessions -> Work \cup {Closed}],
           \A s \in Sessions :
             \/ session'[s] = Closed
             \/ session'[s] = session[s] /\ setting' = setting
    PROVE  /\ \A s \in Sessions : Open(s)' => Open(s) /\ session'[s] = session[s]
           /\ \A s \in Sessions, t \in Types : Awaits(s, t)' => Awaits(s, t)
           /\ OverlapsAreLate' /\ DueSound'
  <1>1. \A s \in Sessions :
          Open(s)' => Open(s) /\ session'[s] = session[s] /\ setting' = setting
    BY ClosedIsNotOpen DEF Open
  <1>2. \A s \in Sessions, t \in Types :
          (Awaits(s, t)' => Awaits(s, t)) /\ (HasRow(s, t)' => HasRow(s, t))
    BY <1>1 DEF Awaits, HasRow
  <1>3. OverlapsAreLate'
    <2> SUFFICES ASSUME NEW q \in Sessions, NEW r \in Sessions, q # r,
                        Open(q)', Open(r)'
                 PROVE  /\ \A t \in Types : HasRow(q, t)' /\ HasRow(r, t)' =>
                                     session'[q].late \/ session'[r].late
                        /\ (session'[q].kind = "demo" =>
                             session'[q].late \/ session'[r].late)
      BY DEF OverlapsAreLate, HasRow
    <2> QED  BY <1>1, <1>2 DEF MailsInv, OverlapsAreLate
  <1>4. DueSound'
    <2> SUFFICES ASSUME NEW r \in Sessions, Open(r)'
                 PROVE  /\ \A i, j \in DOMAIN session'[r].due :
                             i # j => session'[r].due[i] # session'[r].due[j]
                        /\ session'[r].sending =>
                             /\ session'[r].due # <<>>
                             /\ HasRow(r, Head(session[r].due))'
                             /\ (Recipient(Head(session[r].due)) # "none")'
      BY DEF DueSound
    <2> QED  BY <1>1 DEF MailsInv, DueSound, HasRow, Recipient
  <1> QED  BY <1>1, <1>2, <1>3, <1>4

LEMMA NewRow ==
    ASSUME NEW t \in Types, NEW status \in {"queued", "sent", "failed", "skipped"},
           NEW leaves \in BOOLEAN, NEW row, row = Row(t, status, leaves)
    PROVE  /\ row \in Notification /\ row.type = t /\ row.to = Recipient(t)
           /\ row.mailed <=> leaves
  <1>1. PICK r : r = Recipient(t)
    OBVIOUS
  <1>2. r \in {"ops", "other", "none"}
    BY <1>1, RecipientOfType
  <1>3. row = [type |-> t, to |-> r, status |-> status, mailed |-> leaves,
               byHand |-> FALSE]
    BY <1>1 DEF Row
  <1>4. row \in Notification /\ row.type = t /\ row.to = r
    BY <1>2, <1>3 DEF Notification
  <1>5. row.mailed <=> leaves
    BY <1>3
  <1> QED  BY <1>1, <1>4, <1>5

\* The session after the insertion of a row.
Inserts(s, t, w, row) ==
    /\ w.kind = session[s].kind
    /\ w.due = IF Undeliverable(t) THEN Tail(session[s].due)
                                   ELSE session[s].due
    /\ w.own = session[s].own \cup {row}
    /\ row.type = t /\ row.mailed = FALSE
    /\ w.sending <=> ~Undeliverable(t)
    /\ w.late <=> (session[s].late \/ Unseen(s, t))

LEMMA InsertedSession ==
    ASSUME NotificationsTypeOK, NEW s \in Sessions, Open(s),
           session[s].due # <<>>, NEW t, t = Head(session[s].due), t \in Types,
           Tail(session[s].due) \in Seq(Types)
    PROVE  \E w \in Work, row \in Notification :
             w = Inserted(s, t) /\ Inserts(s, t, w, row)
  <1>1. PICK off \in BOOLEAN : off <=> Undeliverable(t)
    OBVIOUS
  <1>2. PICK sending \in BOOLEAN : sending <=> ~Undeliverable(t)
    OBVIOUS
  <1>3. PICK late \in BOOLEAN : late <=> session[s].late \/ Unseen(s, t)
    OBVIOUS
  <1>4. off = Undeliverable(t) /\ sending = ~Undeliverable(t)
    BY <1>1, <1>2, Zenon DEF Undeliverable
  <1>5. late = (session[s].late \/ Unseen(s, t))
    BY <1>3, Zenon
  <1>6. PICK status \in {"queued", "skipped"} :
          status = IF off THEN "skipped" ELSE "queued"
    OBVIOUS
  <1>7. PICK row : row = Row(t, status, FALSE)
    OBVIOUS
  <1>8. row \in Notification /\ row.type = t /\ row.mailed = FALSE
    <2>1. PICK r \in {"ops", "other", "none"} : r = Recipient(t)
      BY RecipientOfType
    <2>2. row = [type |-> t, to |-> r, status |-> status, mailed |-> FALSE,
                 byHand |-> FALSE]
      BY <1>7, <2>1 DEF Row
    <2> QED  BY <2>2 DEF Notification
  <1>9. PICK due : due = IF off THEN Tail(session[s].due) ELSE session[s].due
    OBVIOUS
  <1>10. session[s] \in Work /\ due \in Seq(Types)
    BY <1>9, OpenSession
  <1>11. PICK w : w = [session[s] EXCEPT !.own = @ \cup {row}, !.due = due,
                                         !.sending = sending, !.late = late]
    OBVIOUS
  <1>12. w = Inserted(s, t)
    BY <1>1, <1>4, <1>5, <1>6, <1>7, <1>9, <1>11 DEF Inserted
  <1>13. /\ w \in Work /\ w.kind = session[s].kind
         /\ w.due = due /\ w.own = session[s].own \cup {row}
         /\ w.sending = sending /\ w.late = late
    BY <1>8, <1>10, <1>11 DEF Work
  <1>14. Inserts(s, t, w, row)
    BY <1>1, <1>2, <1>3, <1>8, <1>9, <1>13 DEF Inserts
  <1> QED  BY <1>8, <1>12, <1>13, <1>14

\* Nothing is found, and nothing may be missed: no row of the type remains.
LEMMA NothingFound ==
    ASSUME MailsInv, NEW s \in Sessions, Open(s), NEW t \in Types,
           session[s].kind # "demo", document # "deleted",
           ~FindExisting(s, t), ~Unseen(s, t), Recipient(t) # "none"
    PROVE  ~RowRemains(t)
  <1>1. Recipient(t) = Addressee(t)
    BY RecipientOfType
  <1>2. \A row \in BagToSet(notices) \cup session[s].own :
          row.type = t => Addressee(t) # row.to
    BY <1>1 DEF FindExisting
  <1>3. ~RowCommitted(t)
    BY <1>2 DEF RowCommitted, MailsInv, RowsAddressed
  <1>4. ~HasMailed(s, t)
    BY <1>2 DEF HasMailed, MailsInv, RowsAddressed
  <1>5. \A r \in Sessions : r # s => ~HasMailed(r, t)
    BY DEF Unseen, HasMailed
  <1> QED  BY <1>3, <1>4, <1>5 DEF RowRemains

LEMMA NotifyKeeps ==
    ASSUME MailsInv, NEW s \in Sessions, Notify(s)
    PROVE  MailsInv'
  <1>1. PICK t : t = Head(session[s].due)
    OBVIOUS
  <1>2. /\ Open(s) /\ ~session[s].sending /\ session[s].due # <<>>
        /\ subject' = subject /\ setting' = setting /\ document' = document
        /\ lead' = lead /\ notices' = notices /\ deferred' = deferred
        /\ mails' = mails /\ unsaved' = unsaved /\ overlaps' = overlaps
        /\ changes' = changes /\ faults' = faults
    BY DEF Notify
  <1>3. \/ /\ FindExisting(s, t)
           /\ session' = [session EXCEPT ![s].due = Tail(@)]
           /\ UNCHANGED forgotten
        \/ /\ ~FindExisting(s, t) /\ document # "deleted"
           /\ session' = [session EXCEPT ![s] = Inserted(s, t)]
           /\ UNCHANGED forgotten
        \/ /\ document = "deleted"
           /\ session' = [session EXCEPT ![s] = Closed]
           /\ forgotten' = TRUE
    BY <1>1 DEF Notify
  <1>4. /\ t \in Types /\ Tail(session[s].due) \in Seq(Types)
        /\ \E i \in DOMAIN session[s].due : t = session[s].due[i]
        /\ \A i, j \in DOMAIN session[s].due :
             i # j => session[s].due[i] # session[s].due[j]
        /\ \A i, j \in DOMAIN Tail(session[s].due) :
             i # j => Tail(session[s].due)[i] # Tail(session[s].due)[j]
        /\ \A i \in DOMAIN Tail(session[s].due) :
             \E j \in DOMAIN session[s].due :
               Tail(session[s].due)[i] = session[s].due[j]
    <2>1. \A i, j \in DOMAIN session[s].due :
             i # j => session[s].due[i] # session[s].due[j]
      BY <1>2 DEF MailsInv, DueSound
    <2> QED  BY <1>1, <1>2, <2>1, DueLeft, OpenSession DEF MailsInv
  <1>5. NotificationsTypeOK
    BY DEF MailsInv
  <1>6. \A u \in Types : AllExcused(u)' <=> AllExcused(u)
    BY <1>2 DEF AllExcused
  <1>7. CASE FindExisting(s, t) /\ session' = [session EXCEPT ![s].due = Tail(@)]
             /\ UNCHANGED forgotten
    <2>1. PICK w : w = [session[s] EXCEPT !.due = Tail(session[s].due)]
      OBVIOUS
    <2>2. session' = [session EXCEPT ![s] = w]
      BY <1>7, <2>1
    <2>3. /\ w \in Work /\ w.kind = session[s].kind
          /\ w.due = Tail(session[s].due) /\ w.own = session[s].own
          /\ w.sending = session[s].sending /\ w.late = session[s].late
      <3>1. session[s] \in Work
        BY <1>2, <1>5, OpenSession
      <3> QED  BY <1>4, <2>1, <3>1 DEF Work
    <2>4. MayBecome(s, w)
      <3>1. /\ \A row \in w.own : HasRow(s, row.type)
            /\ \A row \in w.own : row.mailed => row.to = Addressee(row.type)
            /\ document = "deleted" => w.own = {}
        BY <1>2, <2>3 DEF HasRow, MailsInv, RowsAddressed, DeletedHasNoRows
      <3> QED  BY <1>2, <1>4, <2>3, <3>1 DEF MayBecome
    <2>5. /\ OverlapsAreLate' /\ LeadsSound' /\ DeletedHasNoRows'
          /\ RowsAddressed' /\ DueSound'
          /\ session'[s] = w /\ Open(s)'
          /\ session' \in [Sessions -> Work \cup {Closed}]
          /\ \A r \in Sessions \ {s} : /\ session'[r] = session[r]
                                       /\ Open(r)' <=> Open(r)
      BY <1>2, <2>2, <2>4, SessionMoves
    <2>6. NotificationsTypeOK'
      BY <1>2, <1>5, <1>7, <2>5 DEF NotificationsTypeOK
    <2>7. \A u \in Types : RowRemains(u)' <=> RowRemains(u)
      BY <1>2, <2>3, <2>5 DEF RowRemains, RowCommitted, HasMailed
    <2>8. MailedOnce' /\ RowForUnexcused'
      BY <1>2, <1>6, <2>7 DEF MailsInv, MailedOnce, RowForUnexcused
    <2>9. AwaitedAreExcused'
      <3>1. \A u \in Types : ~Awaits(s, u)'
        BY <1>2, <1>7, <2>3, <2>5 DEF Awaits, FindExisting
      <3>2. \A r \in Sessions, u \in Types :
              r # s => (Awaits(r, u)' <=> Awaits(r, u))
        BY <2>5 DEF Awaits
      <3> QED  BY <1>6, <3>1, <3>2 DEF MailsInv, AwaitedAreExcused
    <2> QED  BY <2>5, <2>6, <2>8, <2>9 DEF MailsInv
  <1>8. CASE ~FindExisting(s, t) /\ document # "deleted"
             /\ session' = [session EXCEPT ![s] = Inserted(s, t)]
             /\ UNCHANGED forgotten
    <2>0. PICK w \in Work, row \in Notification :
            w = Inserted(s, t) /\ Inserts(s, t, w, row)
      BY <1>1, <1>2, <1>4, <1>5, InsertedSession
    <2>1. /\ w.kind = session[s].kind
          /\ w.due = IF Undeliverable(t) THEN Tail(session[s].due)
                                         ELSE session[s].due
          /\ w.own = session[s].own \cup {row}
          /\ row.type = t /\ row.mailed = FALSE
          /\ w.sending <=> ~Undeliverable(t)
          /\ w.late <=> (session[s].late \/ Unseen(s, t))
      BY <2>0 DEF Inserts
    <2>2. \A r \in w.own : /\ w.late \/ HasRow(s, r.type) \/ ~Unseen(s, r.type)
                           /\ r.mailed => r.to = Addressee(r.type)
      BY <1>2, <2>1 DEF HasRow, MailsInv, RowsAddressed
    <2>3. w.sending => /\ ~Undeliverable(t) /\ w.due = session[s].due
                       /\ Head(w.due) = t /\ Recipient(t) # "none"
      BY <1>1, <2>1 DEF Undeliverable
    <2>4. /\ OverlapsAreLate' /\ LeadsSound' /\ DeletedHasNoRows'
          /\ RowsAddressed' /\ DueSound'
          /\ session'[s] = w /\ Open(s)'
          /\ session' \in [Sessions -> Work \cup {Closed}]
          /\ \A r \in Sessions \ {s} : /\ session'[r] = session[r]
                                       /\ Open(r)' <=> Open(r)
      <3>1. \A i, j \in DOMAIN w.due : i # j => w.due[i] # w.due[j]
        BY <1>4, <2>1
      <3>2. w.sending => /\ w.due # <<>>
                         /\ \E r \in w.own : r.type = Head(w.due)
                         /\ Recipient(Head(w.due)) # "none"
        BY <1>2, <2>1, <2>3
      <3>3. session' = [session EXCEPT ![s] = w] /\ document # "deleted"
        BY <1>8, <2>0
      <3>4. MayBecome(s, w)
        BY <2>1, <2>2, <3>1, <3>2, <3>3 DEF MayBecome
      <3> QED  BY <1>2, <3>3, <3>4, SessionMoves
    <2>5. NotificationsTypeOK'
      BY <1>2, <1>5, <1>8, <2>4 DEF NotificationsTypeOK
    <2>6. \A u \in Types : RowRemains(u)' <=> RowRemains(u)
      BY <1>2, <2>1, <2>4 DEF RowRemains, RowCommitted, HasMailed
    <2>7. MailedOnce' /\ RowForUnexcused'
      BY <1>2, <1>6, <2>6 DEF MailsInv, MailedOnce, RowForUnexcused
    <2>8. ASSUME NEW u \in Types, Awaits(s, u)'
          PROVE  AllExcused(u)
      <3>1. ~w.late /\ ~session[s].late /\ ~Unseen(s, t)
        BY <2>1, <2>4, <2>8 DEF Awaits
      <3>2. CASE w.kind = "demo"
        <4>1. \/ w.sending /\ u = Head(w.due)
              \/ \E i \in DOMAIN w.due : u = w.due[i]
          BY <2>4, <2>8 DEF Awaits
        <4>2. w.due = session[s].due \/ w.due = Tail(session[s].due)
          BY <2>1
        <4>3. \E i \in DOMAIN session[s].due : u = session[s].due[i]
          <5>1. CASE w.sending /\ u = Head(w.due)
            BY <1>4, <2>3, <5>1
          <5>2. CASE \E i \in DOMAIN w.due : u = w.due[i]
            <6>1. PICK i \in DOMAIN w.due : u = w.due[i]
              BY <5>2
            <6> QED  BY <1>4, <4>2, <6>1
          <5> QED  BY <4>1, <5>1, <5>2
        <4> QED  BY <1>2, <2>1, <3>1, <3>2, <4>3
                 DEF Awaits, MailsInv, AwaitedAreExcused
      <3>3. CASE w.kind # "demo"
        <4>1. w.sending /\ u = t
          BY <2>3, <2>4, <2>8, <3>3 DEF Awaits
        <4>2. ~RowRemains(t)
          BY <1>2, <1>4, <1>8, <2>1, <2>3, <3>1, <3>3, <4>1, NothingFound
        <4> QED  BY <1>4, <4>1, <4>2 DEF MailsInv, RowForUnexcused
      <3> QED  BY <3>2, <3>3
    <2>9. AwaitedAreExcused'
      <3>1. \A r \in Sessions, u \in Types :
              r # s => (Awaits(r, u)' <=> Awaits(r, u))
        BY <2>4 DEF Awaits
      <3> QED  BY <1>6, <2>8, <3>1 DEF MailsInv, AwaitedAreExcused
    <2> QED  BY <2>4, <2>5, <2>7, <2>9 DEF MailsInv
  <1>9. CASE document = "deleted" /\ session' = [session EXCEPT ![s] = Closed]
             /\ forgotten' = TRUE
    <2>1. /\ session' \in [Sessions -> Work \cup {Closed}]
          /\ session'[s] = Closed
          /\ \A r \in Sessions : r # s => session'[r] = session[r]
      BY <1>5, <1>9 DEF NotificationsTypeOK
    <2>2. /\ \A r \in Sessions : Open(r)' => Open(r) /\ session'[r] = session[r]
          /\ \A r \in Sessions, u \in Types : Awaits(r, u)' => Awaits(r, u)
          /\ OverlapsAreLate' /\ DueSound'
      BY <1>2, <2>1, SessionsEnd
    <2>3. NotificationsTypeOK'
      BY <1>2, <1>5, <1>9, <2>1 DEF NotificationsTypeOK
    <2>4. \A u \in Types : RowRemains(u) => RowRemains(u)'
      <3>1. \A u \in Types, r \in Sessions : ~HasMailed(r, u)
        BY <1>9 DEF MailsInv, DeletedHasNoRows, HasMailed
      <3> QED  BY <1>2, <3>1 DEF RowRemains, RowCommitted
    <2>5. MailedOnce' /\ RowForUnexcused' /\ AwaitedAreExcused'
      BY <1>2, <1>6, <2>2, <2>4
      DEF MailsInv, MailedOnce, RowForUnexcused, AwaitedAreExcused
    <2>6. LeadsSound' /\ DeletedHasNoRows' /\ RowsAddressed'
      <3>1. LeadsSound'
        BY <1>2, <2>2 DEF MailsInv, LeadsSound, RowCommitted
      <3>2. DeletedHasNoRows' /\ RowsAddressed'
        BY <1>2, <2>2 DEF MailsInv, DeletedHasNoRows, RowsAddressed, Addressee
      <3> QED  BY <3>1, <3>2
    <2> QED  BY <2>2, <2>3, <2>5, <2>6 DEF MailsInv
  <1> QED  BY <1>3, <1>7, <1>8, <1>9

\* A mail that leaves needs an excuse if another has left: then the session is
\* late, for otherwise it would have seen the other's row.
LEMMA DeliverMailKeeps ==
    ASSUME MailsInv, NEW s \in Sessions, DeliverMail(s)
    PROVE  MailsInv'
  <1>1. PICK t : t = Head(session[s].due)
    OBVIOUS
  <1>2. NotificationsTypeOK
    BY DEF MailsInv
  <1>3. /\ Open(s) /\ session[s].sending
        /\ subject' = subject /\ setting' = setting /\ document' = document
        /\ lead' = lead /\ notices' = notices /\ deferred' = deferred
        /\ unsaved' = unsaved /\ forgotten' = forgotten
        /\ changes' = changes /\ faults' = faults
    BY DEF DeliverMail
  <1>4. /\ session[s].due # <<>> /\ HasRow(s, t) /\ Recipient(t) # "none"
        /\ \A i, j \in DOMAIN session[s].due :
             i # j => session[s].due[i] # session[s].due[j]
    BY <1>1, <1>3 DEF MailsInv, DueSound
  <1>5. /\ t \in Types /\ Tail(session[s].due) \in Seq(Types)
        /\ \A i, j \in DOMAIN Tail(session[s].due) :
             i # j => Tail(session[s].due)[i] # Tail(session[s].due)[j]
        /\ \A i \in DOMAIN Tail(session[s].due) :
             /\ Tail(session[s].due)[i] # t
             /\ \E j \in DOMAIN session[s].due :
                  Tail(session[s].due)[i] = session[s].due[j]
    BY <1>1, <1>2, <1>3, <1>4, DueLeft, OpenSession
  <1>6. PICK status \in {"queued", "sent", "failed", "skipped"},
             leaves \in BOOLEAN :
          /\ session' =
                 [session EXCEPT
                    ![s].own = (@ \ {Row(t, "queued", FALSE)})
                               \cup {Row(t, status, leaves)},
                    ![s].due = Tail(@), ![s].sending = FALSE]
          /\ mails' = [mails EXCEPT ![t] = @ + (IF leaves THEN 1 ELSE 0)]
          /\ overlaps' =
               [overlaps EXCEPT
                  ![t] = IF session[s].late
                         THEN @ + (IF leaves THEN 1 ELSE 0) ELSE @]
    BY <1>1 DEF DeliverMail
  <1>7. PICK row, queued : row = Row(t, status, leaves) /\ queued = Row(t, "queued", FALSE)
    OBVIOUS
  <1>8. PICK w : w = [session[s] EXCEPT !.own = (session[s].own \ {queued}) \cup {row},
                                        !.due = Tail(session[s].due),
                                        !.sending = FALSE]
    OBVIOUS
  <1>9. /\ row \in Notification /\ row.type = t /\ row.to = Addressee(t)
        /\ row.mailed <=> leaves
        /\ queued.mailed = FALSE
    <2>1. row \in Notification /\ row.type = t /\ row.to = Recipient(t)
      BY <1>5, <1>7, NewRow
    <2>2. row.mailed <=> leaves
      BY <1>5, <1>7, NewRow
    <2>3. queued.mailed = FALSE
      BY <1>7 DEF Row
    <2> QED  BY <1>4, <2>1, <2>2, <2>3, RecipientOfType
  <1>10. session' = [session EXCEPT ![s] = w]
    BY <1>2, <1>6, <1>7, <1>8 DEF NotificationsTypeOK
  <1>11. /\ w \in Work /\ w.kind = session[s].kind
         /\ w.due = Tail(session[s].due)
         /\ w.own = (session[s].own \ {queued}) \cup {row}
         /\ w.sending = FALSE /\ w.late = session[s].late
    <2>1. session[s] \in Work /\ session[s].own \subseteq Notification
      BY <1>2, <1>3, OpenSession
    <2> QED  BY <1>5, <1>8, <1>9, <2>1 DEF Work
  <1>12. MayBecome(s, w)
    <2>1. document # "deleted"
      BY <1>3, <1>4 DEF HasRow, MailsInv, DeletedHasNoRows
    <2>2. \A r \in w.own : HasRow(s, r.type)
      BY <1>3, <1>4, <1>9, <1>11 DEF HasRow
    <2>3. \A r \in w.own : r.mailed => r.to = Addressee(r.type)
      BY <1>3, <1>9, <1>11 DEF MailsInv, RowsAddressed
    <2> QED  BY <1>5, <1>11, <2>1, <2>2, <2>3 DEF MayBecome
  <1>13. /\ OverlapsAreLate' /\ LeadsSound' /\ DeletedHasNoRows'
         /\ RowsAddressed' /\ DueSound'
         /\ session'[s] = w /\ Open(s)'
         /\ session' \in [Sessions -> Work \cup {Closed}]
         /\ \A r \in Sessions \ {s} : /\ session'[r] = session[r]
                                      /\ Open(r)' <=> Open(r)
    BY <1>3, <1>10, <1>12, SessionMoves
  <1>14. /\ mails \in [Types -> Nat] /\ overlaps \in [Types -> Nat]
         /\ unsaved \in [Types -> Nat]
    BY <1>2 DEF NotificationsTypeOK
  <1>15. /\ mails' \in [Types -> Nat] /\ overlaps' \in [Types -> Nat]
         /\ \A u \in Types : u # t => mails'[u] = mails[u] /\ overlaps'[u] = overlaps[u]
         /\ mails'[t] = mails[t] + (IF leaves THEN 1 ELSE 0)
         /\ overlaps'[t] = IF session[s].late
                           THEN overlaps[t] + (IF leaves THEN 1 ELSE 0)
                           ELSE overlaps[t]
    BY <1>5, <1>6, <1>14
  <1>16. NotificationsTypeOK'
    BY <1>2, <1>3, <1>13, <1>14, <1>15 DEF NotificationsTypeOK
  <1>17. \A u \in Types : RowRemains(u) => RowRemains(u)'
    <2>1. \A u \in Types : HasMailed(s, u) => HasMailed(s, u)'
      BY <1>9, <1>11, <1>13 DEF HasMailed
    <2>2. \A r \in Sessions, u \in Types :
            r # s => (HasMailed(r, u)' <=> HasMailed(r, u))
      BY <1>13 DEF HasMailed
    <2> QED  BY <1>3, <2>1, <2>2 DEF RowRemains, RowCommitted
  <1>18. leaves => RowRemains(t)'
    BY <1>9, <1>11, <1>13 DEF RowRemains, HasMailed
  <1>19. Awaits(s, t) \/ session[s].late
    BY <1>1, <1>3 DEF Awaits
  <1>20. AllExcused(t) \/ session[s].late
    BY <1>5, <1>19 DEF MailsInv, AwaitedAreExcused
  <1>21. \A u \in Types : u # t \/ ~leaves \/ session[s].late =>
                            (AllExcused(u)' <=> AllExcused(u))
    <2>1. ASSUME NEW u \in Types, u # t
          PROVE  AllExcused(u)' <=> AllExcused(u)
      BY <1>3, <1>15, <2>1 DEF AllExcused
    <2>2. ASSUME ~leaves \/ session[s].late
          PROVE  AllExcused(t)' <=> AllExcused(t)
      <3>1. /\ mails[t] \in Nat /\ unsaved[t] \in Nat /\ overlaps[t] \in Nat
            /\ unsaved'[t] = unsaved[t]
        BY <1>3, <1>5, <1>14
      <3>2. CASE ~leaves
        BY <1>15, <3>1, <3>2 DEF AllExcused
      <3>3. CASE leaves /\ session[s].late
        BY <1>15, <3>1, <3>3 DEF AllExcused
      <3> QED  BY <2>2, <3>2, <3>3
    <2> QED  BY <2>1, <2>2
  <1>22. MailedOnce' /\ RowForUnexcused'
    <2>1. ASSUME NEW u \in Types
          PROVE  /\ mails'[u] <= 1 + unsaved'[u] + overlaps'[u]
                 /\ ~AllExcused(u)' => RowRemains(u)'
      <3>1. mails[u] <= 1 + unsaved[u] + overlaps[u]
        BY DEF MailsInv, MailedOnce
      <3>2. CASE u # t \/ ~leaves
        BY <1>3, <1>5, <1>14, <1>15, <1>17, <1>21, <3>1, <3>2
        DEF MailsInv, RowForUnexcused
      <3>3. CASE u = t /\ leaves /\ session[s].late
        BY <1>3, <1>5, <1>14, <1>15, <1>18, <3>1, <3>3
      <3>4. CASE u = t /\ leaves /\ ~session[s].late
        BY <1>3, <1>5, <1>14, <1>15, <1>18, <1>20, <3>4 DEF AllExcused
      <3> QED  BY <3>2, <3>3, <3>4
    <2> QED  BY <2>1 DEF MailedOnce, RowForUnexcused
  <1>23. AwaitedAreExcused'
    <2> SUFFICES ASSUME NEW r \in Sessions, NEW u \in Types, Awaits(r, u)'
                 PROVE  AllExcused(u)'
      BY DEF AwaitedAreExcused
    <2>1. CASE r = s
      <3>1. /\ ~session[s].late /\ session[s].kind = "demo"
            /\ \E i \in DOMAIN Tail(session[s].due) : u = Tail(session[s].due)[i]
        BY <1>11, <1>13, <2>1 DEF Awaits
      <3>2. u # t /\ \E i \in DOMAIN session[s].due : u = session[s].due[i]
        BY <1>5, <3>1
      <3>3. Awaits(s, u)
        BY <1>3, <3>1, <3>2 DEF Awaits
      <3> QED  BY <1>21, <3>2, <3>3 DEF MailsInv, AwaitedAreExcused
    <2>2. CASE r # s
      <3>1. Awaits(r, u)
        BY <1>13, <2>2 DEF Awaits
      <3>2. u = t => session[s].late
        <4>1. ~session[r].late /\ Open(r)
          BY <3>1 DEF Awaits
        <4>2. CASE session[r].sending /\ u = Head(session[r].due)
          <5>1. HasRow(r, u)
            BY <4>1, <4>2 DEF MailsInv, DueSound
          <5> QED  BY <1>4, <2>2, <4>1, <5>1 DEF MailsInv, OverlapsAreLate
        <4>3. CASE session[r].kind = "demo"
          BY <1>3, <2>2, <4>1, <4>3 DEF MailsInv, OverlapsAreLate
        <4> QED  BY <3>1, <4>2, <4>3 DEF Awaits
      <3> QED  BY <1>21, <3>1, <3>2 DEF MailsInv, AwaitedAreExcused
    <2> QED  BY <2>1, <2>2
  <1> QED  BY <1>13, <1>16, <1>22, <1>23 DEF MailsInv

\* Losing sessions excuses a mail of every type of which they had a row.
LEMMA LosingExcuses ==
    ASSUME NotificationsTypeOK, NEW S \in SUBSET Sessions, Lose(S)
    PROVE  /\ unsaved' \in [Types -> Nat]
           /\ \A t \in Types :
                /\ unsaved'[t] >= unsaved[t]
                /\ (\E s \in S : HasMailed(s, t)) => unsaved'[t] >= unsaved[t] + 1
  <1> DEFINE Lost(t) == {s \in S : Open(s) /\ \E row \in session[s].own :
                                                row.type = t /\ row.mailed}
  <1>1. IsFiniteSet(Sessions)
    BY OpenAssumption, FS_Interval DEF Sessions
  <1>2. \A t : /\ Cardinality(Lost(t)) \in Nat
               /\ (\E s \in S : HasMailed(s, t)) => Cardinality(Lost(t)) # 0
    <2> SUFFICES ASSUME NEW t
                 PROVE  /\ Cardinality(Lost(t)) \in Nat
                        /\ (\E s \in S : HasMailed(s, t)) =>
                             Cardinality(Lost(t)) # 0
      OBVIOUS
    <2>1. IsFiniteSet(Lost(t))
      BY <1>1, FS_Subset
    <2>2. (\E s \in S : HasMailed(s, t)) => Lost(t) # {}
      BY DEF HasMailed
    <2> HIDE DEF Lost
    <2> QED  BY <2>1, <2>2, FS_CardinalityType, FS_EmptySet
  <1>3. unsaved' = [t \in Types |-> unsaved[t] + Cardinality(Lost(t))]
    BY DEF Lose
  <1>4. unsaved \in [Types -> Nat]
    BY DEF NotificationsTypeOK
  <1> HIDE DEF Lost
  <1> QED  BY <1>2, <1>3, <1>4

\* Some sessions end without a commit.
LEMMA LosingKeeps ==
    ASSUME MailsInv, NEW S \in SUBSET Sessions, Lose(S),
           session' \in [Sessions -> Work \cup {Closed}],
           \A s \in S : session'[s] = Closed,
           \A s \in Sessions \ S : session'[s] = session[s] /\ setting' = setting,
           setting' \in Settings, deferred' \in Nat, forgotten' \in BOOLEAN,
           changes' \in 0 .. MaxChanges, faults' \in 0 .. MaxFaults,
           subject' = subject, document' = document, lead' = lead,
           notices' = notices, mails' = mails, overlaps' = overlaps
    PROVE  MailsInv'
  <1>1. NotificationsTypeOK
    BY DEF MailsInv
  <1>2. /\ unsaved' \in [Types -> Nat]
        /\ \A t \in Types :
             /\ unsaved'[t] >= unsaved[t]
             /\ (\E s \in S : HasMailed(s, t)) => unsaved'[t] >= unsaved[t] + 1
    BY <1>1, LosingExcuses
  <1>3. /\ \A s \in Sessions : Open(s)' => Open(s) /\ session'[s] = session[s]
        /\ \A s \in Sessions, t \in Types : Awaits(s, t)' => Awaits(s, t)
        /\ OverlapsAreLate' /\ DueSound'
    BY SessionsEnd
  <1>4. NotificationsTypeOK'
    BY <1>1, <1>2 DEF NotificationsTypeOK
  <1>5. \A t \in Types : mails[t] \in Nat /\ unsaved[t] \in Nat
                         /\ overlaps[t] \in Nat /\ unsaved'[t] \in Nat
    BY <1>1, <1>2 DEF NotificationsTypeOK
  <1>6. \A t \in Types : AllExcused(t) => AllExcused(t)'
    BY <1>2, <1>5 DEF AllExcused
  <1>7. MailedOnce'
    BY <1>2, <1>5 DEF MailsInv, MailedOnce
  <1>8. RowForUnexcused'
    <2> SUFFICES ASSUME NEW t \in Types, ~AllExcused(t)'
                 PROVE  RowRemains(t)'
      BY DEF RowForUnexcused
    <2>1. RowRemains(t)
      BY <1>6 DEF MailsInv, RowForUnexcused
    <2>2. mails[t] <= 1 + unsaved[t] + overlaps[t]
      BY DEF MailsInv, MailedOnce
    <2>3. ~\E s \in S : HasMailed(s, t)
      BY <1>2, <1>5, <2>2 DEF AllExcused
    <2>4. CASE RowCommitted(t)
      BY <2>4 DEF RowRemains, RowCommitted
    <2>5. ASSUME NEW s \in Sessions \ S, HasMailed(s, t)
          PROVE  RowRemains(t)'
      BY <2>5 DEF RowRemains, HasMailed, Open
    <2> QED  BY <2>1, <2>3, <2>4, <2>5 DEF RowRemains
  <1>9. AwaitedAreExcused'
    BY <1>3, <1>6 DEF MailsInv, AwaitedAreExcused
  <1>10. LeadsSound'
    BY <1>3 DEF MailsInv, LeadsSound, RowCommitted
  <1>11. DeletedHasNoRows' /\ RowsAddressed'
    BY <1>3 DEF MailsInv, DeletedHasNoRows, RowsAddressed, Addressee
  <1> QED  BY <1>3, <1>4, <1>7, <1>8, <1>9, <1>10, <1>11 DEF MailsInv

LEMMA FinishKeeps ==
    ASSUME MailsInv, NEW s \in Sessions, Finish(s)
    PROVE  MailsInv'
  <1>1. NotificationsTypeOK
    BY DEF MailsInv
  <1>2. /\ Open(s) /\ session' = [session EXCEPT ![s] = Closed]
        /\ subject' = subject /\ setting' = setting /\ deferred' = deferred
        /\ forgotten' = forgotten /\ mails' = mails /\ overlaps' = overlaps
        /\ changes' = changes /\ faults' = faults
    BY DEF Finish
  <1>3. /\ session' \in [Sessions -> Work \cup {Closed}]
        /\ session'[s] = Closed
        /\ \A r \in Sessions : r # s => session'[r] = session[r]
    BY <1>1, <1>2 DEF NotificationsTypeOK
  <1>4. CASE session[s].kind = "payment"
    <2>1. Lose({s}) /\ document' = document /\ lead' = lead /\ notices' = notices
      BY <1>4 DEF Finish
    <2>2. /\ setting' \in Settings /\ deferred' \in Nat /\ forgotten' \in BOOLEAN
          /\ changes' \in 0 .. MaxChanges /\ faults' \in 0 .. MaxFaults
      BY <1>1, <1>2 DEF NotificationsTypeOK
    <2> QED  BY <1>2, <1>3, <2>1, <2>2, LosingKeeps
  <1>5. CASE session[s].kind # "payment"
    <2>1. /\ notices' = notices (+) SetToBag(session[s].own)
          /\ document' = IF session[s].kind = "driver_upload" THEN "live"
                         ELSE document
          /\ lead' = (lead \/ session[s].kind = "demo")
          /\ unsaved' = unsaved
      BY <1>5 DEF Finish
    <2>2. IsABag(notices) /\ session[s].own \subseteq Notification
      BY <1>1, <1>2, OpenSession DEF NotificationsTypeOK
    <2>3. /\ IsABag(notices')
          /\ BagToSet(notices') = BagToSet(notices) \cup session[s].own
      BY <2>1, <2>2, RowsAdded
    <2>4. /\ \A r \in Sessions : Open(r)' => Open(r) /\ session'[r] = session[r]
          /\ \A r \in Sessions, t \in Types : Awaits(r, t)' => Awaits(r, t)
          /\ OverlapsAreLate' /\ DueSound'
      BY <1>2, <1>3, SessionsEnd
    <2>5. NotificationsTypeOK'
      <3>1. BagToSet(notices') \subseteq Notification
        BY <1>1, <2>2, <2>3 DEF NotificationsTypeOK
      <3>2. document' \in {"absent", "live", "deleted"} /\ lead' \in BOOLEAN
        BY <1>1, <2>1 DEF NotificationsTypeOK
      <3> QED  BY <1>1, <1>2, <1>3, <2>1, <2>3, <3>1, <3>2 DEF NotificationsTypeOK
    <2>6. \A t \in Types : AllExcused(t)' <=> AllExcused(t)
      BY <1>2, <2>1 DEF AllExcused
    <2>7. \A t \in Types : RowRemains(t) => RowRemains(t)'
      <3>1. \A t \in Types : RowCommitted(t) \/ HasMailed(s, t) => RowCommitted(t)'
        BY <2>3 DEF RowCommitted, HasMailed
      <3>2. \A r \in Sessions, t \in Types :
              r # s => (HasMailed(r, t)' <=> HasMailed(r, t))
        BY <1>3 DEF HasMailed, Open
      <3> QED  BY <3>1, <3>2 DEF RowRemains
    <2>8. MailedOnce' /\ RowForUnexcused' /\ AwaitedAreExcused'
      BY <1>2, <2>1, <2>4, <2>6, <2>7
      DEF MailsInv, MailedOnce, RowForUnexcused, AwaitedAreExcused
    <2>9. LeadsSound'
      <3>1. subject = "lead" => session[s].kind = "demo" /\ document' = document
        BY <1>2, <2>1 DEF MailsInv, LeadsSound
      <3>2. subject = "lead" => lead'
        BY <2>1, <3>1
      <3> QED  BY <1>2, <2>4, <3>1, <3>2 DEF MailsInv, LeadsSound
    <2>10. DeletedHasNoRows'
      <3>1. document' = "deleted" => document = "deleted"
        BY <2>1
      <3> QED  BY <2>4, <3>1 DEF MailsInv, DeletedHasNoRows
    <2>11. RowsAddressed'
      <3>1. \A row \in BagToSet(notices') :
              row.mailed => row.to = Addressee(row.type)
        BY <1>2, <2>3 DEF MailsInv, RowsAddressed
      <3>2. \A r \in Sessions : Open(r)' =>
              \A row \in session'[r].own :
                row.mailed => row.to = Addressee(row.type)
        BY <2>4 DEF MailsInv, RowsAddressed
      <3> QED  BY <3>1, <3>2 DEF RowsAddressed, Addressee
    <2> QED  BY <2>4, <2>5, <2>8, <2>9, <2>10, <2>11 DEF MailsInv
  <1> QED  BY <1>4, <1>5

LEMMA FailKeeps ==
    ASSUME MailsInv, NEW s \in Sessions, Fail(s)
    PROVE  MailsInv'
  <1>1. NotificationsTypeOK
    BY DEF MailsInv
  <1>2. /\ session' = [session EXCEPT ![s] = Closed] /\ Lose({s})
        /\ subject' = subject /\ setting' = setting /\ deferred' = deferred
        /\ document' = document /\ lead' = lead /\ notices' = notices
        /\ mails' = mails /\ overlaps' = overlaps /\ changes' = changes
        /\ faults < MaxFaults /\ faults' = faults + 1
        /\ forgotten' = (forgotten \/ session[s].kind = "task")
    BY DEF Fail, Faulty
  <1>3. /\ session' \in [Sessions -> Work \cup {Closed}]
        /\ session'[s] = Closed
        /\ \A r \in Sessions \ {s} : session'[r] = session[r]
    BY <1>1, <1>2 DEF NotificationsTypeOK
  <1>4. /\ setting' \in Settings /\ deferred' \in Nat /\ forgotten' \in BOOLEAN
        /\ changes' \in 0 .. MaxChanges /\ faults' \in 0 .. MaxFaults
    BY <1>1, <1>2, OpenAssumption DEF NotificationsTypeOK
  <1> QED  BY <1>2, <1>3, <1>4, LosingKeeps

LEMMA RestartKeeps ==
    ASSUME MailsInv, Restart
    PROVE  MailsInv'
  <1>1. NotificationsTypeOK
    BY DEF MailsInv
  <1>2. /\ session' = [s \in Sessions |-> Closed] /\ Lose(Sessions)
        /\ subject' = subject /\ setting' \in Settings /\ deferred' = 0
        /\ document' = document /\ lead' = lead /\ notices' = notices
        /\ mails' = mails /\ overlaps' = overlaps /\ changes' = changes
        /\ faults < MaxFaults /\ faults' = faults + 1
        /\ forgotten' \in BOOLEAN
    BY DEF Restart, Faulty
  <1>3. /\ session' \in [Sessions -> Work \cup {Closed}]
        /\ \A s \in Sessions : session'[s] = Closed
    BY <1>2
  <1>4. changes' \in 0 .. MaxChanges /\ faults' \in 0 .. MaxFaults
    BY <1>1, <1>2, OpenAssumption DEF NotificationsTypeOK
  <1> QED  BY <1>2, <1>3, <1>4, LosingKeeps

LEMMA MailsNextKeeps ==
    MailsInv /\ [NotificationsNext]_notificationVars => MailsInv'
  <1> SUFFICES ASSUME MailsInv, [NotificationsNext]_notificationVars
               PROVE  MailsInv'
    OBVIOUS
  <1>1. ASSUME NEW s \in Sessions,
               Request(s) \/ RunDeferred(s) \/ Progress(s) \/ Fail(s)
        PROVE  MailsInv'
    BY <1>1, MailRequestKeeps, RunDeferredKeeps, NotifyKeeps, DeliverMailKeeps,
       FinishKeeps, FailKeeps DEF Progress
  <1>2. CASE StaffUpload \/ DeleteSubject \/ Restart
    BY <1>2, StaffUploadKeeps, DeleteSubjectKeeps, RestartKeeps
  <1>3. CASE \E row \in BagToSet(notices) : MarkNotificationSent(row)
    BY <1>3, MarkNotificationSentKeeps
  <1>4. CASE \E t \in MailTypesOf[subject] : CreateNotification(t)
    BY <1>4, CreateNotificationKeeps
  <1>5. CASE UNCHANGED notificationVars
    <2>1. /\ subject' = subject /\ setting' = setting /\ document' = document
          /\ lead' = lead /\ notices' = notices /\ deferred' = deferred
          /\ session' = session /\ forgotten' = forgotten /\ mails' = mails
          /\ unsaved' = unsaved /\ overlaps' = overlaps
          /\ changes' = changes /\ faults' = faults
      BY <1>5 DEF notificationVars, history
    <2>2. NotificationsTypeOK'
      BY <2>1 DEF MailsInv, NotificationsTypeOK
    <2>3. DeletedHasNoRows'
      BY <2>1 DEF MailsInv, DeletedHasNoRows, Open
    <2>4. \A row \in BagToSet(notices') :
            row.mailed => row.to = Addressee(row.type)
      BY <2>1 DEF MailsInv, RowsAddressed
    <2> QED  BY <2>1, <2>2, <2>3, <2>4, MailsUntouched DEF RowCommitted
  <1> QED  BY <1>1, <1>2, <1>3, <1>4, <1>5 DEF NotificationsNext

\* However sessions overlap, fail and lose their changes, whatever the process
\* is configured to, and with any rows that are written by hand: a second mail
\* about the same thing leaves only if the session of an earlier one did not
\* commit, or if its own could not see another's notification.
THEOREM MailsLeaveOnce == NotificationsSpec => []MailedOnce
  <1>1. MailsInv => MailedOnce
    BY DEF MailsInv
  <1> QED  BY <1>1, MailsInitially, MailsNextKeeps, PTL DEF NotificationsSpec

\* The notifications keep their types.
THEOREM NotificationsTypeCorrect == NotificationsSpec => []NotificationsTypeOK
  <1>1. MailsInv => NotificationsTypeOK
    BY DEF MailsInv
  <1> QED  BY <1>1, MailsInitially, MailsNextKeeps, PTL DEF NotificationsSpec
=============================================================================
