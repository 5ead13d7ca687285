---------------------------- MODULE PacketAudit ----------------------------
(***************************************************************************)
(* The audit of a submission packet before it is sent                      *)
(* (services/packet_intelligence/packet_audit_service.py): what it finds,  *)
(* how it grades the findings and how it scores them.                      *)
(*                                                                         *)
(* It is a function of the evidence e:                                     *)
(*   rows, snapshot   the document rows of the load, those of the packet   *)
(*   type, field      the type of each row, and what was extracted from it *)
(*   load             the load's amount, reference, whether its notes name *)
(*                    a lumper, and whether it has a confidence            *)
(*   funded           what its payment record says was paid, or NoValue    *)
(*   duplicate        does another load have its invoice number?           *)
(*   emailed          was the packet e-mailed before?                      *)
(* Amounts and references are numbers.                                     *)
(***************************************************************************)
EXTENDS Integers, FiniteSets, FiniteSetsExt

NoValue == -1

\* The row's fields that the audit looks at.
Field == [signature : {"yes", "no", "unread"}, amount : Int, lumper : BOOLEAN,
          reference : Int]

\* What a row has when nothing was extracted from it.
Unread == [signature |-> "unread", amount |-> NoValue, lumper |-> FALSE,
           reference |-> NoValue]

RowsOf(e, type) == {d \in e.rows : e.type[d] = type}
TypesIn(e, D) == {e.type[d] : d \in D}

\* _first_amount, _first_text: what some row of the type has in the field.
\* (The query of the rows names no order.)
First(e, type, name) ==
    LET found == {d \in RowsOf(e, type) : e.field[d][name] # NoValue}
    IN  IF found = {} THEN NoValue ELSE e.field[CHOOSE d \in found : TRUE][name]

Finding(code, severity) == [code |-> code, severity |-> severity, about |-> {}]

-----------------------------------------------------------------------------
\* REQUIRED_DOCUMENT_RULES
Severity == [proof_of_delivery |-> "blocking", bill_of_lading |-> "warning",
             rate_confirmation |-> "blocking", invoice |-> "blocking"]

\* A type is missing from the load, or from the packet when it has rows left.
required_document_findings(e) ==
    {Finding(type, Severity[type]) : type \in
        {t \in DOMAIN Severity :
            \/ t \notin TypesIn(e, e.rows)
            \/ e.snapshot # {} /\ t \notin TypesIn(e, e.snapshot)}}

\* One for each proof of delivery whose signature was not read, or is denied.
unsigned_pod_findings(e) ==
    {[Finding("possible_unsigned_pod", "warning") EXCEPT !.about = {d}] :
        d \in {d \in RowsOf(e, "proof_of_delivery") : e.field[d].signature # "yes"}}

amount_findings(e) ==
    LET invoice == First(e, "invoice", "amount")
    IN  IF NoValue \in {invoice, e.load.amount} THEN {}
        ELSE {Finding("amount_mismatch", "warning") :
                 x \in {e.load.amount} \ {invoice}}
             \cup {Finding("funded_amount_mismatch", "warning") :
                 x \in {e.funded} \ {NoValue, 0, invoice}}

duplicate_invoice_findings(e) ==
    (IF e.duplicate THEN {Finding("duplicate_invoice_number", "blocking")} ELSE {})
    \cup (IF e.emailed THEN {Finding("repeated_packet_send", "warning")} ELSE {})

lumper_findings(e) ==
    IF /\ RowsOf(e, "lumper_receipt") = {}
       /\ e.load.lumper \/ \E d \in e.rows : e.field[d].lumper
    THEN {Finding("missing_lumper_receipt", "warning")} ELSE {}

broker_reference_findings(e) ==
    LET references == {e.load.reference, First(e, "invoice", "reference"),
                       First(e, "rate_confirmation", "reference")}
    IN  IF Cardinality(references \ {NoValue}) > 1
        THEN {Finding("broker_reference_mismatch", "warning")} ELSE {}

\* audit_load
Findings(e) ==
    required_document_findings(e) \cup unsigned_pod_findings(e)
    \cup amount_findings(e) \cup duplicate_invoice_findings(e)
    \cup lumper_findings(e) \cup broker_reference_findings(e)

Graded(findings, severity) == {f \in findings : f.severity = severity}

\* _confidence_score
confidence_score(e, findings) ==
    Max({0, 100 - 25 * Cardinality(Graded(findings, "blocking"))
                - 10 * Cardinality(Graded(findings, "warning"))
                - (IF \A d \in e.rows : e.field[d] = Unread THEN 10 ELSE 0)
                - (IF e.load.confidence THEN 0 ELSE 5)})

\* _status
AuditStatus(findings) ==
    IF Graded(findings, "blocking") # {} THEN "failed"
    ELSE IF Graded(findings, "warning") # {} THEN "warning"
    ELSE "passed"
=============================================================================
