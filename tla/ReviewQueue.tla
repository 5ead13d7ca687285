---------------------------- MODULE ReviewQueue ----------------------------
(***************************************************************************)
(* The validation of a load's documents and the queue of what staff have   *)
(* to review (services/validation, services/review), for one load.         *)
(*                                                                         *)
(* A validation compares what is known of a document with two sets of      *)
(* rules, and records an issue for each rule that is broken, unless the    *)
(* rule already has an open one.  Only tests call validate_load, one call  *)
(* after the other; what it records is what LoadWorkflow calls blocking.   *)
(***************************************************************************)
EXTENDS FiniteSets, Naturals

CONSTANTS Papers,    \* the load's documents
          NoPaper,   \* stands for the load itself
          Payloads   \* what validations are given

ASSUME PapersAssumption == NoPaper \notin Papers

VARIABLES open,      \* the unresolved issues
          gone,      \* the documents that were deleted
          found,     \* history: the blocking rules that the last validation
                     \* of a document found broken, until they are resolved
          reviewed   \* last_reviewed_at is given

reviewVars == <<open, gone, found, reviewed>>

-----------------------------------------------------------------------------
ValidationSeverity == {"info", "warning", "error", "critical"}

\* What can be wrong with a document, besides its type, fields and signature.
Flaw == {"misclassified", "bad_format", "corrupt", "low_confidence",
         "values_missing", "facts_differ", "rejected", "no_text",
         "amounts_differ", "duplicates", "broker_name_differs",
         "broker_email_differs"}

Payload == [document_type : {"", "unsupported", "invoice", "proof_of_delivery"},
            extracted_fields : {"none", "some", "all"},   \* of those required
            signature : {"no_field", "absent", "present"},
            flaws : SUBSET Flaw]

ASSUME PayloadsAssumption == Payloads \subseteq Payload

Finding(code, title, severity) ==
    [rule_code |-> code, title |-> title, severity |-> severity,
     is_blocking |-> severity \in {"error", "critical"}]

If(condition, finding) == IF condition THEN {finding} ELSE {}

-----------------------------------------------------------------------------
(* ValidationIssueGenerator                                                *)

\* A type that is unknown cannot differ from the detected one.
type_findings(p) ==
    If(p.document_type = "unsupported",
       Finding("invalid_document_type_mapping", "Mapping", "error"))
    \cup If(/\ "misclassified" \in p.flaws
            /\ p.document_type \notin {"", "unsupported"},
            Finding("wrong_document_classification", "Mismatch", "error"))

file_findings(p) ==
    If("bad_format" \in p.flaws,
       Finding("unsupported_document_format", "Format", "error"))
    \cup If("corrupt" \in p.flaws,
            Finding("unreadable_document", "Corrupt", "critical"))
    \cup If("low_confidence" \in p.flaws,
            Finding("low_extraction_confidence", "Confidence", "warning"))

value_findings(p) ==
    If("values_missing" \in p.flaws,
       Finding("missing_critical_extracted_values", "Values", "error"))
    \cup If("facts_differ" \in p.flaws,
            Finding("validation_mismatch", "Facts", "error"))
    \cup If("rejected" \in p.flaws,
            Finding("reupload_required", "Reupload", "error"))

evaluate(p) == type_findings(p) \cup file_findings(p) \cup value_findings(p)

-----------------------------------------------------------------------------
(* The rules of the ValidationEngine.                                      *)

MissingRequiredFieldsRule(p) ==
    If(p.extracted_fields # "all",
       Finding("missing_required_fields", "Fields", "error"))

\* A document whose signature was not looked for only gets a warning.
MissingSignatureRule(p) ==
    If(p.document_type = "proof_of_delivery" /\ p.signature # "present",
       IF p.signature = "no_field"
       THEN Finding("missing_signature", "NotDetected", "warning")
       ELSE Finding("missing_signature", "Missing", "critical"))

AmountMismatchRule(p) ==
    If("amounts_differ" \in p.flaws /\ p.extracted_fields # "none",
       Finding("amount_mismatch", "Amounts", "error"))

DuplicateLoadRule(p) ==
    If("duplicates" \in p.flaws,
       Finding("duplicate_load", "Duplicate", "warning"))

UnreadableDocumentRule(p) ==
    If("no_text" \in p.flaws /\ p.extracted_fields = "none",
       Finding("unreadable_document", "NoText", "critical"))

BrokerConsistencyRule(p) ==
    IF p.extracted_fields = "none" THEN {}
    ELSE If("broker_name_differs" \in p.flaws,
            Finding("broker_consistency", "Name", "warning"))
         \cup If("broker_email_differs" \in p.flaws,
                 Finding("broker_consistency", "Email", "warning"))

\* ValidationEngine.run
run(p) ==
    MissingRequiredFieldsRule(p) \cup MissingSignatureRule(p)
    \cup AmountMismatchRule(p) \cup DuplicateLoadRule(p)
    \cup UnreadableDocumentRule(p) \cup BrokerConsistencyRule(p)

-----------------------------------------------------------------------------
(* Operations.                                                             *)

Codes(findings) == {finding.rule_code : finding \in findings}

\* A document's issues outlive it, as issues of the load.
document_id(issue) == IF issue.paper \in gone THEN NoPaper ELSE issue.paper

\* Mutant: the look-up leaves out the document.
MutantAnyPaper(paper) == {issue.rule_code : issue \in open}

\* The rules that already have an open issue for the document.
existing_codes(paper) ==
    {issue.rule_code : issue \in {i \in open : document_id(i) = paper}}

\* ValidationIssueGenerator.generate: the findings that become issues
generate(paper, p) ==
    {f \in evaluate(p) : f.rule_code \notin existing_codes(paper)}

\* The rules of the engine that neither the generator nor an open issue has
\* reported; two findings of one rule are both kept.
FurtherResults(paper, p) ==
    {f \in run(p) : f.rule_code \notin
                        Codes(generate(paper, p)) \cup existing_codes(paper)}

Issue(paper, f) ==
    [paper |-> paper, rule_code |-> f.rule_code, title |-> f.title,
     severity |-> f.severity, is_blocking |-> f.is_blocking]

validate_load(paper, p) ==
    /\ paper \notin gone
    /\ open' = open \cup {Issue(paper, f) :
                    f \in generate(paper, p) \cup FurtherResults(paper, p)}
    /\ found' = [found EXCEPT ![paper] =
                    Codes({f \in evaluate(p) \cup run(p) : f.is_blocking})]
    /\ UNCHANGED <<gone, reviewed>>

\* HumanReviewService
resolve_validation_issue(issue) ==
    /\ open' = open \ {issue}
    /\ found' = [found EXCEPT ![document_id(issue)] = @ \ {issue.rule_code}]
    /\ UNCHANGED <<gone, reviewed>>

mark_load_reviewed == reviewed' = TRUE /\ UNCHANGED <<open, gone, found>>

\* The foreign key of the issues is set to null.
DeletePaper(paper) ==
    /\ gone' = gone \cup {paper}
    /\ found' = [found EXCEPT ![paper] = {}]
    /\ UNCHANGED <<open, reviewed>>

\* The endpoints
ResolveValidationIssue == \E issue \in open : resolve_validation_issue(issue)

MarkLoadReviewed == mark_load_reviewed

ReviewInit ==
    /\ open = {}
    /\ gone = {}
    /\ found = [paper \in Papers \cup {NoPaper} |-> {}]
    /\ reviewed = FALSE

ReviewNext ==
    \/ \E paper \in Papers \cup {NoPaper}, p \in Payloads :
          validate_load(paper, p)
    \/ \E paper \in Papers \ gone : DeletePaper(paper)
    \/ ResolveValidationIssue
    \/ MarkLoadReviewed

ReviewSpec == ReviewInit /\ [][ReviewNext]_reviewVars

-----------------------------------------------------------------------------
(* ReviewQueueService: what staff see of the load.                         *)

normalize_severity(severity) ==
    IF severity \in {"critical", "error"} THEN "high"
    ELSE IF severity = "warning" THEN "medium" ELSE "low"

issue_sort_rank(issue) ==
    IF issue.is_blocking \/ normalize_severity(issue.severity) = "high" THEN 0
    ELSE IF normalize_severity(issue.severity) = "medium" THEN 1 ELSE 2

\* Issues of one rank are ordered by their titles.
PrimaryIssues ==
    {issue \in open :
        \A other \in open : issue_sort_rank(issue) <= issue_sort_rank(other)}

queue_item(primary) ==
    [issue_count |-> Cardinality(open),
     blocking_issue_count |-> Cardinality({i \in open : i.is_blocking}),
     warning_issue_count |->
        Cardinality({i \in open : normalize_severity(i.severity) = "medium"}),
     severity |-> normalize_severity(primary.severity),
     primary_issue_is_blocking |-> primary.is_blocking]

\* The query's first sort key.
high_priority ==
    \E issue \in open :
        issue.is_blocking \/ issue.severity \in {"critical", "error"}

\* The load's line in the page, if it has one.
get_review_queue ==
    {[high_priority |-> high_priority, item |-> queue_item(primary)] :
        primary \in PrimaryIssues}

get_load_review_context ==
    IF open # {} THEN {queue_item(primary) : primary \in PrimaryIssues}
    ELSE {[issue_count |-> 0, blocking_issue_count |-> 0,
           warning_issue_count |-> 0, severity |-> "low",
           primary_issue_is_blocking |-> FALSE]}

-----------------------------------------------------------------------------
(* Properties.                                                             *)

ReviewTypeOK ==
    /\ open \subseteq
          [paper : Papers \cup {NoPaper}, title : STRING, is_blocking : BOOLEAN,
           rule_code : STRING, severity : ValidationSeverity]
    /\ gone \subseteq Papers
    /\ found \in [Papers \cup {NoPaper} -> SUBSET STRING]
    /\ reviewed \in BOOLEAN

\* A validation leaves one open issue for each rule that it found broken, in
\* whichever order documents are validated, resolved, deleted and validated
\* again, and whether one or both sets of rules report it; a rule that blocks
\* has a blocking one.  Only the two findings about the broker are both kept,
\* and only a signature that was first not looked for and then found missing
\* has no more than its warning.
BrokenRulesHaveIssues ==
    /\ \A paper \in Papers \cup {NoPaper} :
         \A code \in found[paper] \ {"missing_signature"} :
            \E issue \in open : /\ document_id(issue) = paper
                                /\ issue.rule_code = code
                                /\ issue.is_blocking
    /\ \A i, j \in open :
         /\ i.paper = j.paper /\ i.rule_code = j.rule_code
         /\ i.rule_code # "broker_consistency"
         => i = j

\* The query, the items and the load's own page rank the load alike: it comes
\* first, and shows so, exactly if it has an issue that blocks the workflow;
\* and every issue that does not is counted as a warning.
QueueShowsBlockers ==
    LET blocked == \E issue \in open : issue.is_blocking
    IN  /\ \A line \in get_review_queue :
             /\ line.high_priority = blocked
             /\ line.item \in get_load_review_context
        /\ \A item \in get_load_review_context :
             /\ (item.severity = "high") = blocked
             /\ item.primary_issue_is_blocking = blocked
             /\ item.issue_count =
                   item.blocking_issue_count + item.warning_issue_count
             /\ (item.issue_count = 0) = (get_review_queue = {})

\* What the rules find broken gets to the reviewer, and as what it is: from the
\* documents through the issues to the queue (validate_load, list_review_queue).
ReviewersSeeBrokenRules == BrokenRulesHaveIssues /\ QueueShowsBlockers
=============================================================================
