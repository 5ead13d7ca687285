---------------------------- MODULE Receivables ----------------------------
(***************************************************************************)
(* What the four reports on receivables say of a payment record: the money *)
(* dashboard and the analytics (services/reports), the command center's    *)
(* collections, alerts and tasks (services/operations), and the accounting *)
(* export (services/accounting).  Each computes its figures by itself.     *)
(*                                                                         *)
(* The reports only read.  Their operators are functions of one record p   *)
(* of PaymentReconciliation and of its age in days; the totals they show   *)
(* are sums over the records.  The reports count the age from different    *)
(* dates (see the README): here they are compared for one and the same     *)
(* age.                                                                    *)
(***************************************************************************)
EXTENDS PaymentReconciliation

CONSTANTS Ages,             \* ages in days at which a record is looked at
          ModerateBalance,  \* the balances above which a collection is
          LargeBalance      \* more urgent: 1000 and 5000 in the code

ASSUME AgesAssumption == Ages \subseteq Nat
ASSUME BalanceAssumption ==
    /\ {ModerateBalance, LargeBalance} \subseteq Nat \ {0}
    /\ ModerateBalance <= LargeBalance

\* What is owed of the expected amount.
outstanding(p) ==
    IF p.expected > p.received THEN p.expected - p.received ELSE 0

OVERDUE_THRESHOLD_DAYS == 30

-----------------------------------------------------------------------------
(* MoneyDashboardService.get_money_dashboard: what p adds to the figures.  *)

DashboardOverdue(p, age) ==
    /\ age > OVERDUE_THRESHOLD_DAYS
    /\ p.payment # "paid"
    /\ outstanding(p) > 0

\* It subtracts what was released of the reserve without a lower bound.
DashboardReserve(p) ==
    IF p.payment = "reserve_pending" THEN p.reserve - p.reservePaid ELSE 0

\* What p adds to the other figures of the summary: what was paid, whether the
\* record counts as unpaid, and what is owed by direct payers.
MoneyDashboard(p) ==
    [paid |-> IF p.payment = "paid" THEN p.received ELSE 0,
     unpaid |-> p.payment # "paid",
     directUnpaid |-> IF ~p.factored /\ p.payment # "paid"
                      THEN outstanding(p) ELSE 0]

age_bucket_key(age) ==
    IF age <= 30 THEN "0_30" ELSE IF age <= 60 THEN "31_60"
    ELSE IF age <= 90 THEN "61_90" ELSE "90_plus"

-----------------------------------------------------------------------------
(* OperationalAnalyticsService.                                            *)

\* Mutant: the status of a short payment is left out.
MutantNoShortPaid == LoadPaymentStatus \ {"paid", "short_paid"}

UNPAID_STATUSES == LoadPaymentStatus \ {"paid"}

\* _age_days: a record that is settled has no age.
analytics_age(p, age) ==
    IF outstanding(p) = 0 \/ p.payment = "paid" THEN 0 ELSE age

\* The records of the unpaid invoices, the aging report and the collections.
InUnpaid(p) == outstanding(p) > 0 /\ p.payment \in UNPAID_STATUSES

\* _build_revenue
UnpaidRevenue(p) == IF p.payment \in UNPAID_STATUSES THEN outstanding(p) ELSE 0

\* _group_records: overdue_balance of a driver, a broker or a lane.
GroupOverdue(p, age) ==
    IF analytics_age(p, age) > 0 THEN outstanding(p) ELSE 0

\* _build_collections: overdue_balance of the whole organization.
CollectionsOverdue(p, age) ==
    IF InUnpaid(p) /\ analytics_age(p, age) > 0 THEN outstanding(p) ELSE 0

\* What counts as revenue of factored loads: by the flag or by the status.
is_factored(p) == p.factored \/ p.factoring # "not_factored"

\* _build_revenue and _group_records: paid_revenue
PaidRevenue(p) == IF p.payment \in UNPAID_STATUSES THEN 0 ELSE p.received

\* _risk_summary: the classes that an unpaid record is counted in
RiskClasses(p, age) ==
    {class \in {"high", "medium", "low"} :
        LET days == analytics_age(p, age)
        IN  CASE class = "high" ->
                    days > 60 \/ p.payment \in {"disputed", "short_paid"}
              [] class = "medium" -> days \in 31 .. 60
              [] class = "low" -> days <= 30}

analytics_bucket(days) ==
    IF days <= 0 THEN "current" ELSE IF days <= 15 THEN "1_15"
    ELSE IF days <= 30 THEN "16_30" ELSE IF days <= 60 THEN "31_60"
    ELSE "60_plus"

-----------------------------------------------------------------------------
(* DispatcherCommandCenterService.                                         *)

UNPAID_PAYMENT_STATUSES == LoadPaymentStatus \ {"paid"}

\* _build_kpis: overdue_invoices
InvoiceOverdue(p, age) == outstanding(p) > 0 /\ age > 30

\* get_command_center: the records that _collection_item is made for.
InCollections(p) ==
    outstanding(p) > 0 /\ p.payment \in UNPAID_PAYMENT_STATUSES

ReserveOwed(p) ==
    reserve_pending_amount(p) > 0 \/ p.factoring = "reserve_pending"

\* Money was received, and the record is not reconciled.
ReconciliationOpen(p) == p.reconciliation # "reconciled" /\ p.received > 0

collection_priority(p, age) ==
    LET score ==
          (IF age > 60 THEN 50 ELSE IF age > 30 THEN 35
           ELSE IF age > 15 THEN 20 ELSE 0)
          + (IF outstanding(p) >= LargeBalance THEN 30
             ELSE IF outstanding(p) >= ModerateBalance THEN 15 ELSE 0)
          + (IF p.payment \in {"disputed", "short_paid"} THEN 35 ELSE 0)
          + (IF ReserveOwed(p) \/ p.factoring = "disputed" THEN 25 ELSE 0)
          + (IF ReconciliationOpen(p) THEN 15 ELSE 0)
    IN  IF score < 100 THEN score ELSE 100

\* _build_alerts: the alerts made from a payment record.
payment_alerts(p, age) ==
    {alert \in {"invoice_overdue", "failed_reconciliation", "factoring_issue"} :
        CASE alert = "invoice_overdue" -> InvoiceOverdue(p, age)
          [] alert = "failed_reconciliation" -> ReconciliationOpen(p)
          [] alert = "factoring_issue" -> ReserveOwed(p)}

\* _build_tasks: the tasks made from a record's collection item.
payment_tasks(p, age) ==
    {task \in {"follow_up_overdue_invoice", "reconcile_payment",
               "review_factoring_reserve"} :
        /\ InCollections(p)
        /\ CASE task = "follow_up_overdue_invoice" -> age > 30
             [] task = "reconcile_payment" -> ReconciliationOpen(p)
             [] task = "review_factoring_reserve" ->
                   reserve_pending_amount(p) > 0}

collection_severity(p, age) ==
    IF collection_priority(p, age) >= 80 THEN "critical"
    ELSE IF collection_priority(p, age) >= 50 THEN "warning" ELSE "info"

\* _collection_priorities: recommended_action
collection_action(p, age) ==
    IF reserve_pending_amount(p) > 0 THEN "follow_up_reserve"
    ELSE IF age > 30 THEN "follow_up_overdue" ELSE "monitor"

\* _invoice_risk: the score, with or without documents missing
risk_score(p, age, missing) ==
    10 + (IF age > 60 THEN 55 ELSE IF age > 45 THEN 45
          ELSE IF age > 30 THEN 30 ELSE 0)
    + (IF outstanding(p) >= LargeBalance THEN 15 ELSE 0)
    + (IF p.payment \in {"disputed", "short_paid"} THEN 25 ELSE 0)
    + (IF reserve_pending_amount(p) > 0 THEN 15 ELSE 0)
    + (IF ReconciliationOpen(p) THEN 15 ELSE 0)
    + (IF missing THEN 20 ELSE 0)

risk_level(score) ==
    IF score >= 80 THEN "critical" ELSE IF score >= 65 THEN "high"
    ELSE IF score >= 35 THEN "medium" ELSE "low"

risk_action(p, age, missing) ==
    IF reserve_pending_amount(p) > 0 /\ age <= 30 THEN "review_reserve"
    ELSE IF missing THEN "resolve_documents"
    ELSE IF age > 30 THEN "follow_up_overdue" ELSE "monitor"

\* _invoice_risk_items: is the record in the list of invoices at risk?
AtRisk(p, age, missing) ==
    /\ InCollections(p)
    /\ risk_level(risk_score(p, age, missing)) # "low" \/ missing

-----------------------------------------------------------------------------
(* AccountingExportService._base_rows                                      *)

\* The gross amount stands in for an expected amount of nothing.
reconciliation_balance(p) ==
    LET expected == IF p.expected = 0 THEN Gross ELSE p.expected
        settled == p.received + p.reservePaid
    IN  IF expected > settled THEN expected - settled ELSE 0

aging_bucket(days) ==
    IF days <= 30 THEN "0_30" ELSE IF days <= 60 THEN "31_60"
    ELSE IF days <= 90 THEN "61_90" ELSE "over_90"

-----------------------------------------------------------------------------
(* The date that a record's age is counted from: the first that is set.    *)

Dates == [packet : 0 .. 2, submitted : 0 .. 2, delivery : 0 .. 2,
          pickup : 0 .. 2, load : {1, 2}, record : {1, 2}]   \* 0: not set

\* OperationalAnalyticsService._reference_date
reference_date(d) ==
    IF d.submitted > 0 THEN d.submitted ELSE IF d.delivery > 0 THEN d.delivery
    ELSE IF d.pickup > 0 THEN d.pickup ELSE d.record

\* DispatcherCommandCenterService._age_days
center_reference_date(d) ==
    LET reference == IF d.submitted > 0 THEN d.submitted
                     ELSE IF d.delivery > 0 THEN d.delivery ELSE d.pickup
    IN  IF reference = 0 THEN d.record ELSE reference

\* MoneyDashboardService._aging_reference_date: d.packet is the latest sending
aging_reference_date(d) ==
    IF d.packet > 0 THEN d.packet
    ELSE IF d.submitted > 0 THEN d.submitted ELSE d.load

-----------------------------------------------------------------------------
(* Properties.                                                             *)

\* What is owed, overdue and a collection.
BalancesAgree(p) ==
    /\ UnpaidRevenue(p) = outstanding(p)
    /\ InCollections(p) = InUnpaid(p)
    /\ ~p.factored => MoneyDashboard(p).directUnpaid = outstanding(p)
    /\ MoneyDashboard(p).paid = PaidRevenue(p)
    /\ InUnpaid(p) => MoneyDashboard(p).unpaid
    /\ reconciliation_balance(p) > 0 /\ p.expected > 0 => InCollections(p)
    /\ is_factored(p) # p.factored =>
          p.factoring \in {"disputed", "partially_paid", "reconciled"}

AgesAgree(p, age) ==
    /\ DashboardOverdue(p, age) = InvoiceOverdue(p, age)
    /\ GroupOverdue(p, age) = CollectionsOverdue(p, age)
    /\ InUnpaid(p) =>
          (analytics_bucket(analytics_age(p, age)) = "31_60")
              = (age_bucket_key(age) = "31_60")
    /\ (age_bucket_key(age) = "90_plus") = (aging_bucket(age) = "over_90")

\* What is urgent, and what is to be done about it.
AdviceAgrees(p, age, missing) ==
    LET level == risk_level(risk_score(p, age, missing))
        tasks == payment_tasks(p, age)
    IN  /\ InvoiceOverdue(p, age) =>
              /\ "follow_up_overdue_invoice" \in tasks
              /\ AtRisk(p, age, missing)
        /\ InUnpaid(p) =>
              /\ RiskClasses(p, age) # {}
              /\ "high" \in RiskClasses(p, age) => AtRisk(p, age, missing)
              /\ (collection_action(p, age) = "monitor")
                    = (tasks \subseteq {"reconcile_payment"})
              /\ risk_action(p, age, missing) = "monitor" =>
                    collection_action(p, age) = "monitor"
              /\ level \in {"high", "critical"} /\ ~missing =>
                    collection_severity(p, age) # "info"

\* A record whose load was submitted, and that no packet was sent for, has one
\* age in all the reports but the export; the analytics and the command center
\* agree about every record.
DatesAgree ==
    \A d \in Dates :
        /\ center_reference_date(d) = reference_date(d)
        /\ d.submitted > 0 /\ d.packet = 0 =>
              aging_reference_date(d) = reference_date(d)

\* The reports give one answer to one question about the same record, though
\* some leave paid records out by their status and others by their balance:
\* what was paid, what is unpaid, which of it is overdue, a collection or at
\* risk, in which month of age it is, and what is to be done about it.  What
\* the export shows as owed is a collection too, unless nothing was expected;
\* and the two reports that tell factored loads from direct ones differ only
\* about direct loads whose factoring status was set beside their payments.
ReportsAgree ==
    /\ DatesAgree
    /\ record # None =>
          /\ BalancesAgree(record)
          /\ \A age \in Ages :
               /\ AgesAgree(record, age)
               /\ \A missing \in BOOLEAN : AdviceAgrees(record, age, missing)

\* The money dashboard shows a reserve for a record only while some of it is
\* owed, and never more or less than the other reports do for that record, so
\* no record lowers the total of the others, in whichever order reserves are
\* corrected and released.
DashboardReserveIsOwed ==
    record # None /\ record.payment = "reserve_pending" =>
        /\ DashboardReserve(record) > 0
        /\ DashboardReserve(record) = reserve_pending_amount(record)

\* Nobody is asked to work on a payment that is over: a record that is paid and
\* reconciled has no alert, no task and no urgent collection at any age.  One
\* whose reconciliation was set by hand while a reserve is still owed is
\* excepted.
SettledNeedsNothing ==
    /\ record # None
    /\ record.payment = "paid" /\ record.reconciliation = "reconciled"
    /\ reserve_pending_amount(record) = 0
    => \A age \in Ages :
          /\ payment_alerts(record, age) = {}
          /\ payment_tasks(record, age) = {}
          /\ collection_priority(record, age) < 80
=============================================================================
