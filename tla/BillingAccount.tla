--------------------------- MODULE BillingAccount ---------------------------
(***************************************************************************)
(* The billing of one organization's customers: invoices, the payments     *)
(* collected for them, the payment methods, and dunning, from              *)
(* services/billing/invoice_service.py, payment_service.py and             *)
(* dunning_service.py and the endpoints in front of them.                  *)
(*                                                                         *)
(* No endpoint of billing_invoices.py or payments.py commits: the rows are *)
(* what one session sees, and closing the session discards them.  The      *)
(* callers that make several calls in one session are the unit and         *)
(* integration tests.                                                      *)
(*                                                                         *)
(* An invoice holds whole cents.  A client sends a payment's amount with   *)
(* as many decimals as it likes; amounts are counted in half cents here,   *)
(* which is enough to tell the two roundings of the code apart.  Line      *)
(* items have at most four decimals, as their columns have, and stand for  *)
(* the total they add up to.                                               *)
(***************************************************************************)
EXTENDS Integers, FiniteSetsExt, SequencesExt

CONSTANTS
    Customers,   \* customer accounts
    Totals,      \* invoice totals, in cents
    Amounts,     \* payment amounts that clients send, in half cents
    MaxInvoices, \* bound on invoices
    MaxPayments, \* bound on payments
    MaxMethods   \* bound on payment methods

ASSUME TotalsAssumption == Totals \subseteq Nat /\ Amounts \subseteq Nat
ASSUME SizesAssumption == {MaxInvoices, MaxPayments, MaxMethods} \subseteq Nat

VARIABLES
    invoices, \* the organization's invoices, in the order of their creation
    payments, \* the payments, in the order of their creation
    methods   \* the payment methods

billingVars == <<invoices, payments, methods>>

InvoiceStatus ==
    {"draft", "open", "paid", "void", "uncollectible", "past_due"}

\* byHand: the status was last set by a client's PATCH
Invoice == [customer : Customers, number : Nat, total : Nat, paid : Nat,
            due : Nat, status : InvoiceStatus, byHand : BOOLEAN]

\* asked: the amount the client sent, in half cents; the row does not keep it
Payment == [invoice : Nat \ {0}, amount : Nat, asked : Nat,
            status : {"succeeded", "failed"}]

PaymentMethod == [customer : Customers, default : BOOLEAN, active : BOOLEAN]

\* The type invariant: invoices, payments and methods within their bounds,
\* and no negative amount on an invoice (the columns of the billing models).
BillingTypeOK ==
    /\ invoices \in Seq(Invoice) /\ Len(invoices) <= MaxInvoices
    /\ payments \in Seq(Payment) /\ Len(payments) <= MaxPayments
    /\ methods \in Seq(PaymentMethod) /\ Len(methods) <= MaxMethods

BillingInit == invoices = <<>> /\ payments = <<>> /\ methods = <<>>

\* The session ends without a commit.
Close == invoices' = <<>> /\ payments' = <<>> /\ methods' = <<>>

-----------------------------------------------------------------------------
(* Invoices.                                                               *)

InvoicesOf(c) == {i \in DOMAIN invoices : invoices[i].customer = c}

\* The number counts the invoices of one customer ...
NextNumber(c) == 1001 + Cardinality(InvoicesOf(c))

\* ... and is unique in the organization (uq_billing_invoices_org_invoice_number).
NumberTaken(n) == \E i \in DOMAIN invoices : invoices[i].number = n

\* InvoiceService.create_invoice
NewInvoice(c, total) ==
    [customer |-> c, number |-> NextNumber(c), total |-> total,
     paid |-> 0, due |-> total, status |-> "open", byHand |-> FALSE]

CreateInvoice(c, total) ==
    /\ Len(invoices) < MaxInvoices
    /\ ~NumberTaken(NextNumber(c))
    /\ invoices' = Append(invoices, NewInvoice(c, total))
    /\ UNCHANGED <<payments, methods>>

\* The insert breaks the constraint: nothing of the session is left.
RefuseInvoice(c) == NumberTaken(NextNumber(c)) /\ Close

Recalculated(v) ==
    [v EXCEPT !.due = IF v.paid > v.total THEN 0 ELSE v.total - v.paid]

\* InvoiceService.update_invoice: any status may be asked for, or none (then s
\* is the invoice's); the amounts are always recomputed.
Patched(v, s, given) ==
    Recalculated([v EXCEPT !.status = s, !.byHand = given \/ v.byHand])

\* A PATCH of the status, or of dates and notes only.  The endpoint passes the
\* columns that the client leaves out as well: it must give issued_at, which
\* is NOT NULL, or the statement is refused.
UpdateInvoice(i, s, given, issued) ==
    /\ ~given => s = invoices[i].status
    /\ IF issued
       THEN /\ invoices' = [invoices EXCEPT ![i] = Patched(@, s, given)]
            /\ UNCHANGED <<payments, methods>>
       ELSE Close

\* Mutant: the status is not looked at: a settled invoice is marked too.
MutantPastDue(v) == [v EXCEPT !.status = "past_due"]

PastDue(v) == IF v.status = "open" THEN [v EXCEPT !.status = "past_due"] ELSE v

MarkPastDue(i) ==
    /\ invoices' = [invoices EXCEPT ![i] = PastDue(@)]
    /\ UNCHANGED <<payments, methods>>

\* Dunning marks every open invoice whose due date has passed.
MarkAllPastDue(late) ==
    /\ invoices' = [i \in DOMAIN invoices |->
                       IF i \in late THEN PastDue(invoices[i]) ELSE invoices[i]]
    /\ UNCHANGED <<payments, methods>>

-----------------------------------------------------------------------------
(* Payments.                                                               *)

\* quantize(Decimal("0.01")): to the nearest cent, halves to the even one.
HalfEven(a) == IF a % 4 = 3 THEN (a + 1) \div 2 ELSE a \div 2

\* Mutant: the row keeps the whole cents only.
MutantHalfUp(a) == a \div 2

\* The Numeric(12, 2) column: to the nearest cent, halves up.
HalfUp(a) == (a + 1) \div 2

\* apply_payment, for an amount that is not refused
ApplyPayment(v, cents) ==
    LET paid == v.paid + cents
        due == v.total - paid
    IN  [v EXCEPT !.paid = paid,
                  !.due = IF due <= 0 THEN 0 ELSE due,
                  !.status = IF due <= 0 THEN "paid" ELSE "open",
                  !.byHand = FALSE]

\* What collect_payment accepts: a positive amount within what is due.
Collectable(v, a) == a > 0 /\ v.due > 0 /\ a <= 2 * v.due

\* PaymentService.collect_payment.  The row is written as succeeded before the
\* invoice takes the payment, and an amount that rounds to nothing is refused
\* by the invoice after that.
Collected(i, a) ==
    [payment |-> [invoice |-> i, amount |-> HalfUp(a), asked |-> a,
                  status |-> "succeeded"],
     invoice |-> IF HalfEven(a) = 0 THEN invoices[i]
                 ELSE ApplyPayment(invoices[i], HalfEven(a))]

Collect(i, a) ==
    /\ Len(payments) < MaxPayments
    /\ Collectable(invoices[i], a)
    /\ payments' = Append(payments, Collected(i, a).payment)
    /\ invoices' = [invoices EXCEPT ![i] = Collected(i, a).invoice]
    /\ UNCHANGED methods

\* PaymentService.mark_failed: whatever the payment's status is.
Failed(payment) == [payment EXCEPT !.status = "failed"]

\* The invoice is not touched.
MarkFailed(p) ==
    /\ payments' = [payments EXCEPT ![p] = Failed(@)]
    /\ UNCHANGED <<invoices, methods>>

-----------------------------------------------------------------------------
(* Payment methods.                                                        *)

\* clear_default_for_customer_account
Cleared(c) == [k \in DOMAIN methods |->
                 IF methods[k].customer = c
                 THEN [methods[k] EXCEPT !.default = FALSE] ELSE methods[k]]

CreateMethod(c, default, active) ==
    /\ Len(methods) < MaxMethods
    /\ methods' = Append(IF default THEN Cleared(c) ELSE methods,
                   [customer |-> c, default |-> default, active |-> active])
    /\ UNCHANGED <<invoices, payments>>

UpdateMethod(k, default, active) ==
    /\ methods' = [IF default THEN Cleared(methods[k].customer) ELSE methods
                      EXCEPT ![k].default = default, ![k].active = active]
    /\ UNCHANGED <<invoices, payments>>

-----------------------------------------------------------------------------
BillingNext ==
    \/ \E c \in Customers, total \in Totals : CreateInvoice(c, total)
    \/ \E c \in Customers : RefuseInvoice(c)
    \/ \E i \in DOMAIN invoices :
          \/ \E s \in InvoiceStatus, given, issued \in BOOLEAN :
                UpdateInvoice(i, s, given, issued)
          \/ MarkPastDue(i)
          \/ \E a \in Amounts : Collect(i, a)
    \/ \E late \in SUBSET DOMAIN invoices : MarkAllPastDue(late)
    \/ \E p \in DOMAIN payments : MarkFailed(p)
    \/ \E c \in Customers, default, active \in BOOLEAN :
          CreateMethod(c, default, active)
    \/ \E k \in DOMAIN methods, default, active \in BOOLEAN :
          UpdateMethod(k, default, active)
    \/ Close

BillingSpec == BillingInit /\ [][BillingNext]_billingVars

-----------------------------------------------------------------------------
(* Properties.                                                             *)

PaymentsOf(i) == {p \in DOMAIN payments : payments[p].invoice = i}

\* The payments for which a fraction of a cent was asked.
Fractions(i) == {p \in PaymentsOf(i) : payments[p].asked % 2 = 1}

\* What each payment charged for invoice i.
ChargedBy(i) ==
    [p \in DOMAIN payments |->
        IF payments[p].invoice = i THEN payments[p].amount ELSE 0]

\* The sums of the first n of the N numbers that g is made of.
Sums(N, g) ==
    LET sum[n \in 0 .. N] == IF n = 0 THEN 0 ELSE sum[n - 1] + g[n]
    IN  sum

\* What the payments of invoice i add up to.
Charged(i) == Sums(Len(payments), ChargedBy(i))[Len(payments)]

\* What is due and what was paid always add up to the invoice's total: no
\* sequence of payments, roundings and updates overpays an invoice or loses
\* part of its balance (apply_payment, _recalculate_totals).
BalanceAddsUp ==
    \A i \in DOMAIN invoices : invoices[i].due + invoices[i].paid = invoices[i].total

\* The payment rows of an invoice, failed ones included, add up to what the
\* invoice says was paid, except for at most one cent for each payment whose
\* amount had a fraction of a cent: the row and the invoice round it
\* differently, and mark_failed gives nothing back.
PaidMatchesPayments ==
    \A i \in DOMAIN invoices :
        /\ invoices[i].paid <= Charged(i)
        /\ Charged(i) <= invoices[i].paid + Cardinality(Fractions(i))

\* Unless a client set the status by hand, a paid invoice has nothing due, and
\* an invoice that is charged and has nothing due is paid: dunning never marks
\* a settled invoice past due (apply_payment, mark_past_due).
StatusFollowsBalance ==
    \A i \in DOMAIN invoices : LET v == invoices[i] IN
        ~v.byHand => /\ v.status = "paid" => v.due = 0 /\ v.total > 0
                     /\ v.due = 0 /\ v.total > 0 => v.status = "paid"

\* An invoice's amounts, and the status they give it, agree (BalanceAddsUp,
\* StatusFollowsBalance).
InvoicesBalance == BalanceAddsUp /\ StatusFollowsBalance

\* A customer has at most one default payment method, through any sequence of
\* creations and updates (create_payment_method, update_payment_method).
OneDefaultMethod ==
    \A j, k \in DOMAIN methods :
        /\ methods[j].customer = methods[k].customer
        /\ methods[j].default /\ methods[k].default
        => j = k

=============================================================================
