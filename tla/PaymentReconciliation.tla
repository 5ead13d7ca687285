----------------------- MODULE PaymentReconciliation -----------------------
(***************************************************************************)
(* The payment record of one load: what was expected, received, advanced   *)
(* and held in reserve, and the three statuses that                        *)
(* services/payments/payment_reconciliation_service.py derives from it.    *)
(*                                                                         *)
(* Amounts are natural numbers up to a bound; names, notes, dates and fees *)
(* are left out, since no status depends on them.                          *)
(*                                                                         *)
(* A caller makes service calls on the record that its session sees, and   *)
(* is answered when the session ends.  The endpoints make one call each    *)
(* and never commit; LongSessions also allows callers, as the unit tests   *)
(* are, that make several calls in one session.                            *)
(***************************************************************************)
EXTENDS Integers

CONSTANTS
    Gross,        \* the gross amount of the load
    MaxAmount,    \* bound on the amounts that clients send
    Calls,        \* the service's operations that are called
    LongSessions, \* may a session make more than one call?
    None          \* no record

Call == {"patch", "mark_paid", "mark_partial_payment", "mark_advance_paid",
         "mark_reserve_pending", "mark_reserve_paid", "mark_short_paid",
         "mark_disputed", "assign_factoring", "set_reconciliation_status"}

ASSUME AmountsAssumption == MaxAmount \in Nat /\ Gross \in 0 .. MaxAmount
ASSUME CallsAssumption == Calls \subseteq Call /\ LongSessions \in BOOLEAN

VARIABLES
    stored,   \* the record in the database
    record,   \* the record as the open session sees it
    told,     \* the payment status in the latest answer to a client
    calls     \* has the session made a call? ("no", "yes")

vars == <<stored, record, told, calls>>

Amount == 0 .. MaxAmount

LoadPaymentStatus ==
    {"not_submitted", "submitted", "awaiting_payment", "partially_paid",
     "advance_paid", "reserve_pending", "paid", "short_paid", "disputed"}

FactoringWorkflowStatus ==
    {"not_factored", "submitted_to_factoring", "funded", "partially_paid",
     "reserve_pending", "reconciled", "disputed"}

FactoringReconciliationStatus ==
    {"unreconciled", "partially_reconciled", "reconciled"}

Record == [expected : Amount, received : Amount, advance : Amount,
           reserve : Amount, reservePaid : Amount,
           short : Amount, factored : BOOLEAN, disputed : BOOLEAN,
           payment : LoadPaymentStatus,
           factoring : FactoringWorkflowStatus,
           reconciliation : FactoringReconciliationStatus]

TypeOK ==
    /\ {stored, record} \subseteq Record \cup {None}
    /\ told \in LoadPaymentStatus \cup {None}
    /\ calls \in {"no", "yes"}

\* get_or_create_for_load
NewRecord ==
    [expected |-> Gross, received |-> 0, advance |-> 0, reserve |-> 0,
     reservePaid |-> 0, short |-> 0, factored |-> FALSE, disputed |-> FALSE,
     payment |-> "not_submitted", factoring |-> "not_factored",
     reconciliation |-> "unreconciled"]

Current == IF record = None THEN NewRecord ELSE record

-----------------------------------------------------------------------------
(* The derived statuses.                                                   *)

reserve_pending_amount(p) ==
    IF p.reserve > p.reservePaid THEN p.reserve - p.reservePaid ELSE 0

FullyReceived(p) == p.expected > 0 /\ p.received >= p.expected

\* Mutant: a payment once complete stays paid.
MutantStickyPaid(p) ==
    CASE p.disputed -> "disputed"
      [] p.payment \in {"short_paid", "paid"} -> p.payment
      [] FullyReceived(p) -> "paid"
      [] p.factored /\ p.reserve > p.reservePaid -> "reserve_pending"
      [] p.factored /\ p.advance > 0 -> "advance_paid"
      [] p.received > 0 /\ p.received < p.expected -> "partially_paid"
      [] OTHER -> "awaiting_payment"

\* compute_status; the cases are tried in order.
compute_status(p) ==
    IF p.disputed THEN "disputed"
    ELSE IF p.payment = "short_paid" THEN "short_paid"
    ELSE IF FullyReceived(p) THEN "paid"
    ELSE IF p.factored /\ p.reserve > p.reservePaid THEN "reserve_pending"
    ELSE IF p.factored /\ p.advance > 0 THEN "advance_paid"
    ELSE IF p.received > 0 /\ p.received < p.expected THEN "partially_paid"
    ELSE IF p.received = 0 THEN "awaiting_payment"
    ELSE "not_submitted"

compute_reconciliation_status(p) ==
    IF FullyReceived(p) /\ reserve_pending_amount(p) = 0 THEN "reconciled"
    ELSE IF p.received > 0 \/ p.advance > 0 \/ p.reservePaid > 0
         THEN "partially_reconciled" ELSE "unreconciled"

\* Mutant: a reserve keeps the load at its stage, also once it is released.
MutantReserveStage(p) ==
    IF p.disputed THEN "disputed"
    ELSE IF ~p.factored THEN "not_factored"
    ELSE IF p.reserve > 0 THEN "reserve_pending"
    ELSE IF compute_reconciliation_status(p) = "reconciled" THEN "reconciled"
    ELSE IF p.received > 0 /\ p.received < p.expected THEN "partially_paid"
    ELSE IF p.advance > 0 THEN "funded"
    ELSE "submitted_to_factoring"

compute_factoring_status(p) ==
    IF p.disputed THEN "disputed"
    ELSE IF ~p.factored THEN "not_factored"
    ELSE IF compute_reconciliation_status(p) = "reconciled" THEN "reconciled"
    ELSE IF reserve_pending_amount(p) > 0 THEN "reserve_pending"
    ELSE IF p.received > 0 /\ p.received < p.expected THEN "partially_paid"
    ELSE IF p.advance > 0 THEN "funded"
    ELSE "submitted_to_factoring"

\* The three assignments that end most operations, in their order.
Derived(p) ==
    [p EXCEPT !.payment = compute_status(p),
              !.reconciliation = compute_reconciliation_status(p),
              !.factoring = compute_factoring_status(p)]

-----------------------------------------------------------------------------
(* The service's operations: the record each makes of the record p.        *)

update_amount_received(p, amount) == Derived([p EXCEPT !.received = amount])

mark_paid(p, amount) ==
    Derived([p EXCEPT !.received = amount, !.disputed = FALSE, !.short = 0])

mark_partial_payment(p, amount) ==
    [p EXCEPT !.received = amount, !.short = 0,
              !.payment = "partially_paid",
              !.reconciliation = "partially_reconciled",
              !.factoring = "partially_paid"]

\* The reserve is the company's default, the client's, or left as it is.
mark_advance_paid(p, amount, reserve) ==
    Derived([p EXCEPT !.factored = TRUE, !.advance = amount,
                      !.reserve = reserve])

mark_reserve_pending(p, reserve) ==
    Derived([p EXCEPT !.factored = TRUE, !.reserve = reserve])

\* Mutant: the payment status is left as it is.
MutantReservePaidKeeps(p, amount) ==
    [Derived([p EXCEPT !.factored = TRUE, !.reservePaid = amount])
     EXCEPT !.payment = p.payment]

mark_reserve_paid(p, amount) ==
    Derived([p EXCEPT !.factored = TRUE, !.reservePaid = amount])

\* Mutant: a payment above the expected amount is short by less than nothing.
MutantSignedShort(received, expected) == expected - received

ShortBy(received, expected) ==
    IF expected > received THEN expected - received ELSE 0

mark_short_paid(p, received, expected, reason) ==
    [p EXCEPT !.received = received, !.expected = expected,
              !.short = ShortBy(received, expected),
              !.disputed = reason,
              !.payment = "short_paid",
              !.reconciliation = "partially_reconciled",
              !.factoring = "disputed"]

mark_disputed(p, reason) == Derived([p EXCEPT !.disputed = reason])

assign_factoring(p, reserve) ==
    LET q == [p EXCEPT !.factored = TRUE, !.reserve = reserve]
    IN  [q EXCEPT !.payment = "submitted",
                  !.factoring = "submitted_to_factoring",
                  !.reconciliation = compute_reconciliation_status(q)]

set_reconciliation_status(p, status) ==
    [p EXCEPT !.reconciliation = status,
              !.factoring = IF status = "reconciled" THEN "reconciled" ELSE @]

-----------------------------------------------------------------------------
(* The endpoints: each finds or creates the record, makes one call, and    *)
(* flushes what it made of it.                                             *)

Made(call, result) ==
    /\ call \in Calls
    /\ calls = "no" \/ LongSessions
    /\ record' = result
    /\ calls' = "yes"
    /\ UNCHANGED <<stored, told>>

\* PATCH: any of the amount received and factoring_used.
Patch(received, factored) ==
    Made("patch", Derived([update_amount_received(Current, received)
                           EXCEPT !.factored = factored]))

PatchFactoring(factored) ==
    Made("patch", Derived([Current EXCEPT !.factored = factored]))

MarkPaid(amount) == Made("mark_paid", mark_paid(Current, amount))

MarkPartialPayment(amount) ==
    Made("mark_partial_payment", mark_partial_payment(Current, amount))

MarkAdvancePaid(amount, reserve) ==
    Made("mark_advance_paid", mark_advance_paid(Current, amount, reserve))

MarkReservePending(reserve) ==
    Made("mark_reserve_pending", mark_reserve_pending(Current, reserve))

MarkReservePaid(amount) ==
    Made("mark_reserve_paid", mark_reserve_paid(Current, amount))

MarkShortPaid(received, expected, reason) ==
    Made("mark_short_paid",
         mark_short_paid(Current, received, expected, reason))

MarkDisputed(reason) == Made("mark_disputed", mark_disputed(Current, reason))

\* This and the next operation no endpoint calls yet.
AssignFactoring(reserve) ==
    Made("assign_factoring", assign_factoring(Current, reserve))

SetReconciliationStatus(status) ==
    Made("set_reconciliation_status",
         set_reconciliation_status(Current, status))

\* The endpoint answers with the record and its session is closed.
Respond ==
    /\ calls = "yes"
    /\ told' = record.payment
    /\ record' = stored
    /\ calls' = "no"
    /\ UNCHANGED stored

Init == stored = None /\ record = None /\ told = None /\ calls = "no"

Next ==
    \/ \E amount \in Amount :
         \/ MarkPaid(amount)
         \/ MarkPartialPayment(amount)
         \/ MarkReservePending(amount)
         \/ MarkReservePaid(amount)
         \/ AssignFactoring(amount)
         \/ \E reserve \in Amount : MarkAdvancePaid(amount, reserve)
         \/ \E factored \in BOOLEAN : Patch(amount, factored)
         \/ \E expected \in Amount, reason \in BOOLEAN :
              MarkShortPaid(amount, expected, reason)
    \/ \E flag \in BOOLEAN : PatchFactoring(flag) \/ MarkDisputed(flag)
    \/ \E status \in FactoringReconciliationStatus :
         SetReconciliationStatus(status)
    \/ Respond

Spec == Init /\ [][Next]_vars

-----------------------------------------------------------------------------
(* Properties of every record that a session sees and answers with.        *)

\* A record is paid only while the whole expected amount has been received,
\* whatever amounts are corrected later.
PaidIsSettled ==
    record # None /\ record.payment = "paid" => FullyReceived(record)

\* Unless somebody sets it by hand, a record is reconciled only when nothing is
\* owed, the reserve included, and a call that leaves something owed reopens a
\* record that was set by hand.
ReconciledIsSettled ==
    [][record' # None /\ record'.reconciliation = "reconciled"
       => \/ FullyReceived(record') /\ record'.reservePaid >= record'.reserve
          \/ SetReconciliationStatus("reconciled")]_vars

\* Only a factored load is at one of the factor's stages.
StagesNeedFactoring ==
    /\ record # None
    /\ record.factoring \in {"submitted_to_factoring", "funded",
                            "reserve_pending"}
    => record.factored

\* The status a client was told is the one the database holds.
AnswersAreStored == told # None => stored # None /\ stored.payment = told
=============================================================================
