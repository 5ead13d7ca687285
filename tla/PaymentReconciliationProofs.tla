--------------------- MODULE PaymentReconciliationProofs ---------------------
(***************************************************************************)
(* Proofs about PaymentReconciliation and two of the reports on it, for    *)
(* every gross amount, every bound on the amounts and every set of calls.  *)
(*                                                                         *)
(* The invariant is that the record is one that the calls leave behind     *)
(* (Sound): its statuses were derived from its amounts, or set beside them *)
(* to values that promise nothing.  The database holds no record, since no *)
(* endpoint commits, so that a session that starts again starts afresh.    *)
(***************************************************************************)
EXTENDS Receivables, TLAPS

\* The statuses of a record agree with its amounts.
Sound(p) ==
    /\ p \in Record
    /\ p.payment = "paid" => FullyReceived(p)
    /\ p.payment = "reserve_pending" => p.reserve > p.reservePaid
    /\ p.factoring \in {"submitted_to_factoring", "funded", "reserve_pending"}
          => p.factored
    /\ p.factoring = "reserve_pending" => p.reserve > p.reservePaid

\* The inductive invariant.
IInv ==
    /\ stored = None
    /\ record # None \/ calls = "yes" => Sound(record)
    /\ told \in LoadPaymentStatus \cup {None}
    /\ calls \in {"no", "yes"}

\* A reconciled record owes nothing.
NothingOwed(p) ==
    p.reconciliation = "reconciled" =>
        FullyReceived(p) /\ p.reservePaid >= p.reserve

-----------------------------------------------------------------------------
(* Lemmas about the derived statuses.                                      *)

LEMMA AmountsFromZero == 0 \in Amount /\ Gross \in Amount /\ Amount \subseteq Nat
  BY AmountsAssumption DEF Amount

\* Each derived status is one of its enumeration.
LEMMA DerivedStatusTypes ==
    ASSUME NEW p \in Record
    PROVE  /\ compute_status(p) \in LoadPaymentStatus
           /\ compute_reconciliation_status(p) \in FactoringReconciliationStatus
           /\ compute_factoring_status(p) \in FactoringWorkflowStatus
  BY DEF compute_status, compute_reconciliation_status,
         compute_factoring_status, LoadPaymentStatus,
         FactoringReconciliationStatus, FactoringWorkflowStatus, Record

\* What the derived statuses promise of the amounts they are derived from.
LEMMA DerivedPromises ==
    ASSUME NEW p \in Record
    PROVE  /\ compute_status(p) = "paid" =>
                 FullyReceived(p) \/ p.payment = "short_paid"
           /\ compute_status(p) = "paid" => FullyReceived(p)
           /\ compute_status(p) = "reserve_pending" => p.reserve > p.reservePaid
           /\ compute_factoring_status(p) \in
                {"submitted_to_factoring", "funded", "reserve_pending"}
              => p.factored
           /\ compute_reconciliation_status(p) = "reconciled" =>
                 FullyReceived(p) /\ reserve_pending_amount(p) = 0
  BY DEF compute_status, compute_factoring_status,
         compute_reconciliation_status, Record

\* No reserve is pending exactly if all of it has been paid.
LEMMA ReservePaid ==
    ASSUME NEW p \in Record, reserve_pending_amount(p) = 0
    PROVE  p.reservePaid >= p.reserve
  <1>1. p.reserve \in Nat /\ p.reservePaid \in Nat
    BY AmountsFromZero DEF Record
  <1>2. ~(p.reserve > p.reservePaid)
    BY <1>1 DEF reserve_pending_amount
  <1> QED  BY <1>1, <1>2

\* The factor's stage is the reserve's only while some of that is owed.
LEMMA ReserveStage ==
    ASSUME NEW p \in Record, compute_factoring_status(p) = "reserve_pending"
    PROVE  p.reserve > p.reservePaid
  <1>1. p.reserve \in Nat /\ p.reservePaid \in Nat
    BY AmountsFromZero DEF Record
  <1>2. reserve_pending_amount(p) > 0
    BY DEF compute_factoring_status
  <1> QED  BY <1>1, <1>2 DEF reserve_pending_amount

\* Deriving the statuses of any record gives a sound one.
LEMMA DerivedSound ==
    ASSUME NEW p \in Record
    PROVE  Sound(Derived(p)) /\ NothingOwed(Derived(p))
  <1> DEFINE q == Derived(p)
  <1>1. /\ q \in Record
        /\ q.payment = compute_status(p)
        /\ q.reconciliation = compute_reconciliation_status(p)
        /\ q.factoring = compute_factoring_status(p)
    BY DerivedStatusTypes DEF Derived, Record
  <1>2. /\ q.expected = p.expected /\ q.received = p.received
        /\ q.reserve = p.reserve /\ q.reservePaid = p.reservePaid
        /\ q.factored = p.factored
    BY DEF Derived, Record
  <1>3. FullyReceived(q) = FullyReceived(p)
    BY <1>2 DEF FullyReceived
  <1>4. Sound(q)
    BY <1>1, <1>2, <1>3, DerivedPromises, ReserveStage DEF Sound
  <1>5. NothingOwed(q)
    BY <1>1, <1>2, <1>3, DerivedPromises, ReservePaid DEF NothingOwed
  <1> QED  BY <1>4, <1>5

-----------------------------------------------------------------------------
(* Every call leaves a sound record.                                       *)

\* The record that a call starts from.
LEMMA CurrentType == IInv => Current \in Record /\ (record # None => Sound(record))
  BY AmountsFromZero
  DEF IInv, Sound, Current, NewRecord, Record, LoadPaymentStatus,
      FactoringWorkflowStatus, FactoringReconciliationStatus

\* A new record is sound.
LEMMA CurrentSound == IInv => Sound(Current)
  BY CurrentType, AmountsAssumption
  DEF Sound, Current, NewRecord

\* A call that ends by deriving the statuses.
LEMMA DerivingCall ==
    ASSUME NEW call, NEW p \in Record, Made(call, Derived(p))
    PROVE  Sound(record') /\ NothingOwed(record')
  BY DerivedSound DEF Made

\* The calls that derive the statuses, with the records they derive them of.
LEMMA DerivingCalls ==
    ASSUME IInv,
           NEW amount \in Amount, NEW reserve \in Amount, NEW flag \in BOOLEAN,
           \/ MarkPaid(amount) \/ MarkReservePending(amount)
           \/ MarkReservePaid(amount) \/ MarkAdvancePaid(amount, reserve)
           \/ Patch(amount, flag) \/ PatchFactoring(flag) \/ MarkDisputed(flag)
    PROVE  Sound(record') /\ NothingOwed(record')
  <1> DEFINE p == Current
  <1>0. p \in Record
    BY CurrentType
  <1>1. CASE MarkPaid(amount)
    <2>1. [p EXCEPT !.received = amount, !.disputed = FALSE, !.short = 0]
            \in Record
      BY <1>0, AmountsFromZero DEF Record
    <2> QED  BY <1>1, <2>1, DerivingCall
         DEF MarkPaid, mark_paid
  <1>2. CASE MarkReservePending(amount)
    <2>1. [p EXCEPT !.factored = TRUE, !.reserve = amount] \in Record
      BY <1>0 DEF Record
    <2> QED  BY <1>2, <2>1, DerivingCall
         DEF MarkReservePending, mark_reserve_pending
  <1>3. CASE MarkReservePaid(amount)
    <2>1. [p EXCEPT !.factored = TRUE, !.reservePaid = amount] \in Record
      BY <1>0 DEF Record
    <2> QED  BY <1>3, <2>1, DerivingCall
         DEF MarkReservePaid, mark_reserve_paid
  <1>4. CASE MarkAdvancePaid(amount, reserve)
    <2>1. [p EXCEPT !.factored = TRUE, !.advance = amount, !.reserve = reserve]
            \in Record
      BY <1>0 DEF Record
    <2> QED  BY <1>4, <2>1, DerivingCall
         DEF MarkAdvancePaid, mark_advance_paid
  <1>5. CASE Patch(amount, flag)
    <2>1. [p EXCEPT !.received = amount] \in Record
      BY <1>0 DEF Record
    <2>2. Derived([p EXCEPT !.received = amount]) \in Record
      BY <2>1, DerivedSound DEF Sound
    <2>3. [Derived([p EXCEPT !.received = amount]) EXCEPT !.factored = flag]
            \in Record
      BY <2>2 DEF Record
    <2> QED  BY <1>5, <2>3, DerivingCall
         DEF Patch, update_amount_received
  <1>6. CASE PatchFactoring(flag)
    <2>1. [p EXCEPT !.factored = flag] \in Record
      BY <1>0 DEF Record
    <2> QED  BY <1>6, <2>1, DerivingCall DEF PatchFactoring
  <1>7. CASE MarkDisputed(flag)
    <2>1. [p EXCEPT !.disputed = flag] \in Record
      BY <1>0 DEF Record
    <2> QED  BY <1>7, <2>1, DerivingCall
         DEF MarkDisputed, mark_disputed
  <1> QED  BY <1>1, <1>2, <1>3, <1>4, <1>5, <1>6, <1>7

\* The calls that set the statuses beside the amounts.
LEMMA SettingCalls ==
    ASSUME IInv,
           NEW amount \in Amount, NEW expected \in Amount, NEW flag \in BOOLEAN,
           \/ MarkPartialPayment(amount)
           \/ MarkShortPaid(amount, expected, flag)
           \/ AssignFactoring(amount)
    PROVE  Sound(record') /\ NothingOwed(record')
  <1> DEFINE p == Current
  <1>0. p \in Record
    BY CurrentType
  <1>1. CASE MarkPartialPayment(amount)
    <2>1. record' = [p EXCEPT !.received = amount, !.short = 0,
                              !.payment = "partially_paid",
                              !.reconciliation = "partially_reconciled",
                              !.factoring = "partially_paid"]
      BY <1>1 DEF MarkPartialPayment, mark_partial_payment, Made
    <2>2. record' \in Record
      BY <1>0, <2>1, AmountsFromZero
      DEF Record, LoadPaymentStatus, FactoringWorkflowStatus,
          FactoringReconciliationStatus
    <2>3. /\ record'.payment = "partially_paid"
          /\ record'.reconciliation = "partially_reconciled"
          /\ record'.factoring = "partially_paid"
      BY <1>0, <2>1 DEF Record
    <2> QED  BY <2>2, <2>3 DEF Sound, NothingOwed
  <1>2. CASE MarkShortPaid(amount, expected, flag)
    <2>1. ShortBy(amount, expected) \in Amount
      BY AmountsAssumption DEF ShortBy, Amount
    <2>2. record' = [p EXCEPT !.received = amount, !.expected = expected,
                              !.short = ShortBy(amount, expected),
                              !.disputed = flag, !.payment = "short_paid",
                              !.reconciliation = "partially_reconciled",
                              !.factoring = "disputed"]
      BY <1>2 DEF MarkShortPaid, mark_short_paid, Made
    <2>3. record' \in Record
      BY <1>0, <2>1, <2>2
      DEF Record, LoadPaymentStatus, FactoringWorkflowStatus,
          FactoringReconciliationStatus
    <2>4. /\ record'.payment = "short_paid"
          /\ record'.reconciliation = "partially_reconciled"
          /\ record'.factoring = "disputed"
      BY <1>0, <2>2 DEF Record
    <2> QED  BY <2>3, <2>4 DEF Sound, NothingOwed
  <1>3. CASE AssignFactoring(amount)
    <2> DEFINE q == [p EXCEPT !.factored = TRUE, !.reserve = amount]
    <2>1. q \in Record
      BY <1>0 DEF Record
    <2>2. record' = [q EXCEPT !.payment = "submitted",
                              !.factoring = "submitted_to_factoring",
                              !.reconciliation =
                                  compute_reconciliation_status(q)]
      BY <1>3 DEF AssignFactoring, assign_factoring, Made
    <2>3. compute_reconciliation_status(q) \in FactoringReconciliationStatus
      BY <2>1, DerivedStatusTypes
    <2>4. record' \in Record
      BY <2>1, <2>2, <2>3
      DEF Record, LoadPaymentStatus, FactoringWorkflowStatus
    <2>5. /\ record'.payment = "submitted" /\ record'.factored = TRUE
          /\ record'.factoring = "submitted_to_factoring"
          /\ record'.reconciliation = compute_reconciliation_status(q)
          /\ record'.expected = q.expected /\ record'.received = q.received
          /\ record'.reserve = q.reserve /\ record'.reservePaid = q.reservePaid
      BY <1>0, <2>1, <2>2 DEF Record
    <2>6. record'.reconciliation = "reconciled" =>
              FullyReceived(q) /\ q.reservePaid >= q.reserve
      BY <2>1, <2>5, DerivedPromises, ReservePaid
    <2>7. NothingOwed(record')
      BY <2>5, <2>6 DEF NothingOwed, FullyReceived
    <2> QED  BY <2>4, <2>5, <2>7 DEF Sound
  <1> QED  BY <1>1, <1>2, <1>3

\* Setting the reconciliation by hand keeps a record sound, and makes it
\* reconciled only if that is what was asked for.
LEMMA SettingByHand ==
    ASSUME IInv, NEW status \in FactoringReconciliationStatus,
           SetReconciliationStatus(status)
    PROVE  /\ Sound(record')
           /\ record'.reconciliation = status
  <1> DEFINE p == Current
  <1>1. p \in Record /\ Sound(p)
    BY CurrentType, CurrentSound
  <1>2. record' = [p EXCEPT !.reconciliation = status,
                            !.factoring = IF status = "reconciled"
                                          THEN "reconciled" ELSE @]
    BY DEF SetReconciliationStatus, set_reconciliation_status, Made
  <1>3. record' \in Record
    BY <1>1, <1>2
    DEF Record, FactoringWorkflowStatus
  <1>4. /\ record'.payment = p.payment /\ record'.factored = p.factored
        /\ record'.expected = p.expected /\ record'.received = p.received
        /\ record'.reserve = p.reserve /\ record'.reservePaid = p.reservePaid
        /\ record'.factoring \in {p.factoring, "reconciled"}
        /\ record'.reconciliation = status
    BY <1>1, <1>2 DEF Record
  <1> QED  BY <1>1, <1>3, <1>4 DEF Sound, FullyReceived

-----------------------------------------------------------------------------
(* The invariant.                                                          *)

LEMMA InitIInv == Init => IInv
  BY DEF Init, IInv

\* What a call leaves alone.
LEMMA CallsKeepTheRest ==
    ASSUME IInv, NEW call, NEW result, Made(call, result),
           Sound(record')
    PROVE  IInv'
  BY DEF IInv, Made, Sound

\* Every step keeps the invariant, and leaves a record that owes something
\* reconciled only by setting it so.
LEMMA NextKeepsIInv ==
    ASSUME IInv, [Next]_vars
    PROVE  /\ IInv'
           /\ \/ record' = None \/ NothingOwed(record')
              \/ SetReconciliationStatus("reconciled")
              \/ vars' = vars
  <1>1. CASE Respond
    <2>1. /\ record' = None /\ stored' = None /\ calls' = "no"
          /\ told' = record.payment
      BY <1>1 DEF Respond, IInv
    <2>2. record.payment \in LoadPaymentStatus
      BY <1>1 DEF Respond, IInv, Sound, Record
    <2> QED  BY <2>1, <2>2 DEF IInv
  <1>2. ASSUME NEW amount \in Amount,
               \/ MarkPaid(amount)
               \/ MarkReservePending(amount)
               \/ MarkReservePaid(amount)
               \/ \E reserve \in Amount : MarkAdvancePaid(amount, reserve)
               \/ \E factored \in BOOLEAN : Patch(amount, factored)
        PROVE  Sound(record') /\ NothingOwed(record')
    BY <1>2, DerivingCalls
  <1>3. ASSUME NEW flag \in BOOLEAN, PatchFactoring(flag) \/ MarkDisputed(flag)
        PROVE  Sound(record') /\ NothingOwed(record')
    BY <1>3, DerivingCalls, AmountsFromZero
  <1>4. ASSUME NEW amount \in Amount,
               \/ MarkPartialPayment(amount)
               \/ AssignFactoring(amount)
               \/ \E expected \in Amount, reason \in BOOLEAN :
                     MarkShortPaid(amount, expected, reason)
        PROVE  Sound(record') /\ NothingOwed(record')
    BY <1>4, SettingCalls
  <1>5. ASSUME NEW status \in FactoringReconciliationStatus,
               SetReconciliationStatus(status)
        PROVE  /\ Sound(record')
               /\ NothingOwed(record') \/ SetReconciliationStatus("reconciled")
    <2>1. Sound(record') /\ record'.reconciliation = status
      BY <1>5, SettingByHand
    <2> QED  BY <1>5, <2>1 DEF NothingOwed
  <1>6. ASSUME Next, ~Respond
        PROVE  /\ Sound(record')
               /\ NothingOwed(record') \/ SetReconciliationStatus("reconciled")
               /\ stored' = stored /\ told' = told /\ calls' = "yes"
    <2>1. stored' = stored /\ told' = told /\ calls' = "yes"
      BY <1>6
      DEF Next, MarkPaid, MarkPartialPayment, MarkReservePending,
          MarkReservePaid, AssignFactoring, MarkAdvancePaid, Patch,
          PatchFactoring, MarkDisputed, MarkShortPaid,
          SetReconciliationStatus, Made
    <2> QED  BY <1>2, <1>3, <1>4, <1>5, <1>6, <2>1 DEF Next
  <1>7. CASE Next /\ ~Respond
    BY <1>6, <1>7 DEF IInv
  <1>8. CASE UNCHANGED vars
    BY <1>8 DEF vars, IInv, Sound, FullyReceived
  <1> QED  BY <1>1, <1>7, <1>8

-----------------------------------------------------------------------------
(* The results.                                                            *)

\* The invariant holds of every reachable state.
THEOREM InvariantHolds == Spec => []IInv
  <1>1. IInv /\ [Next]_vars => IInv'
    BY NextKeepsIInv
  <1> QED  BY <1>1, InitIInv, PTL DEF Spec

\* Every reachable record is well typed: no call leaves an amount or a status
\* outside its domain.
THEOREM TypeCorrect == Spec => []TypeOK
  <1>1. IInv => TypeOK
    BY DEF IInv, TypeOK, Sound
  <1> QED  BY <1>1, InvariantHolds, PTL

\* A record is paid only while the whole expected amount has been received,
\* over any number of calls and corrections of any size.
THEOREM PaidIsAlwaysSettled == Spec => []PaidIsSettled
  <1>1. IInv => PaidIsSettled
    BY DEF IInv, PaidIsSettled, Sound
  <1> QED  BY <1>1, InvariantHolds, PTL

\* Only a factored load is ever at one of the factor's stages.
THEOREM StagesAlwaysNeedFactoring == Spec => []StagesNeedFactoring
  <1>1. IInv => StagesNeedFactoring
    BY DEF IInv, StagesNeedFactoring, Sound
  <1> QED  BY <1>1, InvariantHolds, PTL

\* The money dashboard never subtracts a reserve, nor shows one that the other
\* reports do not.
THEOREM DashboardReserveAlwaysOwed == Spec => []DashboardReserveIsOwed
  <1>1. ASSUME NEW p \in Record, p.payment = "reserve_pending",
               p.reserve > p.reservePaid
        PROVE  /\ DashboardReserve(p) > 0
               /\ DashboardReserve(p) = reserve_pending_amount(p)
    <2>1. p.reserve \in Nat /\ p.reservePaid \in Nat
      BY AmountsFromZero DEF Record
    <2> QED  BY <1>1, <2>1 DEF DashboardReserve, reserve_pending_amount
  <1>2. IInv => DashboardReserveIsOwed
    BY <1>1 DEF IInv, DashboardReserveIsOwed, Sound
  <1> QED  BY <1>2, InvariantHolds, PTL

\* A call that leaves something owed, the reserve included, never leaves the
\* record reconciled unless it is the one that sets it by hand.
THEOREM ReconciledAlwaysSettled == Spec => ReconciledIsSettled
  <1>1. ASSUME IInv, [Next]_vars
        PROVE  [record' # None /\ record'.reconciliation = "reconciled"
                => \/ FullyReceived(record')
                      /\ record'.reservePaid >= record'.reserve
                   \/ SetReconciliationStatus("reconciled")]_vars
    BY <1>1, NextKeepsIInv DEF NothingOwed
  <1> QED  BY <1>1, InvariantHolds, PTL DEF Spec, ReconciledIsSettled

-----------------------------------------------------------------------------
(* The reports.                                                            *)

\* The balance of a record, and what its status says of it.
LEMMA Balance ==
    ASSUME NEW p, Sound(p)
    PROVE  /\ {p.expected, p.received, p.reserve, p.reservePaid} \subseteq Nat
           /\ outstanding(p) \in Nat
           /\ outstanding(p) > 0 <=> p.expected > p.received
           /\ p.payment = "paid" => outstanding(p) = 0
           /\ p.payment \in LoadPaymentStatus
  <1>1. /\ {p.expected, p.received, p.reserve, p.reservePaid} \subseteq Nat
        /\ p.payment \in LoadPaymentStatus
    BY AmountsFromZero DEF Sound, Record
  <1> QED  BY <1>1 DEF Sound, outstanding, FullyReceived

LEMMA BalancesOfSound ==
    ASSUME NEW p, Sound(p)
    PROVE  BalancesAgree(p)
  <1>1. /\ p.payment \in LoadPaymentStatus /\ p.factored \in BOOLEAN
        /\ p.factoring \in FactoringWorkflowStatus
    BY DEF Sound, Record
  <1>2. /\ UNPAID_STATUSES = LoadPaymentStatus \ {"paid"}
        /\ UNPAID_PAYMENT_STATUSES = LoadPaymentStatus \ {"paid"}
    BY DEF UNPAID_STATUSES, UNPAID_PAYMENT_STATUSES
  <1>3. UnpaidRevenue(p) = outstanding(p)
    BY <1>1, <1>2, Balance DEF UnpaidRevenue
  <1>4. InCollections(p) = InUnpaid(p)
    BY <1>2 DEF InCollections, InUnpaid
  <1>5. /\ ~p.factored => MoneyDashboard(p).directUnpaid = outstanding(p)
        /\ MoneyDashboard(p).paid = PaidRevenue(p)
    BY <1>1, <1>2, Balance DEF MoneyDashboard, PaidRevenue
  <1>6. InUnpaid(p) => MoneyDashboard(p).unpaid
    BY <1>2 DEF InUnpaid, MoneyDashboard
  <1>7. reconciliation_balance(p) > 0 /\ p.expected > 0 => InCollections(p)
    <2> DEFINE settled == p.received + p.reservePaid
    <2>1. settled \in Nat /\ settled >= p.received /\ p.expected \in Nat
      BY Balance
    <2> HIDE DEF settled
    <2>2. reconciliation_balance(p) > 0 /\ p.expected > 0 => p.expected > settled
      BY <2>1 DEF reconciliation_balance, settled
    <2> QED  BY <1>1, <1>2, <2>1, <2>2, Balance DEF InCollections
  <1>8. is_factored(p) # p.factored =>
           p.factoring \in {"disputed", "partially_paid", "reconciled"}
    <2>1. p.factoring \in {"submitted_to_factoring", "funded", "reserve_pending"}
          => p.factored
      BY DEF Sound
    <2>2. is_factored(p) \in BOOLEAN
      BY DEF is_factored
    <2> QED  BY <1>1, <2>1, <2>2 DEF is_factored, FactoringWorkflowStatus
  <1> QED  BY <1>3, <1>4, <1>5, <1>6, <1>7, <1>8 DEF BalancesAgree

LEMMA AgesOfSound ==
    ASSUME NEW p, Sound(p), NEW age \in Nat
    PROVE  AgesAgree(p, age)
  <1>1. UNPAID_STATUSES = LoadPaymentStatus \ {"paid"}
    BY DEF UNPAID_STATUSES
  <1>2. DashboardOverdue(p, age) = InvoiceOverdue(p, age)
    <2>1. DashboardOverdue(p, age) <=> InvoiceOverdue(p, age)
      BY Balance DEF DashboardOverdue, InvoiceOverdue, OVERDUE_THRESHOLD_DAYS
    <2> QED  BY <2>1 DEF DashboardOverdue, InvoiceOverdue
  <1>3. GroupOverdue(p, age) = CollectionsOverdue(p, age)
    BY <1>1, Balance DEF GroupOverdue, CollectionsOverdue, analytics_age, InUnpaid
  <1>4. InUnpaid(p) =>
            (analytics_bucket(analytics_age(p, age)) = "31_60")
                = (age_bucket_key(age) = "31_60")
    BY <1>1, Balance DEF InUnpaid, analytics_age, analytics_bucket, age_bucket_key
  <1>5. (age_bucket_key(age) = "90_plus") = (aging_bucket(age) = "over_90")
    BY DEF age_bucket_key, aging_bucket
  <1> QED  BY <1>2, <1>3, <1>4, <1>5 DEF AgesAgree

\* What is at risk of an unpaid record is urgent to collect.
LEMMA RiskIsUrgent ==
    ASSUME NEW p, Sound(p), NEW age \in Nat,
           risk_score(p, age, FALSE) >= 65
    PROVE  collection_priority(p, age) >= 50
  <1> DEFINE r == IF age > 60 THEN 55 ELSE IF age > 45 THEN 45
                  ELSE IF age > 30 THEN 30 ELSE 0
             a == IF age > 60 THEN 50 ELSE IF age > 30 THEN 35
                  ELSE IF age > 15 THEN 20 ELSE 0
             large == outstanding(p) >= LargeBalance
             b == IF large THEN 30
                  ELSE IF outstanding(p) >= ModerateBalance THEN 15 ELSE 0
             wrong == p.payment \in {"disputed", "short_paid"}
             reserve == reserve_pending_amount(p) > 0
             open == ReconciliationOpen(p)
             stage == ReserveOwed(p) \/ p.factoring = "disputed"
             score == a + b + (IF wrong THEN 35 ELSE 0) + (IF stage THEN 25 ELSE 0)
                      + (IF open THEN 15 ELSE 0)
  <1>1. risk_score(p, age, FALSE) =
           10 + r + (IF large THEN 15 ELSE 0) + (IF wrong THEN 25 ELSE 0)
              + (IF reserve THEN 15 ELSE 0) + (IF open THEN 15 ELSE 0) + 0
    BY DEF risk_score
  <1>2. collection_priority(p, age) = IF score < 100 THEN score ELSE 100
    BY DEF collection_priority
  <1>3. reserve => stage
    BY DEF ReserveOwed
  <1>0. {large, wrong, reserve, open, stage} \subseteq BOOLEAN
    BY DEF ReconciliationOpen, ReserveOwed
  <1> HIDE DEF large, wrong, reserve, open, stage
  <1>4. score >= 50 /\ score \in Nat
    <2>1. a \in Nat /\ r <= a + 10 /\ r \in Nat
          /\ (age > 60 => a = 50) /\ (~(age > 60) /\ age > 30 => a = 35)
          /\ (~(age > 30) => r = 0)
          /\ (~(age > 45) => r <= 30)
      OBVIOUS
    <2>2. b \in Nat /\ (large => b = 30)
      OBVIOUS
    <2> DEFINE l1 == IF large THEN 15 ELSE 0
               w1 == IF wrong THEN 25 ELSE 0
               w2 == IF wrong THEN 35 ELSE 0
               s1 == IF reserve THEN 15 ELSE 0
               s2 == IF stage THEN 25 ELSE 0
               o1 == IF open THEN 15 ELSE 0
    <2>3. 10 + r + l1 + w1 + s1 + o1 + 0 >= 65
      BY <1>1
    <2>4. /\ l1 \in {0, 15} /\ l1 + l1 <= b
          /\ (w1 = 0 /\ w2 = 0) \/ (w1 = 25 /\ w2 = 35)
          /\ (s1 = 0 \/ (s1 = 15 /\ s2 = 25)) /\ s2 \in Nat
          /\ o1 \in {0, 15}
      <3> HIDE DEF b
      <3> QED  BY <1>3, <2>2
    <2> HIDE DEF a, b, r, l1, w1, w2, s1, s2, o1
    <2>5. a + b + w2 + s2 + o1 >= 50 /\ a + b + w2 + s2 + o1 \in Nat
      BY <2>1, <2>2, <2>3, <2>4
    <2> QED  BY <2>5 DEF w2, s2, o1
  <1> QED  BY <1>2, <1>4

LEMMA AdviceOfSound ==
    ASSUME NEW p, Sound(p), NEW age \in Nat, NEW missing \in BOOLEAN
    PROVE  AdviceAgrees(p, age, missing)
  <1> DEFINE level == risk_level(risk_score(p, age, missing))
             tasks == payment_tasks(p, age)
  <1>1. InCollections(p) <=> InUnpaid(p)
    BY DEF InCollections, InUnpaid, UNPAID_STATUSES, UNPAID_PAYMENT_STATUSES
  <1>2. outstanding(p) > 0 => InCollections(p)
    BY Balance DEF InCollections, UNPAID_PAYMENT_STATUSES
  <1>3. /\ "follow_up_overdue_invoice" \in tasks <=> InCollections(p) /\ age > 30
        /\ "review_factoring_reserve" \in tasks
           <=> InCollections(p) /\ reserve_pending_amount(p) > 0
        /\ tasks \subseteq {"follow_up_overdue_invoice", "reconcile_payment",
                            "review_factoring_reserve"}
    BY DEF payment_tasks
  <1>4. /\ risk_score(p, age, missing) \in Nat
        /\ age > 30 => risk_score(p, age, missing) >= 35
        /\ p.payment \in {"disputed", "short_paid"}
           => risk_score(p, age, missing) >= 35
    BY DEF risk_score
  <1>5. level # "low" <=> risk_score(p, age, missing) >= 35
    BY <1>4 DEF risk_level
  <1>6. InvoiceOverdue(p, age) =>
           /\ "follow_up_overdue_invoice" \in tasks
           /\ AtRisk(p, age, missing)
    BY <1>2, <1>3, <1>4, <1>5 DEF InvoiceOverdue, AtRisk
  <1>7. ASSUME InUnpaid(p) PROVE analytics_age(p, age) = age
    BY <1>7, Balance DEF InUnpaid, analytics_age, UNPAID_STATUSES
  <1>8. ASSUME InUnpaid(p) PROVE RiskClasses(p, age) # {}
    <2>1. CASE age <= 30
      <3>1. "low" \in RiskClasses(p, age)
        BY <1>7, <1>8, <2>1 DEF RiskClasses
      <3> QED  BY <3>1
    <2>2. CASE age \in 31 .. 60
      <3>1. "medium" \in RiskClasses(p, age)
        BY <1>7, <1>8, <2>2 DEF RiskClasses
      <3> QED  BY <3>1
    <2>3. CASE age > 60
      <3>1. "high" \in RiskClasses(p, age)
        BY <1>7, <1>8, <2>3 DEF RiskClasses
      <3> QED  BY <3>1
    <2> QED  BY <2>1, <2>2, <2>3
  <1>9. ASSUME InUnpaid(p), "high" \in RiskClasses(p, age)
        PROVE  AtRisk(p, age, missing)
    <2>1. age > 60 \/ p.payment \in {"disputed", "short_paid"}
      BY <1>7, <1>9 DEF RiskClasses
    <2> QED  BY <1>1, <1>4, <1>5, <1>9, <2>1 DEF AtRisk
  <1>10. ASSUME InUnpaid(p)
         PROVE  /\ (collection_action(p, age) = "monitor")
                      = (tasks \subseteq {"reconcile_payment"})
                /\ risk_action(p, age, missing) = "monitor" =>
                      collection_action(p, age) = "monitor"
    <2>1. collection_action(p, age) = "monitor"
          <=> ~(reserve_pending_amount(p) > 0) /\ ~(age > 30)
      BY DEF collection_action
    <2>2. tasks \subseteq {"reconcile_payment"}
          <=> ~(reserve_pending_amount(p) > 0) /\ ~(age > 30)
      BY <1>1, <1>3, <1>10
    <2>3. risk_action(p, age, missing) = "monitor"
          => ~(reserve_pending_amount(p) > 0) /\ ~(age > 30)
      BY DEF risk_action
    <2> HIDE DEF tasks
    <2> QED  BY <2>1, <2>2, <2>3
  <1>11. ASSUME level \in {"high", "critical"}, ~missing
         PROVE  collection_severity(p, age) # "info"
    <2>1. risk_score(p, age, missing) >= 65
      BY <1>4, <1>11 DEF risk_level
    <2>2. risk_score(p, age, FALSE) >= 65
      <3>1. missing = FALSE
        BY <1>11
      <3> QED  BY <2>1, <3>1
    <2>3. collection_priority(p, age) >= 50
      BY <2>2, RiskIsUrgent
    <2> QED  BY <2>3 DEF collection_severity
  <1> QED  BY <1>6, <1>8, <1>9, <1>10, <1>11 DEF AdviceAgrees

LEMMA DatesAlwaysAgree == DatesAgree
  BY DEF DatesAgree, Dates, reference_date, center_reference_date,
         aging_reference_date

\* The reports give one answer to one question about the same record, whatever
\* calls it has been through and whatever its amounts and its age.
THEOREM ReportsAlwaysAgree == Spec => []ReportsAgree
  <1>1. IInv => ReportsAgree
    BY DatesAlwaysAgree, BalancesOfSound, AgesOfSound, AdviceOfSound,
       AgesAssumption
    DEF IInv, ReportsAgree
  <1> QED  BY <1>1, InvariantHolds, PTL

\* Nobody is asked to work on a payment that is over.
THEOREM SettledAlwaysNeedsNothing == Spec => []SettledNeedsNothing
  <1>1. ASSUME NEW p, Sound(p), NEW age \in Nat,
               p.payment = "paid", p.reconciliation = "reconciled",
               reserve_pending_amount(p) = 0
        PROVE  /\ payment_alerts(p, age) = {}
               /\ payment_tasks(p, age) = {}
               /\ collection_priority(p, age) < 80
    <2>1. outstanding(p) = 0
      BY <1>1, Balance
    <2>2. ~ReconciliationOpen(p) /\ ~InvoiceOverdue(p, age) /\ ~InCollections(p)
      BY <1>1, <2>1 DEF ReconciliationOpen, InvoiceOverdue, InCollections
    <2>3. p.factoring # "reserve_pending"
      <3>1. p \in Record
        BY <1>1 DEF Sound
      <3>2. p.reservePaid >= p.reserve
        BY <1>1, <3>1, ReservePaid
      <3>3. p.reserve \in Nat /\ p.reservePaid \in Nat
        BY <3>1, AmountsFromZero DEF Record
      <3> QED  BY <1>1, <3>2, <3>3 DEF Sound
    <2>4. ~ReserveOwed(p)
      BY <1>1, <2>3 DEF ReserveOwed
    <2>5. payment_alerts(p, age) = {} /\ payment_tasks(p, age) = {}
      BY <2>2, <2>4 DEF payment_alerts, payment_tasks
    <2>6. ~(0 >= LargeBalance) /\ ~(0 >= ModerateBalance)
      BY BalanceAssumption
    <2>7. collection_priority(p, age) < 80
      BY <1>1, <2>1, <2>2, <2>4, <2>6 DEF collection_priority
    <2> QED  BY <2>5, <2>7
  <1>2. IInv => SettledNeedsNothing
    BY <1>1, AgesAssumption DEF IInv, SettledNeedsNothing
  <1> QED  BY <1>2, InvariantHolds, PTL
=============================================================================
