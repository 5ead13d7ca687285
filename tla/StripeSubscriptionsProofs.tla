--------------------- MODULE StripeSubscriptionsProofs ---------------------
(***************************************************************************)
(* The receiver of Stripe's webhook events keeps the promise of            *)
(* WebhookLedger, and the organization's two statuses agree, for every     *)
(* number of events, processes, crashes and edits.                         *)
(*                                                                         *)
(* What a commit writes was decided when the delivery was claimed.  The    *)
(* invariant therefore says of every claimed delivery that it is the only  *)
(* one of its event, that the event is not on record yet, and that the     *)
(* organization is still the one it has seen, unless writers overlapped.   *)
(***************************************************************************)
EXTENDS StripeSubscriptions, TLAPS

At(p, step) == process[p].at = step

\* A row is marked by the kind of its event, and only events that were emitted
\* have rows and deliveries.
RowsSound ==
    /\ \A e \in Events :
         /\ content[e] = NotEmitted => recorded[e] = "none"
         /\ recorded[e] = "ignored" => content[e].type \notin Handled
         /\ recorded[e] = "processed" => content[e].type \in Handled
         /\ effects[e] = IF recorded[e] = "processed" THEN 1 ELSE 0
    /\ \A p \in Processes :
         /\ process[p] # Idle => content[process[p].event] # NotEmitted
         /\ At(p, "found") => recorded[process[p].event] = "ignored"
         /\ At(p, "committed") => recorded[process[p].event] # "none"

\* Nobody else is about to commit the event of a claimed delivery.
ClaimsSound ==
    \A p \in Processes :
        At(p, "claimed") /\ content[process[p].event].type \in Handled =>
            /\ recorded[process[p].event] = "none"
            /\ \A q \in Processes \ {p} :
                 At(q, "claimed") => process[q].event # process[p].event

\* A writer has seen the row that it will write over.
WritersCurrent ==
    \/ overlapped
    \/ /\ \A p \in Processes : At(p, "claimed") => process[p].seen = org
       /\ admin.editing => admin.seen = org

IInv == StripeTypeOK /\ RowsSound /\ ClaimsSound /\ WritersCurrent /\ StatusesAgree

Agree(o) ==
    \/ o.subscription_status = "none"
    \/ o.subscription_status = o.billing_status
    \/ <<o.subscription_status, o.billing_status>> \in
           {<<"trialing", "trial">>, <<"incomplete", "inactive">>}

-----------------------------------------------------------------------------
(* What events and edits make of an organization.                          *)

LEMMA EditsAgree ==
    ASSUME NEW o \in Organization, NEW billing \in AdminStatuses
    PROVE  LET status == IF billing = "trial" THEN "trialing" ELSE billing
               new == SetStatus(o, status, billing)
           IN  new \in Organization /\ Agree(new)
  BY AdminAssumption
  DEF SetStatus, Organization, SubscriptionStatus, BillingStatus, Agree

LEMMA StatusOfType ==
    ASSUME NEW c \in Content
    PROVE  StatusOf(c) \in SubscriptionStatus \cap BillingStatus
  BY DEF Content, StripeStatus, StatusOf, SubscriptionStatus, BillingStatus

\* Events keep the two statuses in agreement.
LEMMA EventsAgree ==
    ASSUME NEW o \in Organization, NEW c \in Content, c.type \in Handled
    PROVE  /\ ApplyEvent(o, c) \in Organization
           /\ Agree(o) => Agree(ApplyEvent(o, c))
  <1>1. CASE c.type = "checkout.session.completed"
    <2>1. ApplyEvent(o, c) = ApplyCheckoutSession(o, c)
      BY <1>1 DEF ApplyEvent
    <2> QED
      BY <2>1 DEF ApplyCheckoutSession, SetStatus, Link, Organization,
                  SubscriptionStatus, BillingStatus, Agree
  <1>2. CASE c.type = "customer.subscription"
    <2>1. ApplyEvent(o, c) = ApplySubscription(o, c)
      BY <1>2 DEF ApplyEvent
    <2> DEFINE s == StatusOf(c)
               ending == c.atPeriodEnd /\ s # "canceled"
    <2>2. s \in SubscriptionStatus \cap BillingStatus
      BY StatusOfType
    <2>3. ending \in BOOLEAN
      OBVIOUS
    <2>4. ApplySubscription(o, c) =
            [[[o EXCEPT !.customer = TRUE] EXCEPT !.subscription_status = s,
                                                  !.billing_status = s]
             EXCEPT !.cancel_at_period_end = ending]
      BY DEF ApplySubscription, SetStatus, Link
    <2> HIDE DEF s, ending
    <2> DEFINE linked == [o EXCEPT !.customer = TRUE]
               set == [linked EXCEPT !.subscription_status = s,
                                     !.billing_status = s]
    <2>5. linked \in Organization
      BY DEF Organization
    <2>6. set \in Organization /\ set.subscription_status = set.billing_status
      BY <2>2, <2>5 DEF Organization
    <2>7. /\ [set EXCEPT !.cancel_at_period_end = ending] \in Organization
          /\ Agree([set EXCEPT !.cancel_at_period_end = ending])
      BY <2>3, <2>6 DEF Organization, Agree
    <2> QED
      BY <2>1, <2>4, <2>7
  <1>3. CASE c.type = "invoice.payment_succeeded"
    <2>1. ApplyEvent(o, c) = ApplyPaymentSucceeded(o)
      BY <1>3 DEF ApplyEvent
    <2> QED
      BY <2>1 DEF ApplyPaymentSucceeded, SetStatus, Organization,
                  SubscriptionStatus, BillingStatus, Agree
  <1>4. CASE c.type = "invoice.payment_failed"
    <2>1. ApplyEvent(o, c) = ApplyPaymentFailed(o)
      BY <1>4 DEF ApplyEvent
    <2> QED
      BY <2>1 DEF ApplyPaymentFailed, SetStatus, Organization,
                  SubscriptionStatus, BillingStatus, Agree
  <1> QED
    BY <1>1, <1>2, <1>3, <1>4 DEF Handled

\* A writer that has seen the present row stores what it has made of it.
LEMMA WrittenOver ==
    ASSUME org \in Organization,
           NEW seen \in Organization, NEW new \in Organization
    PROVE  /\ Written(seen, new) \in Organization
           /\ seen = org => Written(seen, new) = new
  <1>1. DOMAIN org = {"subscription_status", "billing_status", "customer",
                      "cancel_at_period_end"}
    BY DEF Organization
  <1>2. Written(seen, new) =
          [subscription_status |-> Written(seen, new).subscription_status,
           billing_status |-> Written(seen, new).billing_status,
           customer |-> Written(seen, new).customer,
           cancel_at_period_end |-> Written(seen, new).cancel_at_period_end]
    BY <1>1 DEF Written
  <1>3. \A column \in DOMAIN org :
          Written(seen, new)[column] = IF new[column] = seen[column]
                                       THEN org[column] ELSE new[column]
    BY DEF Written
  <1>4. Written(seen, new) \in Organization
    BY <1>1, <1>2, <1>3 DEF Organization
  <1>5. seen = org => Written(seen, new) = new
    BY <1>1, <1>3, <1>4 DEF Organization
  <1> QED BY <1>4, <1>5

-----------------------------------------------------------------------------
(* The invariant.                                                          *)

LEMMA InitIInv == Init => IInv
  <1> SUFFICES ASSUME Init PROVE IInv
    OBVIOUS
  <1>1. org \in Organization
    BY DEF Init, Organization, SubscriptionStatus, BillingStatus
  <1>2. StripeTypeOK
    <2>1. /\ content \in [Events -> Contents \cup {NotEmitted}]
          /\ recorded \in [Events -> {"none", "ignored", "processed"}]
          /\ process \in [Processes -> Delivery \cup {Idle}]
          /\ effects \in [Events -> Nat]
      BY DEF Init
    <2>2. overlapped \in BOOLEAN /\ acknowledged \subseteq Events
      BY DEF Init
    <2>3. crashes \in 0 .. MaxCrashes /\ edits \in 0 .. MaxEdits
      BY BoundsAssumption DEF Init
    <2>4. admin \in [editing : {TRUE}, seen : Organization] \cup {NotEditing}
      BY DEF Init
    <2> QED BY <1>1, <2>1, <2>2, <2>3, <2>4 DEF StripeTypeOK
  <1>3. \A p \in Processes : process[p] = Idle
    BY DEF Init
  <1>4. RowsSound /\ ClaimsSound
    BY <1>3 DEF Init, RowsSound, ClaimsSound, At, Idle
  <1>5. WritersCurrent /\ StatusesAgree
    BY <1>3 DEF Init, WritersCurrent, StatusesAgree, At, Idle, NotEditing
  <1> QED BY <1>2, <1>4, <1>5 DEF IInv

LEMMA EmitKeeps ==
    ASSUME IInv, NEW e \in Events, NEW c \in Contents, Emit(e, c)
    PROVE  IInv'
  <1> USE DEF Emit, history, bounds
  <1>1. StripeTypeOK'
    BY DEF IInv, StripeTypeOK
  <1>2. RowsSound'
    BY DEF IInv, StripeTypeOK, RowsSound, At
  <1>3. ClaimsSound'
    BY DEF IInv, StripeTypeOK, RowsSound, ClaimsSound, At, Idle
  <1>4. WritersCurrent' /\ StatusesAgree'
    BY DEF IInv, WritersCurrent, StatusesAgree, At
  <1> QED BY <1>1, <1>2, <1>3, <1>4 DEF IInv

\* A process goes on to a step at which it writes nothing.
LEMMA BeginKeeps ==
    ASSUME IInv, NEW p \in Processes, NEW e \in Events, BeginDelivery(p, e)
    PROVE  IInv'
  <1> DEFINE step == IF Processed(e) THEN "committed"
                     ELSE IF recorded[e] = "none" THEN "new" ELSE "found"
  <1> USE DEF history, bounds
  <1>1. /\ process' = [process EXCEPT ![p] = [at |-> step, event |-> e]]
        /\ content[e] # NotEmitted
        /\ UNCHANGED <<content, recorded, org, admin, acknowledged, effects,
                       overlapped, crashes, edits>>
    BY DEF BeginDelivery
  <1>2. /\ step \in {"found", "new", "committed"}
        /\ step = "found" => recorded[e] = "ignored"
        /\ step = "committed" => recorded[e] # "none"
    BY DEF IInv, StripeTypeOK, Processed
  <1> HIDE DEF step
  <1>3. StripeTypeOK'
    BY <1>1, <1>2 DEF IInv, StripeTypeOK, Delivery
  <1>4. /\ process'[p] = [at |-> step, event |-> e]
        /\ \A q \in Processes \ {p} : process'[q] = process[q]
    BY <1>1 DEF IInv, StripeTypeOK
  <1>5. RowsSound'
    BY <1>1, <1>2, <1>4 DEF IInv, RowsSound, At
  <1>6. ClaimsSound' /\ WritersCurrent' /\ StatusesAgree'
    BY <1>1, <1>2, <1>4 DEF IInv, ClaimsSound, WritersCurrent, StatusesAgree, At
  <1> QED BY <1>3, <1>5, <1>6 DEF IInv

LEMMA ClaimKeeps ==
    ASSUME IInv, NEW p \in Processes, Claim(p)
    PROVE  IInv'
  <1> DEFINE e == process[p].event
  <1> USE DEF history, bounds
  <1>1. /\ process[p] \in Delivery /\ e \in Events
        /\ process[p].at \in {"found", "new"} /\ process[p] # Idle
        /\ process[p].at = "new" => ClaimedBy(e) = {}
        /\ UNCHANGED <<content, recorded, org, admin, acknowledged, effects,
                       overlapped, crashes, edits>>
    BY DEF IInv, StripeTypeOK, Claim, Delivery, Idle
  <1>2. PICK new \in {[at |-> "committed", event |-> e],
                      [at |-> "claimed", event |-> e, seen |-> org], Idle} :
          /\ process' = [process EXCEPT ![p] = new]
          /\ new.at = "committed" => recorded[e] # "none"
          /\ new.at = "claimed" =>
                recorded[e] = "none" \/ process[p].at = "found"
    BY DEF Claim, Idle
  <1> HIDE DEF e
  <1>3. StripeTypeOK'
    <2>1. new \in Delivery \cup {Idle}
      BY <1>1, <1>2 DEF IInv, StripeTypeOK, Delivery
    <2> QED BY <1>1, <1>2, <2>1 DEF IInv, StripeTypeOK
  <1>4. /\ process'[p] = new
        /\ \A q \in Processes \ {p} : process'[q] = process[q]
    BY <1>2 DEF IInv, StripeTypeOK
  <1>5. new # Idle => new.event = e
    BY <1>2
  <1>6. content[e] # NotEmitted
    BY <1>1 DEF IInv, RowsSound, e
  <1>7. RowsSound'
    BY <1>1, <1>2, <1>4, <1>5, <1>6 DEF IInv, RowsSound, At, Idle
  <1>8. ASSUME new.at = "claimed", content[e].type \in Handled
        PROVE  /\ recorded[e] = "none"
               /\ \A q \in Processes \ {p} :
                    At(q, "claimed") => process[q].event # e
    <2>1. process[p].at # "found"
      BY <1>1, <1>8 DEF IInv, RowsSound, At, e
    <2> QED BY <1>1, <1>2, <1>8, <2>1 DEF ClaimedBy, At
  <1>9. ClaimsSound'
    BY <1>1, <1>2, <1>4, <1>5, <1>8 DEF IInv, ClaimsSound, At, Idle
  <1>10. WritersCurrent' /\ StatusesAgree'
    BY <1>1, <1>2, <1>4 DEF IInv, WritersCurrent, StatusesAgree, At, Idle
  <1> QED BY <1>3, <1>7, <1>9, <1>10 DEF IInv

\* The commit of a delivery: the one step at which an event takes effect.
LEMMA CommitKeeps ==
    ASSUME IInv, NEW p \in Processes, CommitDelivery(p)
    PROVE  IInv'
  <1> DEFINE e == process[p].event
             seen == process[p].seen
             new == ApplyEvent(seen, content[e])
  <1> USE DEF history, bounds
  <1>1. /\ process[p].at = "claimed" /\ e \in Events
        /\ process[p] # Idle /\ seen \in Organization
    BY DEF IInv, StripeTypeOK, CommitDelivery, Delivery, Idle
  <1>2. content[e] # NotEmitted /\ content[e] \in Content
    BY <1>1, EventsAssumption DEF IInv, StripeTypeOK, RowsSound
  <1>3. /\ process' = [process EXCEPT ![p] = [at |-> "committed", event |-> e]]
        /\ UNCHANGED <<content, admin, acknowledged, crashes, edits>>
    BY DEF CommitDelivery
  <1>4. /\ process'[p] = [at |-> "committed", event |-> e]
        /\ \A q \in Processes \ {p} : process'[q] = process[q]
    BY <1>3 DEF IInv, StripeTypeOK
  <1>5. process' \in [Processes -> Delivery \cup {Idle}]
    BY <1>1, <1>3 DEF IInv, StripeTypeOK, Delivery
  <1>6. CASE content[e].type \in Handled
    <2>1. /\ recorded' = [recorded EXCEPT ![e] = "processed"]
          /\ org' = Written(seen, new)
          /\ effects' = [effects EXCEPT ![e] = @ + 1]
          /\ overlapped' = (overlapped \/ Writers # {p})
      BY <1>6 DEF CommitDelivery
    <2>2. /\ recorded[e] = "none"
          /\ \A q \in Processes \ {p} : At(q, "claimed") => process[q].event # e
      BY <1>1, <1>6 DEF IInv, ClaimsSound, At
    <2>3. new \in Organization /\ (Agree(seen) => Agree(new))
      BY <1>1, <1>2, <1>6, EventsAgree
    <2>4. org' \in Organization /\ (seen = org => org' = new)
      BY <1>1, <2>1, <2>3, WrittenOver DEF IInv, StripeTypeOK
    <2>5. StripeTypeOK'
      <3>1. /\ recorded' \in [Events -> {"none", "ignored", "processed"}]
            /\ effects' \in [Events -> Nat]
        BY <1>1, <2>1 DEF IInv, StripeTypeOK
      <3>2. overlapped' \in BOOLEAN
        BY <2>1
      <3> QED BY <1>3, <1>5, <2>4, <3>1, <3>2 DEF IInv, StripeTypeOK
    <2>6. RowsSound'
      BY <1>1, <1>2, <1>3, <1>4, <1>6, <2>1, <2>2
      DEF IInv, StripeTypeOK, RowsSound, At
    <2>7. ClaimsSound'
      BY <1>1, <1>3, <1>4, <2>1, <2>2 DEF IInv, StripeTypeOK, ClaimsSound, At, Idle
    <2>8. ASSUME ~overlapped'
          PROVE  /\ \A q \in Processes \ {p} : ~At(q, "claimed")
                 /\ ~admin.editing
                 /\ ~overlapped
      <3>1. Writers = {p} /\ ~overlapped
        BY <2>1, <2>8
      <3> QED BY <3>1, ProcessesAssumption DEF Writers, At
    <2>9. WritersCurrent'
      BY <1>3, <1>4, <2>8 DEF WritersCurrent, At
    <2>10. StatusesAgree'
      <3>1. CASE overlapped'
        BY <3>1 DEF StatusesAgree
      <3>2. CASE ~overlapped'
        <4>1. seen = org /\ Agree(org)
          BY <1>1, <2>8, <3>2 DEF IInv, WritersCurrent, StatusesAgree, Agree, At
        <4> QED BY <2>3, <2>4, <4>1 DEF StatusesAgree, Agree
      <3> QED BY <3>1, <3>2
    <2> QED BY <2>5, <2>6, <2>7, <2>9, <2>10 DEF IInv
  <1>7. CASE content[e].type \notin Handled
    <2>1. /\ recorded' = [recorded EXCEPT ![e] = "ignored"]
          /\ UNCHANGED <<org, effects, overlapped>>
      BY <1>7 DEF CommitDelivery
    <2>2. recorded[e] # "processed"
      BY <1>1, <1>7 DEF IInv, RowsSound
    <2>3. StripeTypeOK'
      BY <1>1, <1>3, <1>5, <2>1 DEF IInv, StripeTypeOK
    <2>4. RowsSound'
      BY <1>1, <1>2, <1>3, <1>4, <1>7, <2>1, <2>2
      DEF IInv, StripeTypeOK, RowsSound, At
    <2>5. ClaimsSound'
      BY <1>1, <1>3, <1>4, <1>7, <2>1 DEF IInv, StripeTypeOK, ClaimsSound, At, Idle
    <2>6. WritersCurrent' /\ StatusesAgree'
      BY <1>3, <1>4, <2>1 DEF IInv, WritersCurrent, StatusesAgree, At
    <2> QED BY <2>3, <2>4, <2>5, <2>6 DEF IInv
  <1> QED BY <1>6, <1>7

\* A delivery that ends, by its answer or a crash, writes nothing.
LEMMA EndKeeps ==
    ASSUME IInv, NEW p \in Processes, Answer(p) \/ Crash(p)
    PROVE  IInv'
  <1> USE DEF history, bounds
  <1>1. /\ process' = [process EXCEPT ![p] = Idle]
        /\ UNCHANGED <<content, recorded, org, admin, effects, overlapped, edits>>
    BY DEF Answer, Crash
  <1>2. /\ process'[p] = Idle
        /\ \A q \in Processes \ {p} : process'[q] = process[q]
    BY <1>1 DEF IInv, StripeTypeOK
  <1>3. acknowledged' \subseteq Events
    BY DEF IInv, StripeTypeOK, Answer, Crash, Delivery, Idle
  <1>4. crashes' \in 0 .. MaxCrashes
    BY BoundsAssumption DEF IInv, StripeTypeOK, Answer, Crash
  <1>5. StripeTypeOK'
    BY <1>1, <1>3, <1>4 DEF IInv, StripeTypeOK
  <1>6. RowsSound' /\ ClaimsSound' /\ WritersCurrent' /\ StatusesAgree'
    BY <1>1, <1>2
    DEF IInv, RowsSound, ClaimsSound, WritersCurrent, StatusesAgree, At, Idle
  <1> QED BY <1>5, <1>6 DEF IInv

LEMMA EditKeeps ==
    ASSUME IInv, BeginEdit \/ \E billing \in AdminStatuses : CommitEdit(billing)
    PROVE  IInv'
  <1> USE DEF history, bounds
  <1>1. CASE BeginEdit
    <2>1. admin' \in [editing : {TRUE}, seen : Organization] \cup {NotEditing}
      BY <1>1 DEF IInv, StripeTypeOK, BeginEdit
    <2>2. edits' \in 0 .. MaxEdits
      BY <1>1, BoundsAssumption DEF IInv, StripeTypeOK, BeginEdit
    <2>3. StripeTypeOK'
      BY <1>1, <2>1, <2>2 DEF IInv, StripeTypeOK, BeginEdit
    <2>4. RowsSound' /\ ClaimsSound' /\ WritersCurrent' /\ StatusesAgree'
      BY <1>1 DEF IInv, BeginEdit, RowsSound, ClaimsSound, WritersCurrent,
                  StatusesAgree, At
    <2> QED BY <2>3, <2>4 DEF IInv
  <1>2. ASSUME NEW billing \in AdminStatuses, CommitEdit(billing)
        PROVE  IInv'
    <2> DEFINE status == IF billing = "trial" THEN "trialing" ELSE billing
               new == SetStatus(admin.seen, status, billing)
    <2>1. /\ admin.editing /\ admin' = NotEditing
          /\ org' = Written(admin.seen, new)
          /\ overlapped' = (overlapped \/ Writers # {"admin"})
          /\ UNCHANGED <<content, recorded, process, acknowledged, effects,
                         crashes, edits>>
      BY <1>2 DEF CommitEdit
    <2>2. admin.seen \in Organization
      <3>1. admin # NotEditing
        BY <2>1 DEF NotEditing
      <3> QED BY <3>1 DEF IInv, StripeTypeOK
    <2>3. new \in Organization /\ Agree(new)
      BY <2>2, EditsAgree
    <2>4. org' \in Organization /\ (admin.seen = org => org' = new)
      BY <2>1, <2>2, <2>3, WrittenOver DEF IInv, StripeTypeOK
    <2> HIDE DEF new
    <2>5. overlapped' \in BOOLEAN
      BY <2>1
    <2>6. StripeTypeOK'
      BY <2>1, <2>4, <2>5 DEF IInv, StripeTypeOK
    <2>7. RowsSound' /\ ClaimsSound'
      BY <2>1 DEF IInv, RowsSound, ClaimsSound, At
    <2>8. ASSUME ~overlapped'
          PROVE  ~overlapped /\ \A q \in Processes : ~At(q, "claimed")
      <3>1. Writers = {"admin"} /\ ~overlapped
        BY <2>1, <2>8
      <3> QED BY <3>1, ProcessesAssumption DEF Writers, At
    <2>9. WritersCurrent'
      BY <2>1, <2>8 DEF WritersCurrent, At, NotEditing
    <2>10. StatusesAgree'
      <3>1. CASE overlapped'
        BY <3>1 DEF StatusesAgree
      <3>2. CASE ~overlapped'
        <4>1. admin.seen = org
          BY <2>1, <2>8, <3>2 DEF IInv, WritersCurrent
        <4> QED BY <2>3, <2>4, <4>1 DEF StatusesAgree, Agree
      <3> QED BY <3>1, <3>2
    <2> QED BY <2>6, <2>7, <2>9, <2>10 DEF IInv
  <1> QED BY <1>1, <1>2

LEMMA NextKeeps == IInv /\ [Next]_vars => IInv'
  <1> SUFFICES ASSUME IInv, [Next]_vars PROVE IInv'
    OBVIOUS
  <1>1. CASE UNCHANGED vars
    BY <1>1 DEF vars, history, bounds, IInv, StripeTypeOK, RowsSound, ClaimsSound,
                WritersCurrent, StatusesAgree, At
  <1> QED
    BY <1>1, EmitKeeps, BeginKeeps, ClaimKeeps, CommitKeeps, EndKeeps, EditKeeps
    DEF Next

\* What is assumed of every writer above holds in every reachable state.
THEOREM InvariantHolds == Spec => []IInv
  BY InitIInv, NextKeeps, PTL DEF Spec

\* However deliveries and edits overlap, the organization's two statuses agree,
\* unless two writers had read the row before either wrote it.
THEOREM StatusesAlwaysAgree == Spec => []StatusesAgree
  <1>1. IInv => StatusesAgree
    BY DEF IInv
  <1> QED BY <1>1, InvariantHolds, PTL

\* A late payment event or checkout does not revive a canceled organization.
LEMMA CancelationKept ==
    ASSUME NEW o \in Organization, NEW c \in Content, c.type \in Handled,
           c.type # "customer.subscription", o.subscription_status = "canceled"
    PROVE  ApplyEvent(o, c).subscription_status = "canceled"
  <1>1. CASE c.type = "checkout.session.completed"
    <2>1. ApplyEvent(o, c) = ApplyCheckoutSession(o, c)
      BY <1>1 DEF ApplyEvent
    <2> QED BY <2>1 DEF ApplyCheckoutSession, Link, Organization
  <1>2. CASE c.type = "invoice.payment_succeeded"
    <2>1. ApplyEvent(o, c) = ApplyPaymentSucceeded(o)
      BY <1>2 DEF ApplyEvent
    <2> QED BY <2>1 DEF ApplyPaymentSucceeded
  <1>3. CASE c.type = "invoice.payment_failed"
    <2>1. ApplyEvent(o, c) = ApplyPaymentFailed(o)
      BY <1>3 DEF ApplyEvent
    <2> QED BY <2>1 DEF ApplyPaymentFailed
  <1> QED BY <1>1, <1>2, <1>3 DEF Handled

\* Nothing but an event of a subscription, an edit or an overlap of writers
\* takes the organization out of a cancellation.
THEOREM CanceledAlwaysStays == Spec => CanceledStays
  <1> DEFINE Kept ==
        org.subscription_status = "canceled" /\ org'.subscription_status # "canceled" =>
          \/ overlapped' \/ admin.editing
          \/ \E p \in Processes :
                /\ process[p].at = "claimed" /\ process'[p].at = "committed"
                /\ content[process[p].event].type = "customer.subscription"
  <1>1. ASSUME IInv, [Next]_vars PROVE Kept
    <2>1. ASSUME NEW p \in Processes, CommitDelivery(p), ~overlapped',
                 org.subscription_status = "canceled",
                 org'.subscription_status # "canceled"
          PROVE  /\ process[p].at = "claimed" /\ process'[p].at = "committed"
                 /\ content[process[p].event].type = "customer.subscription"
      <3> DEFINE c == content[process[p].event]
                 new == ApplyEvent(process[p].seen, c)
      <3>1. process[p].at = "claimed" /\ process'[p].at = "committed"
        BY <1>1, <2>1 DEF IInv, StripeTypeOK, CommitDelivery
      <3>2. /\ process[p].event \in Events /\ process[p].seen \in Organization
            /\ process[p] # Idle
        BY <1>1, <3>1 DEF IInv, StripeTypeOK, Delivery, Idle
      <3>3. c \in Content
        BY <1>1, <3>2, EventsAssumption DEF IInv, StripeTypeOK, RowsSound
      <3>4. /\ c.type \in Handled /\ Writers = {p} /\ ~overlapped
            /\ org' = Written(process[p].seen, new)
        BY <2>1 DEF CommitDelivery, history
      <3>5. process[p].seen = org
        BY <1>1, <3>1, <3>4 DEF IInv, WritersCurrent, At
      <3>6. new \in Organization
        BY <3>2, <3>3, <3>4, EventsAgree
      <3>7. org' = new
        BY <1>1, <3>2, <3>4, <3>5, <3>6, WrittenOver DEF IInv, StripeTypeOK
      <3> QED
        BY <2>1, <3>1, <3>2, <3>3, <3>4, <3>5, <3>7, CancelationKept
    <2>2. \/ \E p \in Processes : CommitDelivery(p)
          \/ admin.editing
          \/ org' = org
      BY <1>1 DEF Next, vars, history, Emit, BeginDelivery, Claim, Answer, Crash,
                  BeginEdit, CommitEdit
    <2> QED BY <2>1, <2>2
  <1>2. IInv /\ [Next]_vars => [Kept]_vars
    BY <1>1
  <1> QED BY <1>2, InvariantHolds, PTL DEF Spec, CanceledStays

-----------------------------------------------------------------------------
(* The refinement of WebhookLedger.                                        *)

\* The events on record, as WebhookLedger sees them.
OnRecord == {e \in Events : recorded[e] # "none"}

LEMMA CommitImplements ==
    ASSUME IInv, NEW p \in Processes, CommitDelivery(p)
    PROVE  [Ledger!LedgerNext]_(Ledger!ledgerVars)
  <1> DEFINE e == process[p].event
  <1>1. e \in Events
    BY DEF IInv, StripeTypeOK, CommitDelivery, Delivery, Idle
  <1>2. acknowledged' = acknowledged
    BY DEF CommitDelivery
  <1>3. CASE content[e].type \in Handled
    <2>1. /\ recorded' = [recorded EXCEPT ![e] = "processed"]
          /\ effects' = [effects EXCEPT ![e] = @ + 1]
      BY <1>3 DEF CommitDelivery
    <2>2. recorded[e] = "none" /\ effects[e] = 0
      BY <1>1, <1>3 DEF IInv, ClaimsSound, RowsSound, At, CommitDelivery
    <2>3. OnRecord' = OnRecord \cup {e} /\ e \notin OnRecord
      BY <1>1, <2>1, <2>2 DEF IInv, StripeTypeOK, OnRecord
    <2>4. effects' = [effects EXCEPT ![e] = 1]
      BY <1>1, <2>1, <2>2 DEF IInv, StripeTypeOK
    <2> QED
      BY <1>1, <1>2, <2>3, <2>4 DEF Ledger!LedgerNext, Ledger!Record, OnRecord
  <1>4. CASE content[e].type \notin Handled
    <2>1. recorded' = [recorded EXCEPT ![e] = "ignored"] /\ effects' = effects
      BY <1>4 DEF CommitDelivery, history
    <2>2. OnRecord' = OnRecord \cup {e}
      BY <1>1, <2>1 DEF IInv, StripeTypeOK, OnRecord
    <2> QED
      BY <1>1, <1>2, <2>1, <2>2
      DEF Ledger!LedgerNext, Ledger!Record, Ledger!ledgerVars, OnRecord
  <1> QED BY <1>3, <1>4

LEMMA NextImplements ==
    IInv /\ [Next]_vars => [Ledger!LedgerNext]_(Ledger!ledgerVars)
  <1> SUFFICES ASSUME IInv, [Next]_vars
               PROVE  [Ledger!LedgerNext]_(Ledger!ledgerVars)
    OBVIOUS
  <1>1. ASSUME NEW p \in Processes, Answer(p)
        PROVE  Ledger!LedgerNext
    <2>1. /\ process[p].event \in Events
          /\ recorded[process[p].event] # "none"
      BY <1>1 DEF IInv, StripeTypeOK, RowsSound, Answer, At, Delivery, Idle
    <2> QED
      BY <1>1, <2>1 DEF Answer, history, Ledger!LedgerNext, Ledger!Acknowledge
  <1>2. CASE UNCHANGED <<recorded, effects, acknowledged>>
    BY <1>2 DEF Ledger!ledgerVars
  <1>3. \/ \E p \in Processes : CommitDelivery(p) \/ Answer(p)
        \/ UNCHANGED <<recorded, effects, acknowledged>>
    BY DEF Next, vars, history, Emit, BeginDelivery, Claim, Crash, BeginEdit, CommitEdit
  <1> QED BY <1>1, <1>2, <1>3, CommitImplements

\* The receiver keeps what WebhookLedger promises the sender, whatever is
\* delivered twice, at once, out of order or again after a crash: an event takes
\* effect once, when it is recorded, and is acknowledged only on record.
THEOREM ImplementsWebhookLedger == Spec => ImplementsLedger
  <1>1. Init => Ledger!LedgerInit
    BY DEF Init, Ledger!LedgerInit
  <1> QED
    BY <1>1, NextImplements, InvariantHolds, PTL
    DEF Spec, ImplementsLedger, Ledger!LedgerSpec

\* No event is applied twice, however often it is delivered.
THEOREM EventsAppliedOnce ==
    Spec => [](\A e \in Events : effects[e] \in {0, 1})
  <1>1. IInv => \A e \in Events : effects[e] \in {0, 1}
    BY DEF IInv, RowsSound
  <1> QED BY <1>1, InvariantHolds, PTL
=============================================================================
