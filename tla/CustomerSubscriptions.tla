----------------------- MODULE CustomerSubscriptions -----------------------
(***************************************************************************)
(* The service plans of an organization and its customers' subscriptions   *)
(* to them (api/v1/service_plans.py, api/v1/subscriptions.py,              *)
(* services/billing/subscription_service.py), with the figures of the      *)
(* billing dashboard that follow from them.                                *)
(*                                                                         *)
(* None of these endpoints commits: as in BillingAccount the rows are what *)
(* one session sees, and closing it discards them.  Times are days.        *)
(***************************************************************************)
EXTENDS Integers, FiniteSetsExt, SequencesExt

CONSTANTS
    PlanCodes, Cycles,    \* of plans: the codes, and some of the billing cycles
    Prices,           \* base prices
    Days,             \* the days on which something happens
    AskedStatuses,    \* the statuses that a PATCH asks for
    MaxPlans, MaxSubscriptions,
    Undated           \* no date, or a column that a PATCH leaves out

ASSUME DaysAssumption == Days \subseteq Nat /\ Undated \notin Days

VARIABLES
    plans,          \* service_plans, in the order of their creation
    subscriptions,  \* subscriptions, in the order of their creation
    today

subscriptionVars == <<plans, subscriptions, today>>

BillingCycle == {"weekly", "monthly", "quarterly", "annual", "custom"}
SubscriptionStatus ==
    {"trialing", "active", "past_due", "cancelled", "expired", "paused"}

ASSUME PlansAssumption ==
    /\ Cycles \subseteq BillingCycle /\ Prices \subseteq Nat
    /\ AskedStatuses \subseteq SubscriptionStatus
    /\ MaxPlans \in Nat /\ MaxSubscriptions \in Nat

Plan == [code : PlanCodes, cycle : BillingCycle, price : Nat, active : BOOLEAN]

\* cycle and patched are not columns: the plan's cycle when the subscription
\* was created, and whether a PATCH has changed the subscription since.
Subscription ==
    [plan : Nat \ {0}, status : SubscriptionStatus,
     starts : Days, ends : Days \cup {Undated},
     period_start : Days, period_end : Nat,
     at_period_end : BOOLEAN, cancelled : Days \cup {Undated},
     cycle : BillingCycle, patched : BOOLEAN]

SubscriptionsTypeOK ==
    /\ plans \in Seq(Plan) /\ Len(plans) <= MaxPlans
    /\ subscriptions \in Seq(Subscription)
    /\ Len(subscriptions) <= MaxSubscriptions
    /\ today \in Days

SubscriptionsInit ==
    plans = <<>> /\ subscriptions = <<>> /\ today \in Days

\* The session ends, or one of its statements is refused by the database.
CloseSession ==
    plans' = <<>> /\ subscriptions' = <<>> /\ UNCHANGED today

Wait == \E d \in Days : d > today /\ today' = d /\ UNCHANGED <<plans, subscriptions>>

-----------------------------------------------------------------------------
(* Service plans.                                                          *)

\* get_by_code
PlanWith(code) == {k \in DOMAIN plans : plans[k].code = code}

CreatePlan(code, cycle, price, active) ==
    /\ Len(plans) < MaxPlans
    /\ PlanWith(code) = {}
    /\ plans' = Append(plans, [code |-> code, cycle |-> cycle, price |-> price,
                               active |-> active])
    /\ UNCHANGED <<subscriptions, today>>

\* A column that is left out stays.
UpdatePlan(k, code, cycle, price) ==
    /\ code # plans[k].code => PlanWith(code) = {}
    /\ plans' = [plans EXCEPT ![k].code = code, ![k].cycle = cycle,
                              ![k].price = price]
    /\ UNCHANGED <<subscriptions, today>>

-----------------------------------------------------------------------------
(* Subscriptions.                                                          *)

CycleDays == [weekly |-> 7, monthly |-> 30, quarterly |-> 90, annual |-> 365,
              custom |-> 30]

\* _calculate_period_end
PeriodEnd(start, cycle) == start + CycleDays[cycle]

\* SubscriptionService.create_subscription: the plan need not be active.
NewSubscription(k, starts) ==
    [plan |-> k, status |-> "active", starts |-> starts, ends |-> Undated,
     period_start |-> starts, period_end |-> PeriodEnd(starts, plans[k].cycle),
     at_period_end |-> FALSE, cancelled |-> Undated,
     cycle |-> plans[k].cycle, patched |-> FALSE]

CreateSubscription(k, starts) ==
    /\ Len(subscriptions) < MaxSubscriptions
    /\ subscriptions' = Append(subscriptions, NewSubscription(k, starts))
    /\ UNCHANGED <<plans, today>>

\* SubscriptionService.update_subscription: a date that is left out is cleared,
\* a status or a flag that is left out stays.
Updated(s, asked) ==
    [s EXCEPT !.status = IF asked.status = Undated THEN @ ELSE asked.status,
              !.ends = asked.ends, !.cancelled = asked.cancelled,
              !.period_end = asked.period_end, !.patched = TRUE]

\* The endpoint passes all columns, and three of the dates are NOT NULL: a client
\* that sends the end of the period sends the other two, as they were.
UpdateSubscription(i, asked) ==
    IF asked.period_end = Undated THEN CloseSession
    ELSE /\ subscriptions' = [subscriptions EXCEPT ![i] = Updated(@, asked)]
         /\ UNCHANGED <<plans, today>>

\* Mutant: the period goes on.
MutantCancelled(s, at_period_end) ==
    IF at_period_end THEN [s EXCEPT !.at_period_end = TRUE]
    ELSE [s EXCEPT !.at_period_end = FALSE, !.status = "cancelled",
                   !.cancelled = today, !.ends = today]

\* SubscriptionService.cancel_subscription: nothing looks at the flag later.
Cancelled(s, at_period_end) ==
    IF at_period_end THEN [s EXCEPT !.at_period_end = TRUE]
    ELSE [s EXCEPT !.at_period_end = FALSE, !.status = "cancelled",
                   !.cancelled = today, !.ends = today, !.period_end = today]

CancelSubscription(i, at_period_end) ==
    /\ subscriptions' = [subscriptions EXCEPT ![i] = Cancelled(@, at_period_end)]
    /\ UNCHANGED <<plans, today>>

-----------------------------------------------------------------------------
(* BillingService.get_billing_dashboard, as far as plans go.               *)

ActiveSubscriptions ==
    {i \in DOMAIN subscriptions : subscriptions[i].status = "active"}

RevenueOf(counted) ==
    MapThenSumSet(LAMBDA i : plans[subscriptions[i].plan].price, counted)

MonthlyRevenue == RevenueOf(ActiveSubscriptions)

-----------------------------------------------------------------------------
Patches ==
    [status : AskedStatuses \cup {Undated}, ends : {Undated, today},
     cancelled : {Undated, today}, period_end : {Undated, today}]

SubscriptionsNext ==
    \/ \E code \in PlanCodes, cycle \in Cycles, price \in Prices, active \in BOOLEAN :
           CreatePlan(code, cycle, price, active)
    \/ \E k \in DOMAIN plans :
          \/ \E code \in PlanCodes, cycle \in Cycles, price \in Prices :
                 UpdatePlan(k, code, cycle, price)
          \/ \E starts \in Days : CreateSubscription(k, starts)
    \/ \E i \in DOMAIN subscriptions :
          \/ \E asked \in Patches : UpdateSubscription(i, asked)
          \/ \E at_period_end \in BOOLEAN : CancelSubscription(i, at_period_end)
    \/ Wait
    \/ CloseSession

SubscriptionsSpec ==
    SubscriptionsInit /\ [][SubscriptionsNext]_subscriptionVars

-----------------------------------------------------------------------------
(* Properties.                                                             *)

\* A subscription that no PATCH has touched is cancelled in all its columns or
\* in none, its period ends with it or lasts the cycle that its plan had when
\* it was created, and the dashboard counts it, at its plan's present price,
\* until it ends: however plans, cancellations and days follow each other.  The
\* codes of the plans stay distinct (cancel_subscription, update_service_plan).
SubscriptionsAgree ==
    /\ \A i \in DOMAIN subscriptions : LET s == subscriptions[i] IN
         ~s.patched =>
            /\ s.status = "cancelled" <=> s.cancelled # Undated
            /\ s.ends = s.cancelled
            /\ s.period_end = IF s.ends # Undated THEN s.ends
                              ELSE PeriodEnd(s.starts, s.cycle)
    /\ \A j, k \in DOMAIN plans : plans[j].code = plans[k].code => j = k
    /\ (\A i \in DOMAIN subscriptions : ~subscriptions[i].patched) =>
           MonthlyRevenue = RevenueOf(
               {i \in DOMAIN subscriptions : subscriptions[i].ends = Undated})
=============================================================================
