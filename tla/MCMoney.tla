------------------------------ MODULE MCMoney ------------------------------
(***************************************************************************)
(* A load's payment record with the reports on it, and the billing of an   *)
(* organization's customers, as TLC runs them.  They share no row; each is *)
(* a part that is explored by itself.                                      *)
(***************************************************************************)
EXTENDS Receivables, BillingAccount

VARIABLE part   \* chosen at the start

mcVars == <<vars, billingVars, part>>

\* Customers are interchangeable.
CustomerSymmetry == Permutations(Customers)

MCInit == Init /\ BillingInit /\ part \in {"record", "billing"}

MCNext ==
    /\ \/ part = "record" /\ Next /\ UNCHANGED billingVars
       \/ part = "billing" /\ BillingNext /\ UNCHANGED vars
    /\ UNCHANGED part

MCSpec == MCInit /\ [][MCNext]_mcVars
=============================================================================
