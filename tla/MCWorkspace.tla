---------------------------- MODULE MCWorkspace ----------------------------
(***************************************************************************)
(* Accounts, BackOffice, ReviewQueue, CustomerSubscriptions, RateLimiter   *)
(* and Portal as TLC runs them: in each part some of the requests that can *)
(* be in flight, so that what interacts is explored with two of them.      *)
(***************************************************************************)
EXTENDS BackOffice, ReviewQueue, CustomerSubscriptions, RateLimiter, Portal, TLC

VARIABLE part   \* chosen at the start

staffVars == <<accountsVars, deskVars>>

mcVars == <<staffVars, reviewVars, subscriptionVars, rateVars, portalVars, part>>

\* Requests in flight are interchangeable, and so are the two rows of a table
\* (of all three tables at once: a part fills one of them).
Pairs == {CustomerAccounts, Brokers, FactoringCompanies}

Swapped == [row \in UNION Pairs |->
                CHOOSE other \in UNION Pairs \ {row} : {row, other} \in Pairs]

Symmetry == Permutations(Clients) \cup {Swapped}

Given == {id \in Ids : Has(id)}

FirstShipment == [customer |-> CHOOSE a \in Shippers : TRUE, broker |-> NoBrokerage]

\* What a request is about to write into a column.
Written(c, column) ==
    IF c.op = "insert" THEN {c.new[column]}
    ELSE IF c.op = "update" /\ column \in DOMAIN c.changes
    THEN {c.changes[column]}
    ELSE {}

\* What two requests of the drivers' part may overlap with.
DriverOps == {"idle", "create_driver", "update_driver"}

\* The bounds of the parts.
Allowed ==
    CASE part = "second factor" -> Cardinality(Given) <= 1
      [] part = "drivers" ->
           /\ Cardinality(workspaces) <= 1
           /\ \E r \in Clients : client[r].op \in DriverOps
           /\ \A id \in Given :
                account[id].role = (IF id[2] = "a" THEN "owner" ELSE "driver")
           /\ \A r \in Clients : Claims(client[r]) \subseteq {"b"}
      [] part = "customers" ->   \* one code, and one MC number
           \A r \in Clients : "y" \notin Written(client[r], "code")
      [] part = "brokers" ->
           \A r \in Clients : "y" \notin Written(client[r], "mc_number")
      [] part = "portal" ->   \* one of the loads changes hands at a time
           Cardinality({load \in Shipments : shipment[load] # FirstShipment}) <= 1
      [] OTHER -> TRUE

\* A document that both sets of rules find unreadable, and delivery documents
\* with and without a signature.
MCPayloads ==
    {[document_type |-> "", extracted_fields |-> "none",
      signature |-> "no_field", flaws |-> {"corrupt", "no_text"}],
     [document_type |-> "proof_of_delivery", extracted_fields |-> "all",
      signature |-> "no_field", flaws |-> {"broker_name_differs"}],
     [document_type |-> "proof_of_delivery", extracted_fields |-> "all",
      signature |-> "absent",
      flaws |-> {"broker_name_differs", "broker_email_differs"}]}

\* One request in three seconds.
MCMaxRequests == [login |-> 1, public |-> 1, billing |-> 1, upload |-> 1]

MCWindowSeconds == [login |-> 3, public |-> 1, billing |-> 1, upload |-> 1]

AccountParts == {"second factor", "drivers", "workspaces"}
DeskParts == {"support", "onboarding", "customers", "brokers", "factoring",
              "carrier", "accounting", "leads"}

AccountStep(r) ==
    \/ SignupStep(r)
    \/ part # "second factor" /\ InviteStep(r)
    \/ part = "drivers" /\ DriverStep(r)
    \/ PasswordStep(r)
    \/ part = "second factor" /\ MfaStep(r)
    \/ part = "workspaces" /\ StaffStep(r)
    \/ CommitChange(r)
    \/ Abandon(r)

DeskStep(r) ==
    \/ part = "support" /\ SupportStep(r)
    \/ part = "onboarding" /\ OnboardingStep(r)
    \/ part = "customers" /\ CustomerStep(r)
    \/ part = "brokers" /\ BrokerStep(r)
    \/ part = "factoring" /\ FactoringStep(r)
    \/ part = "carrier" /\ CarrierStep(r)
    \/ part = "accounting" /\ AccountingStep(r)
    \/ part = "leads" /\ LeadStep(r)
    \/ CommitInsert(r)
    \/ CommitUpdate(r)
    \/ Abandon(r) /\ UNCHANGED deskVars

MCInit ==
    /\ AccountsInit /\ DeskInit /\ ReviewInit /\ SubscriptionsInit
    /\ RateInit /\ PortalInit
    /\ part \in AccountParts \cup DeskParts \cup {"review", "subscriptions", "rates", "portal"}

MCNext ==
    /\ \/ /\ \E r \in Clients :
               \/ part \in AccountParts /\ AccountStep(r) /\ UNCHANGED deskVars
               \/ part \in DeskParts /\ DeskStep(r)
          /\ UNCHANGED <<reviewVars, subscriptionVars, rateVars, portalVars>>
       \/ /\ part = "review" /\ ReviewNext
          /\ UNCHANGED <<staffVars, subscriptionVars, rateVars, portalVars>>
       \/ /\ part = "subscriptions" /\ SubscriptionsNext
          /\ UNCHANGED <<staffVars, reviewVars, rateVars, portalVars>>
       \/ /\ part = "rates" /\ RateNext
          /\ UNCHANGED <<staffVars, reviewVars, subscriptionVars, portalVars>>
       \/ /\ part = "portal" /\ PortalNext
          /\ UNCHANGED <<staffVars, reviewVars, subscriptionVars, rateVars>>
    /\ UNCHANGED part
    /\ Allowed'

MCSpec == MCInit /\ [][MCNext]_mcVars
=============================================================================
