----------------------------- MODULE BackOffice -----------------------------
(***************************************************************************)
(* The records that staff keep by hand: support tickets, onboarding        *)
(* checklists, customer accounts, brokers, factoring companies, the        *)
(* carrier profile, the accounting settings and the pipeline of demo       *)
(* requests.                                                               *)
(*                                                                         *)
(* The requests are those of Accounts: they read and check when they       *)
(* begin, and later commit the columns whose values differ from those they *)
(* read.  What several columns say together is decided by the request that *)
(* computed them, which may not be the last one that wrote one of them.    *)
(***************************************************************************)
EXTENDS Accounts

CONSTANTS
    Tickets, Checklists, CustomerAccounts, Brokers, FactoringCompanies,
    Carriers,    \* the slot of the organization's carrier profile
    Ledgers,     \* the slot of the organization's accounting settings
    Leads,       \* demo requests
    Texts,       \* names, codes, contacts and notes
    Statuses     \* that requests ask for

VARIABLES
    desk,   \* the committed rows
    torn    \* history: the rows whose last update had read an older row

deskVars == <<desk, torn>>

-----------------------------------------------------------------------------
Rows == UNION {Tickets, Checklists, CustomerAccounts, Brokers,
               FactoringCompanies, Carriers, Ledgers, Leads}

\* No row is in two tables.
ASSUME RowsAssumption ==
    LET tables == <<Tickets, Checklists, CustomerAccounts, Brokers,
                    FactoringCompanies, Carriers, Ledgers, Leads>>
    IN  \A j, k \in 1 .. 8 : j = k \/ tables[j] \cap tables[k] = {}

\* Rows of which the organization, or a customer account, has only one.
Slots == Checklists \cup Carriers

Text == Texts \cup {Nothing}

Ticket == [driver : Profiles \cup {Nothing},
           status : {"open", "in_progress", "pending", "resolved", "closed"},
           resolved : BOOLEAN]   \* resolved_at is given

Checklist == [status : {"not_started", "in_progress", "completed", "blocked"},
              ready : BOOLEAN,   \* go_live_ready
              completed : BOOLEAN]   \* completed_at is given

\* The code stands for the contacts, the e-mail addresses and the notes too.
CustomerAccount == [name : Texts, code : Text,
                    status : {"prospect", "onboarding", "active", "past_due",
                              "suspended", "cancelled"}]

Broker == [name : Texts, mc_number : Text]

FactoringCompany == [name : Texts, reserve : Texts]

\* address_line2 stands for the columns that may be empty.
CarrierProfile == [name : Texts, address_line2 : Text]

\* Two rows, each created by the first request that needs it.
Ledger == [category : Text, enabled : BOOLEAN \cup {Nothing}]

Lead == [status : {"new", "contacted", "scheduled", "converted", "lost"},
         notes : Text]

ASSUME NoRowAssumption ==
    /\ Nothing \notin Ticket /\ Nothing \notin Checklist
    /\ Nothing \notin CustomerAccount /\ Nothing \notin Broker
    /\ Nothing \notin FactoringCompany /\ Nothing \notin CarrierProfile
    /\ Nothing \notin Ledger /\ Nothing \notin Lead

DeskTypeOK ==
    /\ torn \subseteq Rows
    /\ \A t \in Tickets : desk[t] \in Ticket \cup {Nothing}
    /\ \A k \in Checklists : desk[k] \in Checklist \cup {Nothing}
    /\ \A a \in CustomerAccounts : desk[a] \in CustomerAccount \cup {Nothing}
    /\ \A b \in Brokers : desk[b] \in Broker \cup {Nothing}
    /\ \A f \in FactoringCompanies : desk[f] \in FactoringCompany \cup {Nothing}
    /\ \A p \in Carriers : desk[p] \in CarrierProfile \cup {Nothing}
    /\ \A l \in Ledgers : desk[l] \in Ledger
    /\ \A d \in Leads : desk[d] \in Lead \cup {Nothing}

Exists(row) == desk[row] # Nothing

\* What a request can ask for: some of the columns of such a row.
Asks(records, columns) ==
    UNION {{[c \in some |-> record[c]] : record \in records} :
           some \in SUBSET columns}

\* What is written of a column that the client has left out, if the endpoint
\* passes it on as None.
Emptied(asked, column) ==
    [c \in DOMAIN asked \cup {column} |->
        IF c \in DOMAIN asked THEN asked[c] ELSE Nothing]

\* What a request may write that its client has not given: the dates, which
\* follow from other columns, and the columns emptied because left out.
Unasked(row, column, value) ==
    \/ row \in Tickets /\ column = "resolved"
    \/ row \in Checklists /\ column = "completed"
    \/ row \in CustomerAccounts /\ column = "code" /\ value = Nothing
    \/ row \in Carriers /\ column = "address_line2" /\ value = Nothing

\* A row to be inserted into one of `rows`.
Insert(r, rows, new) ==
    /\ Begin(r, [op |-> "insert", rows |-> rows, new |-> new])
    /\ UNCHANGED <<workspaces, account, profile, invited, confirmed, drawn,
                   doubled, interleaved, deskVars>>

\* Mutant: an update writes every column of the row, as it has read it.
MutantUpdate(r, row, new, given) ==
    /\ Exists(row)
    /\ Begin(r, [op |-> "update", row |-> row, given |-> given, stale |-> FALSE,
                 changes |-> new, absent |-> {}])
    /\ UNCHANGED <<workspaces, account, profile, invited, confirmed, drawn,
                   doubled, interleaved, deskVars>>

\* A row that is to become `new`; the client gave the columns `given`.
Update(r, row, new, given) ==
    /\ Exists(row)
    /\ LET changes == Changes(desk[row], new)
       IN  Begin(r, [op |-> "update", row |-> row, given |-> given,
                     stale |-> FALSE, changes |-> changes,
                     absent |-> {c \in DOMAIN changes :
                                     row \in Ledgers /\ desk[row][c] = Nothing}])
    /\ UNCHANGED <<workspaces, account, profile, invited, confirmed, drawn,
                   doubled, interleaved, deskVars>>

Patch(r, row, asked) ==
    Exists(row) /\ Update(r, row, Overlay(desk[row], asked), DOMAIN asked)

\* The unique constraints of the tables.
Clash(row, new) ==
    \/ \E a \in CustomerAccounts \ {row} :
         /\ row \in CustomerAccounts /\ Exists(a)
         /\ new.name = desk[a].name
            \/ (new.code = desk[a].code /\ new.code # Nothing)
    \/ \E b \in Brokers \ {row} :
         /\ row \in Brokers /\ Exists(b)
         /\ new.name = desk[b].name
         /\ new.mc_number = desk[b].mc_number /\ new.mc_number # Nothing
    \/ \E f \in FactoringCompanies \ {row} :
         /\ row \in FactoringCompanies /\ Exists(f)
         /\ new.name = desk[f].name

\* A request whose row is there already, or is not unique, is lost.
CommitInsert(r) ==
    /\ client[r].op = "insert"
    /\ \E row \in client[r].rows :
         /\ Exists(row) => row \in Slots
         /\ IF Exists(row) \/ Clash(row, client[r].new)
            THEN UNCHANGED desk
            ELSE desk' = [desk EXCEPT ![row] = client[r].new]
    /\ End(r)
    /\ UNCHANGED <<workspaces, account, profile, invited, confirmed, drawn,
                   doubled, interleaved, torn>>

\* The updates of a row that have been overtaken are noted.
CommitUpdate(r) ==
    /\ client[r].op = "update"
    /\ LET row == client[r].row
           new == Overlay(desk[row], client[r].changes)
       IN  IF \/ Clash(row, new)
              \/ \E c \in client[r].absent : desk[row][c] # Nothing
           THEN End(r) /\ UNCHANGED deskVars
           ELSE /\ desk' = [desk EXCEPT ![row] = new]
                /\ torn' = IF client[r].stale THEN torn \cup {row}
                           ELSE torn \ {row}
                /\ client' = [q \in Clients |->
                     IF q = r THEN Idle
                     ELSE IF client[q].op = "update" /\ client[q].row = row
                     THEN [client[q] EXCEPT !.stale = TRUE]
                     ELSE client[q]]
    /\ UNCHANGED <<workspaces, account, profile, invited, confirmed, drawn,
                   doubled, interleaved>>

-----------------------------------------------------------------------------
(* Support tickets.                                                        *)

CreateTicket(r, driver) ==
    Insert(r, Tickets,
           [driver |-> driver, status |-> "open", resolved |-> FALSE])

\* Mutant: a ticket that is opened again keeps the date of its resolution.
MutantDated(ticket) ==
    [ticket EXCEPT !.resolved = @ \/ ticket.status = "resolved"]

\* The date follows the status, whatever the request says about it.
Dated(ticket) == [ticket EXCEPT !.resolved = ticket.status = "resolved"]

Edited(ticket, asked) == Dated(Overlay(ticket, asked))

\* Staff see every ticket, a driver only their own.
Sees(actor, t) == Exists(t) /\ (actor # Nothing => desk[t].driver = actor)

\* A driver cannot give the ticket to another; nobody can take the driver away.
UpdateTicket(r, t, actor, asked) ==
    /\ "driver" \in DOMAIN asked =>
           asked.driver # Nothing /\ (actor # Nothing => asked.driver = actor)
    /\ Sees(actor, t)
    /\ Update(r, t, Edited(desk[t], asked), DOMAIN asked)

-----------------------------------------------------------------------------
(* Onboarding.                                                             *)

InitializeChecklist(r, k) ==
    /\ ~Exists(k)
    /\ Insert(r, {k}, [status |-> "not_started", ready |-> FALSE,
                       completed |-> FALSE])

\* Being ready to go live completes the checklist and dates it.  The date is
\* the one column that a client may leave out; it is emptied then.
Completed(checklist) ==
    IF checklist.ready
    THEN [checklist EXCEPT !.status = "completed", !.completed = TRUE]
    ELSE checklist

UpsertChecklist(r, k, asked) ==
    \/ ~Exists(k) /\ Insert(r, {k}, Completed(asked))
    \/ /\ Exists(k)
       /\ Update(r, k, Completed(asked),
                 {"status", "ready"} \cup {c \in {"completed"} : asked.completed})

-----------------------------------------------------------------------------
(* Customer accounts.                                                      *)

\* The code's first row is the organization's own, unless another organization
\* has the code too and its row is the one that is found.
CodeTaken(code, elsewhere) ==
    /\ ~elsewhere /\ code # Nothing
    /\ \E a \in CustomerAccounts : Exists(a) /\ desk[a].code = code

CreateCustomerAccount(r, name, code, elsewhere) ==
    /\ ~CodeTaken(code, elsewhere)
    /\ Insert(r, CustomerAccounts,
              [name |-> name, code |-> code, status |-> "prospect"])

\* A code that is left out is emptied, whatever others write meanwhile; a
\* status that is left out is one that the database refuses.
UpdateCustomerAccount(r, a, asked, elsewhere) ==
    /\ "status" \in DOMAIN asked
    /\ Exists(a)
    /\ LET written == Emptied(asked, "code")
       IN  /\ written.code # desk[a].code => ~CodeTaken(written.code, elsewhere)
           /\ Update(r, a, Overlay(desk[a], written), DOMAIN asked)

-----------------------------------------------------------------------------
(* Brokers, factoring companies, and the pipeline of demo requests.        *)

CreateBroker(r, new) == Insert(r, Brokers, new)

UpdateBroker(r, b, asked) == Patch(r, b, asked)

CreateCompany(r, new) == Insert(r, FactoringCompanies, new)

UpdateCompany(r, f, asked) == Patch(r, f, asked)

ReceiveLead(r) == Insert(r, Leads, [status |-> "new", notes |-> Nothing])

UpdatePipeline(r, d, asked) == Patch(r, d, asked)

-----------------------------------------------------------------------------
(* The carrier profile.                                                    *)

\* The endpoint finds none, and the service looks again.
CreateCarrierProfile(r, p, asked) ==
    /\ ~Exists(p) /\ "name" \in DOMAIN asked
    /\ Begin(r, [op |-> "upsert", row |-> p, given |-> DOMAIN asked,
                 new |-> Emptied(asked, "address_line2")])
    /\ UNCHANGED <<workspaces, account, profile, invited, confirmed, drawn,
                   doubled, interleaved, deskVars>>

\* A profile that was committed in between is replaced.
UpsertProfile(r) ==
    /\ client[r].op = "upsert"
    /\ LET p == client[r].row
           new == client[r].new
       IN  client' = [client EXCEPT ![r] =
             IF Exists(p)
             THEN [op |-> "update", row |-> p, given |-> client[r].given,
                   stale |-> FALSE, changes |-> Changes(desk[p], new),
                   absent |-> {}]
             ELSE [op |-> "insert", rows |-> {p}, new |-> new]]
    /\ UNCHANGED <<workspaces, account, profile, invited, confirmed, drawn,
                   doubled, interleaved, deskVars>>

\* What is left out is merged from the profile that the request has read.
UpdateCarrierProfile(r, p, asked) == Patch(r, p, asked)

-----------------------------------------------------------------------------
(* Accounting settings.                                                    *)

NoLedger == [category |-> Nothing, enabled |-> Nothing]

\* The row of the connection is created with its defaults first.
UpdateAccountingSettings(r, l, asked) ==
    /\ \A c \in DOMAIN asked : asked[c] # Nothing
    /\ Patch(r, l, asked)

-----------------------------------------------------------------------------
DeskInit ==
    /\ desk = [row \in Rows |-> IF row \in Ledgers THEN NoLedger ELSE Nothing]
    /\ torn = {}

\* Rows with a status that requests ask for.
Asked(records) == {asked \in records : asked.status \in Statuses}

SupportStep(r) ==
    \/ \E driver \in Profiles \cup {Nothing} : CreateTicket(r, driver)
    \/ \E t \in Tickets, actor \in Profiles \cup {Nothing},
          asked \in Asks(Asked(Ticket), {"driver", "status"}) :
         UpdateTicket(r, t, actor, asked)

OnboardingStep(r) ==
    \E k \in Checklists :
       \/ InitializeChecklist(r, k)
       \/ \E asked \in Asked(Checklist) : UpsertChecklist(r, k, asked)

CustomerStep(r) ==
    \E elsewhere \in BOOLEAN :
       \/ \E name \in Texts, code \in Text :
            CreateCustomerAccount(r, name, code, elsewhere)
       \/ \E a \in CustomerAccounts,
             asked \in Asks(Asked(CustomerAccount), {"name", "code", "status"}) :
            UpdateCustomerAccount(r, a, asked, elsewhere)

BrokerStep(r) ==
    \/ \E new \in Broker : CreateBroker(r, new)
    \/ \E b \in Brokers, asked \in Asks(Broker, {"name", "mc_number"}) :
         UpdateBroker(r, b, asked)

FactoringStep(r) ==
    \/ \E new \in FactoringCompany : CreateCompany(r, new)
    \/ \E f \in FactoringCompanies,
          asked \in Asks(FactoringCompany, {"name", "reserve"}) :
         UpdateCompany(r, f, asked)

CarrierStep(r) ==
    \/ \E p \in Carriers, asked \in Asks(CarrierProfile, {"name", "address_line2"}) :
         CreateCarrierProfile(r, p, asked) \/ UpdateCarrierProfile(r, p, asked)
    \/ UpsertProfile(r)

AccountingStep(r) ==
    \E l \in Ledgers, asked \in Asks(Ledger, {"category", "enabled"}) :
        UpdateAccountingSettings(r, l, asked)

LeadStep(r) ==
    \/ ReceiveLead(r)
    \/ \E d \in Leads, asked \in Asks(Asked(Lead), {"status", "notes"}) :
         UpdatePipeline(r, d, asked)

DeskNext ==
    \E r \in Clients :
       \/ SupportStep(r) \/ OnboardingStep(r) \/ CustomerStep(r)
       \/ BrokerStep(r) \/ FactoringStep(r) \/ CarrierStep(r) \/ AccountingStep(r)
       \/ LeadStep(r)
       \/ CommitInsert(r) \/ CommitUpdate(r)
       \/ (Abandon(r) /\ UNCHANGED deskVars)

DeskSpec ==
    /\ AccountsInit /\ DeskInit
    /\ [][DeskNext \/ (AccountsNext /\ UNCHANGED deskVars)]_<<accountsVars, deskVars>>

-----------------------------------------------------------------------------
(* Properties.                                                             *)

\* A ticket has the date of its resolution exactly while it is resolved, and a
\* checklist that is ready to go live is completed and dated, except after an
\* update that another one had overtaken; the next update that no other
\* overtakes puts the row right (update_ticket, upsert_checklist).
RecordsAgree ==
    /\ \A t \in Tickets \ torn :
         Exists(t) => (desk[t].resolved <=> desk[t].status = "resolved")
    /\ \A k \in Checklists \ torn :
         Exists(k) /\ desk[k].ready =>
             desk[k].status = "completed" /\ desk[k].completed

\* Whatever was committed since a request began, its commit changes only the
\* columns that its client gave, the dates that follow from other columns, and
\* the columns that the endpoint empties because they were left out: those of a
\* customer account, and of a carrier profile that was to be created.  So two
\* updates of different columns keep each other's values, but for the code of
\* a customer account, which an update without it wipes even if another has
\* just committed it.
UpdatesKeepOthers ==
    [][\A r \in Clients :
         client[r].op = "update" /\ client'[r] = Idle =>
             \A row \in {row \in Rows : desk'[row] # desk[row]} :
                 /\ row = client[r].row
                 /\ \A c \in DOMAIN desk[row] :
                      desk'[row][c] # desk[row][c] =>
                          \/ c \in client[r].given
                          \/ Unasked(row, c, desk'[row][c])]_<<desk, client>>
=============================================================================
