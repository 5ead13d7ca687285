# Freight Back Office OS: TLA+ verification project

Models, checks and proofs for the backend of Freight Back Office OS
(`src/backend/app`): a FastAPI application over SQLAlchemy sessions that follows
freight loads from booking to payment. Paths below are relative to
`src/backend/app` unless they start with `src/`.

1. [The system](#1-the-system)
2. [Modules and the code](#2-modules-and-the-code)
3. [Runs](#3-runs)
4. [Fairness](#4-fairness)
5. [Proofs](#5-proofs)
6. [Where the code and its claims part](#6-where-the-code-and-its-claims-part)
7. [What is not modelled](#7-what-is-not-modelled)
8. [Plan](#8-plan)

## 1. The system

Every HTTP handler opens a database session of its own (`core/database.py`),
reads rows, decides, assigns columns and commits. What makes the program
concurrent is that many handlers are in flight at once and that almost nothing
is locked: no row carries a version, no row is selected for update, and
SQLAlchemy writes exactly the columns that a session changed, over whatever the
row holds by then. `get_db` closes the session and never commits; a handler that
does not call `commit()` has changed nothing. Work after the response runs as
Starlette background tasks on a thread pool, with state in the memory of one
process.

| Component | State | Hard behaviour | Modules |
|---|---|---|---|
| Load workflow engine (`services/workflow`) | a load's status, its timestamps, `WorkflowEvent` rows | overlapping sessions that checked another status; `mark_sent`, a second writer of the status | `LoadWorkflow`, `LoadMilestones` |
| Documents and readiness (`api/v1/documents.py`, `services/documents`, `services/loads/packet_readiness.py`) | `LoadDocument` rows, stored files, flags on the load | the file is awaited between look-up and insert; file and row cannot be committed together; flags computed from what one session sees | `LoadDocuments` |
| Background jobs and extraction (`services/background`, `services/ai`) | job records in memory, a document's processing status | runs overlap, fail, are lost by a restart; one idempotency key per document; replacements that read the row and write it after their file has arrived | `DocumentExtraction` |
| Payment reconciliation (`services/payments`) | `LoadPaymentRecord`: amounts and three derived statuses | ten calls that mark, correct and dispute; corrections downwards; an endpoint that never commits | `PaymentReconciliation` |
| Reports on receivables (`services/reports`, `services/accounting`, `services/operations`) | none, read only | four computations of the same figures | `Receivables` |
| Dispatchers' queues and command center (`services/loads/operational_queue_service.py`, `services/operations`) | none, read only | judge a load by rules of their own beside the engine's | `OperationalQueue`, `CommandCenter` |
| Freight invoices (`api/v1/loads.py`) | invoice number, `Invoice` document, a lock per load | the lock is released before the commit; numbers counted from the table | `InvoiceGeneration` |
| Request concurrency limiter (`core/middleware.py`) | a semaphore per bucket | time-out while waiting; a slot handed to a waiter that is gone | `RequestLimiter` |
| Rate limiter (`core/middleware.py`) | counters in memory | rounding of the time to wait | `RateLimiter` |
| Submission packets (`services/loads/submission_packet_service.py`, `services/packet_intelligence`) | packet rows, events, references | the mail leaves before the commit; sent again after a final status | `SubmissionPackets`, `PacketAudit` |
| Follow-ups (`services/followups`) | task rows | a generation reads and commits later | `FollowUps` |
| Stripe subscriptions (`services/billing/stripe_subscription_service.py`) | webhook events, billing columns of the organization | events repeated, reordered, at once; a crash before the acknowledgement | `StripeSubscriptions`, `WebhookLedger` |
| Billing invoices, payments, dunning (`services/billing`) | invoices, payments, payment methods | several writers of one status; two roundings | `BillingAccount` |
| Service plans and subscriptions (`services/billing/subscription_service.py`) | plans, subscriptions | columns that belong together, written by different calls | `CustomerSubscriptions` |
| Notifications (`services/notifications`) | notification rows, mails that left | mail before commit; look-up without a constraint; tasks lost by a restart | `Notifications` |
| Accounts (`api/v1/auth.py`, `services/auth`, `api/v1/drivers.py`) | staff accounts, driver profiles | e-mails unique by look-up only; overlapping MFA requests | `Accounts` |
| Back office (`services/support`, `services/customers`, ...) | tickets, checklists, customer accounts, brokers, factoring companies, carrier profile, accounting settings, demo requests | updates that overlap; columns computed from others | `BackOffice` |
| Validation and review (`services/validation`, `services/review`) | `ValidationIssue` rows | two sets of rules; an open issue suppresses the next | `ReviewQueue` |
| External portal (`api/v1/portal.py`) | links, portal events | a link outlives the load's assignment; an upload awaits its file | `Portal` |
| Others | rows and adapters | | [section 7](#7-what-is-not-modelled) |

The components meet in the rows: documents decide what the workflow engine
allows, packets write the load's status, an e-mailed packet closes follow-ups,
every handler that changes a load may mail about it, extraction runs on what
uploads have committed, invoices are documents, and every request has passed the
rate limiter and a slot of the concurrency limiter. One `uvicorn` process serves
all of it (`src/render.yaml`); during a deployment two are up.

`PROJECT.json` lists each component with its status, and each hazard with its
line and the properties that address it.

## 2. Modules and the code

In all modules a handler's reads and checks are one step and its commit is
another, wherever something can come in between: another session's commit, an
`await`, a lock, a crash. What a session has staged is a record in
`session[r]`, `task[r]`, `client[r]`, `generator[g]` and so on; an update stages
the columns that differ from those it read, because that is what SQLAlchemy
writes. Where an endpoint does not commit, that is modelled too.

### LoadWorkflow (one load's lifecycle)

`load` is the committed row; a timestamp column is abstracted to whether it is
set, because the code only asks that. `docs`, `blocking` and `packet` are what
the engine reads of other tables: the required document types attached, whether
an unresolved blocking issue exists, whether a packet exists. `trail` is what is
read of the `WorkflowEvent` rows. `factored` is a history variable. Loads share
no state in this code, so the module is about one.

A handler is one action (`TransitionLoadStatus`, `DriverLoadCheckIn`,
`ApplyOperationalAction`, `UpdateLoad`, `CreateSubmissionPacket`,
`MarkSubmissionPacketSent`, `CreateDocument`, `DeleteDocument`, `ValidateLoad`,
`ResolveValidationIssue`): it reads the current rows, applies every check of the
code and leaves in `session[r]` the columns and rows that its commit will write.
`Commit` writes them over the row as it is by then, `Abandon` is a session that
ends without a commit. `ALLOWED_TRANSITIONS`, `can_transition`,
`has_factoring_path` and `TransitionPreconditions` are `state_machine.py` and
`workflow_engine.py`; `apply_status_change` is `LoadTransitionApplier`;
`update_load_status` is `LoadService.update_load` as `mark_sent` calls it: it
stamps the timestamps, but writes no event and leaves `processing_status` alone.

`LoadMilestones` is its abstract specification: submission is recorded first,
funding and payment only on a load whose submission is already committed, one at
a time, and none is erased. `LoadWorkflow` implements it under
`submitted <- load.submitted_at, funded <- load.funded_at, paid <- load.paid_at`
(`MilestonesImplemented`), which is both checked and proved.

### OperationalQueue and CommandCenter (what dispatchers are told)

Operators over the rows of `LoadWorkflow`: the queues that a load is in and
their order, the advised action, the overdue mark and the score
(`operational_queue_service.py`), and the alerts, tasks, readiness and
stalled-load lines of the command center. They have no state; their properties
are invariants of `LoadWorkflow`'s states and say that the readers judge a load
as the engine does: advice is accepted by the engine (`AdviceIsAccepted`),
every load that can only go on when somebody acts has a task
(`StuckLoadsHaveTasks`), the lists that show one load agree (`ListsAgree`), and
nothing waits for ever for want of a date (`FollowUpsComeDue`).

### LoadDocuments (rows, files and flags)

`live` and `row` are the document rows, `files` the storage, `flags` the four
flag columns of each load row, `deferred` the files that a background task is
about to delete, `task[r]` what a request has read and written. A request takes
the code's steps: `CheckUpload`, `CheckDriverUpload`, `CheckDelete`,
`CheckUpdate`, `CheckLink` (look-ups and the 409), `SaveFile`
(`await save_file`), `WriteUpload` and its siblings (the flushed row, the flags
computed from what the session sees), for drivers `DropReplacedFile`, then the
commit of its kind, a failure (`FailUpload`, `FailDriverUpload`: roll back,
delete the saved file) or `EndWithoutCommit` (the process dies). A flushed row
is locked until its session ends. `UpdateLoad` is PATCH on a load and
`mark_sent`, as far as they touch the flags. A storage key is a model value that
nothing refers to when it is chosen, which is what `uuid4` gives.

### DocumentExtraction (jobs)

`doc` is the document row (its status, the number of its file, the files whose
fields are stored, whether `ocr_completed_at` is set), `request` what each
client's request in flight has read, `pending` the uploads that have committed
and not yet enqueued, `job` the `JobRecord` of each document's idempotency key,
`tasks` the scheduled runs, `run` what each thread is doing. A first upload is
one step (`InsertDocument`), since nobody else can know the row. A replacement or a
reprocessing reads the row (`BeginEdit`) and commits later (`CommitReplace`,
`CommitReprocess`, or `Abandon`): it writes the status and the date only if they
differ from what it read. `POST /documents/{id}/extract` locks the row and
extracts in the session of its request (`BeginExtract`, `FinishExtract`), and is
the one writer of `failed` that is committed. `StartRun` and `Settle` are the
two critical sections of `InProcessJobQueue.run`; between them `Lock` and
`Extract` are the run's own session. `Crash` loses everything but the rows.
`overtaken` is a history: the documents whose replacement had read a status
that an extraction has overwritten since. The module is about
`document_upload_extraction_enabled` switched on; when it is off no job exists.

### PaymentReconciliation and Receivables (one payment record)

`record` is the row as the open session sees it, `stored` the committed row,
`told` the status in the latest answer. Each of the service's ten operations is
an action, and `compute_status`, `compute_reconciliation_status` and
`compute_factoring_status` keep the order of the code's cases. Amounts are
naturals up to a bound; fees, names, notes and dates are left out because no
status depends on them. `Respond` closes the session. As no endpoint commits,
several calls on one record only happen inside one session (`LongSessions`), as
in the unit tests and for any other caller of the service; the endpoints are
`LongSessions = FALSE`.

`Receivables` has what the money dashboard, the analytics, the command center
and the accounting export each compute from such a record and its age.

### InvoiceGeneration over RequestLimiter

`RequestLimiter` is one bucket of `RequestConcurrencyLimitMiddleware`: `stage`
is where each request is, `queue` and `free` the `asyncio.Semaphore` of
Python 3.11, whose `release` hands a slot to the first waiter, which runs on
later or times out just then (`Arrive`, `Resume`, `TimeOut`, `Finish`).
`InvoiceGeneration` EXTENDS it: its requests run behind the limiter's slots and
take the steps of the handler (`ReadLoad`, `TakeLock`, `DraftNumber`,
`FlushNumber`, `SaveFile`, `FlushDocument`, `Commit`, `Fail`; `FlushFlag` when
the stored invoice is the answer and the load was read before it had one),
between which clients correct the load and upload invoices, files are lost and
the process restarts. Of a load's invoice rows (`rows`) the code reads the
`newest` only. `rowLock` is the database's lock on the load's row. `clock`,
`received`, `updated` and `patching` are the time stamps that staleness compares:
`updated_at` is the time at which the writing transaction began
(`onupdate=func.now()`), `received_at` the time of the row; time is counted in
invoices received, which is all that the comparison tells apart. Every
step of the composition is a step of the limiter or leaves it alone
(`ImplementsLimiter`, proved).

### SubmissionPackets, PacketAudit and FollowUps (one load's packets)

`packet`, `events`, `rows`, `files` are tables and storage; `sender[s]` is what
an e-mail request has read; `mailed` what has left. The request reads
(`BeginEmail`), hands the mail to the server (`Deliver`) and commits afterwards
(`CommitEmail`), so that marking, deletion, replacement or the end of the
process come in between. `PacketAudit` is the audit before sending, a function
of the evidence it is given. `FollowUps` adds the daily generation of tasks
(`BeginGenerate`, `CommitGenerate`) and the closing of tasks by an e-mail; it is
the module that is run, since the three share a load.

### StripeSubscriptions and WebhookLedger

`process[p]` is what a server process does with an event: look it up, claim it
by inserting its row, apply it, commit, answer (`BeginDelivery`, `Claim`,
`CommitDelivery`, `Answer`). `recorded` and `org` are the rows, `content` what
Stripe has emitted, `admin` the edit that is under way. `WebhookLedger` is what a receiver promises a sender:
recorded once, effective at most once and only when recorded, acknowledged only
when recorded. `ImplementsLedger` is the refinement.

### BillingAccount and CustomerSubscriptions

Rows of one session, since no endpoint of these components commits: invoices,
payments and payment methods, dunning, in cents and with both of the code's
roundings; plans and subscriptions with the columns that a cancellation writes,
and the dashboard's figures. `Close` and `CloseSession` discard what the session
did.

### Notifications

One document, load or lead at a time: sessions that look for a row of the type,
insert one, send and set its status before the commit of the change they are
about; the background task of staff uploads; the configurations in which a mail
is skipped, fails or raises after it left. `mails`, `unsaved`, `overlaps` and
`forgotten` are histories that name the causes of a repetition.

### Accounts and BackOffice

`account` and `profile` are the rows of `staff_users` and `drivers`, keyed by
workspace and e-mail; `Login` is the look-up of `auth_service.py` with its
order of checks. `BackOffice` EXTENDS it with the other tables that staff edit:
one `Update` for all of them, which stages the changed columns, and the
computations that the services add to it (`Dated`, `Completed`, `CodeTaken`,
`Clash`). A request carries the columns that its client has `given`, apart from
those that it writes: where an endpoint passes a column that was left out as
None, `Emptied` writes that, and it does not count as given. `torn` is a history: the rows whose last update had read an older row.

### ReviewQueue

The two sets of validation rules as functions of what is known of a document,
the issues that a validation adds to those open, resolution, deletion of a
document, and what the queue and the load's page show of it.

### RateLimiter

The policy of each path and the bucket of each key, with the time left in its
window in ticks; callers that were refused wait at least as long as they were
told (`RetryAfter` is the code's rounding).

### Portal

Links with what they allow and when they expire, the load's assignment that a
link is compared with, document rows, and the audit events of the portal. An
upload awaits its file between the check and the commit.

### MC modules and mutants

An `MC` module extends a module with what TLC needs to run it: symmetry sets,
constant values that a .cfg cannot write, and for `MCLoadDocuments`, `MCMoney`,
`MCBackground` and `MCWorkspace` a variable that chooses at the start which part
of the endpoints a behaviour is about, so that one run explores several
workloads that have nothing to do with one another. Operators called `Mutant...` are plausible bugs
of the definition that follows them; each property is known to fail when its
mutant takes that definition's place.

## 3. Runs

| Run | Properties | Shows |
|---|---|---|
| `load_serial` (48 000 states) | `TrailMatchesStatus`, `SubmissionHasDocuments`, `AdviceIsAccepted`, `StuckLoadsHaveTasks`, `ListsAgree` | one request at a time, the engine the only writer, all 16 statuses, all three required documents: the latest event names the load's status, no submission without its documents, and dispatchers are told what the engine will do |
| `load_concurrent` (912 000) | `MilestonesRecorded`, `FollowUpsComeDue`, `MilestonesImplemented` | two overlapping requests and packets marked sent at any time: the timestamps agree with the status, `LoadMilestones` is implemented, every load with a term has the date it is counted from |
| `money_calls` (417 000) | `PaidIsSettled`, `ReportsAgree`, `DashboardReserveIsOwed`, `SettledNeedsNothing`; `InvoicesBalance`, `PaidMatchesPayments` | two parts, any sequence of calls in each. A payment record: paid means received in full; the four reports agree about what is owed, overdue and held back; nobody is told to collect what is settled. Two invoices and two payments: totals balance, the status follows the balance, the amount paid is that of the payments to the cent that a rounding costs |
| `payment_answers` (violation) | `AnswersAreStored` | an endpoint's answer is not what the database holds |
| `extraction_jobs` (107 000) | `JobsSettle`, `UploadsAreTried` | one document with three uploads, reprocessing, extraction by request, deletion, failures, restarts, two threads: no job stays in processing, every driver upload is attempted unless a restart forgets it |
| `extraction_replace` (violation) | `CompletedIsExtracted` | that exception happens: a replaced file is reported as extracted and never is |
| `documents` (257 000) | `StaffKeepFiles`, `RequiredDocumentAlone`, `FlagsFollowAlone` | two overlapping staff requests, failing or cut off anywhere: no row without its file. One request at a time: no second required document, and a change of the documents renews the flags, whoever overwrote them |
| `invoice_requests` (335 000) | `SlotsConserved`, `DuplicatesOverlapped`, `NewestShowsNumber`, `RequestsEnd` | three requests, two loads, two slots, one disturbance: slots are conserved, every request ends, second invoices, equal numbers and outdated files have exactly the named causes |
| `background_work` (1 450 000) | `MailsAreComplete`, `SentDateMatchesTrail`, `TasksMatchSendings`; `CompletedUnlessOvertaken` | two parts. Two packets, an e-mail, a generation and any three edits: a mail carries every required type, the audit foretells which mail can leave, dates agree with the trail, one open task per packet and only after a sending. One document, two overlapping requests (replacement, reprocessing, extraction, deletion), a thread, failures, restarts: a completed document has its current file's fields, unless a replacement that read it queued came after its extraction |
| `stripe_events` (138 000) | `StatusesAgree`, `ImplementsLedger`, `EventsRecorded` | two events of seven contents, redelivered to two processes, a crash, an edit: applied once, acknowledged only when recorded, all recorded in the end, the organization's two statuses agree |
| `notification_mails` (371 000) | `MailedOnce`, `UploadsAnnounced` | three overlapping sessions, every configuration, restarts: a mail is repeated only for a named cause, every staff upload is announced unless its task dies |
| `workspace` (511 000) | `MfaUsable`, `LoginFindsAccount`, `RecordsAgree`, `UpdatesKeepOthers`, `ReviewersSeeBrokenRules`, `SubscriptionsAgree`, `RetriesReachTheNextWindow`, `PortalPapersAgree` | fifteen parts, each explored by itself: accounts (second factor, drivers, workspaces), the tables of the back office, the review queue, subscriptions, the rate limiter, the portal |

State counts are of distinct states, rounded.

**Bounds and why they are enough.**

- Two requests where decisions go stale (`load_concurrent`, `documents`,
  `workspace`): a stale decision needs one session that reads and another that
  commits in between. For the load and the limiters the proofs cover any number.
  `invoice_requests` has three behind two slots, so that one waits while the
  other two meet at a lock. `load_serial` has one, since what it checks is the
  table, the preconditions and the readers.
- Loads: `load_concurrent` uses the statuses of the path through factoring and
  one required document; a second type adds no new way to be missing.
  `Days = {0, 3, 7, 10, 15}` are ages on both sides of the queue's terms (3, 7,
  10) and the command center's.
- Documents: three rows because `documents_complete` needs three types, and a
  fourth type that submission does not need. Overlapping requests have two rows
  and three keys: each request may hold a new file while a row has its own.
- Extraction: one document, as documents share nothing but threads; three
  files, so that a file is replaced while its extraction runs and again later.
  `background_work` has two requests, so that one reads before and commits after
  another, and one thread, as a request may extract too; the proof has any
  number. `extraction_jobs` has the runs of three uploads wait for two threads.
  `MaxAttempts = 2` (3 in the code): one failure that is tried again and one
  that is final.
- `MaxAmount = 2`, `Gross = 1`: amounts below, at and above what is expected and
  what is held back; the code only compares amounts, except with 1000 and 5000,
  which are the constants `ModerateBalance` and `LargeBalance`. `Ages` has an
  age in each bucket of the four reports.
- Packets: two, because a reference, a task or an e-mail may be confused with
  another packet's; three required documents and one that is not; three edits:
  one before, one during and one after a mail.
- Stripe: two events, in either order; with three the run has 4.66 million
  states and the same result.
- Billing: amounts of one to four half cents against a total of two cents pay
  nothing, less than all, exactly all and too much, and differ under the two
  roundings.
- Notifications: three sessions are two that race and one that comes later; two
  faults are a failure and a restart.
- Accounts and back office: each part of `MCWorkspace` has two overlapping
  requests. In the drivers' part the owner's e-mail is `a` and drivers claim `b`
  only, with one of the two requests about a driver; customer codes and MC
  numbers that are about to be written are never `y`, one value being enough for
  two requests to clash. The proofs have none of these bounds.
- Payment methods: one, as a method shares no column with invoices or payments;
  that there is one default method is proved for any number.
- Rate limiter: one request in three seconds of two ticks each, so that a second
  is not a multiple of the window's rest; the proof covers all other values.
- Symmetry is used on interchangeable model values, in runs without liveness
  only.

**Deadlock** is checked in every run whose clients can always ask for something
else. It is off in `extraction_jobs`, `extraction_replace`, `background_work`,
`invoice_requests`, `stripe_events`, `notification_mails` and `workspace`, where
the bounded clients run out of requests, edits or events.

Each module also has a type invariant (`...TypeOK`) and some properties that are
not in a configuration, because a theorem or a run's property implies them:
`FactoringNeedsSubmission`, `StagesNeedFactoring`, `ReconciledIsSettled`,
`NoIdleSlot`, `WaitsReachTheEnd` (proved), `CanceledStays`,
`OneDefaultMethod`, `RecordedMailsLeft`, `ReferencesDistinct`,
`SubmissionsMailedOnce`, `StatusTellsDelivery`. All hold under the bounds above.

## 4. Fairness

- `DocumentExtraction`: Starlette runs every background task that was added,
  after the response, on a thread pool that takes them in turn. Hence weak
  fairness of `Enqueue` (a deferred task or the handler's next statement), weak
  fairness of each thread's work once it has begun, and strong fairness of
  starting a document's scheduled run. A run that waits for a row lock waits for
  a session that itself ends (weak fairness of `Extract` and `FinishExtract`);
  but requests may take the lock again and again, so `Lock` has strong fairness:
  the database grants a row's lock to those who wait for it in turn. No fairness
  on uploads, their commits, reprocessing, the beginning of an extraction by
  request, deletion or `Crash`, and extraction may fail every time.
- `InvoiceGeneration`: weak fairness of `GoOn`, a request's next step once it
  has arrived, the limiter's timer among them: the event loop and the thread pool
  run what can run, and timers fire. Arrivals, failures, edits and restarts are
  not fair.
- `StripeSubscriptions`: weak fairness of what a process does with a delivery it
  has begun, and strong fairness of Stripe's redelivery of an event that is not
  acknowledged, which is what Stripe documents and the code relies on by
  answering 500. Crashes and edits are not fair.
- `Notifications`: weak fairness of each session's `Progress`, strong fairness
  of starting a deferred task (a thread that becomes free again and again does
  not pass it over for ever).

The other modules promise nothing about progress.

## 5. Proofs

Eight modules prove 60 listed theorems, for every value of the constants that
satisfies the `ASSUME`s. All invariants that passing runs check are proved, and so are the action
properties and both refinements.
The assumptions say what the code's types say: that statuses are statuses, that
identifiers of different tables differ, that the value for "nothing" is none of
the others (`NothingAssumption`, `NoRowAssumption`, `UploadsAssumption`, ...),
that bounds, days and amounts are natural numbers, and that a load's first
documents, an organization's loads and the requests at the limiter are finite
sets. Bounds of exploration (`MaxEvents`, `MaxEdits`, ...) are any natural
number. `IInv` below is a module's inductive invariant; each proof has one lemma
per action, and the theorems follow from `Init => IInv`,
`IInv /\ [Next]_vars => IInv'` and `IInv => P`.

### LoadWorkflowProofs

*Any overlapping requests* (`InvariantHolds`): `TypeCorrect`,
`MilestonesAlwaysRecorded`, `FactoringAlwaysSubmitted`,
`FollowUpsAlwaysComeDue`, and `ImplementsMilestones`, the refinement of
`LoadMilestones`. None of these is inductive: `Commit` writes a status over a
row that the session has never seen, so what is needed is a fact about the
*pending* updates. `PendingJustified` says that every staged update is justified
by the row **as it is now**: if it writes a status after submission then
`submitted_at` is set or the update sets it, if it funds then the submission is
committed and it does nothing else, and so on. It survives the commits of others
because no update clears a timestamp, which is the one fact that makes the
missing locks harmless here. `HistorySound` ties events and status to the
history variable that stands for `_has_factoring_path`. For the refinement every
handler is a stutter and a commit a stutter or exactly one step of the abstract
specification (`CommitImplements`).

*One request at a time, and no packet that `mark_sent` submits* (`EngineOnly`,
which is `load_serial`'s setting and is a hypothesis because section 6 has the
counterexamples without it): `TrailAlwaysMatches`, `SubmissionsHaveDocuments`,
`BlockingIssuesAlwaysPrevent`. `AInv` says that a staged update still describes
the state it was staged in (`Current`).

*What dispatchers are told*, on every row of the right type:
`StuckLoadsAlwaysHaveTasks`, `AdviceIsAlwaysAccepted` and `ListsAlwaysAgree`, by
cases on the status; `OverdueScore` and `OtherScores` bound the queue's score,
from which the order of its lists follows.

### LoadDocumentsProofs

`TypeCorrect` (`SInv`: types, the shape of a request's record, and that a
written row stays locked). `StaffAlwaysKeepFiles` and `OverlappingStaffKeepFiles`
(`KInv`): a staff request hands the file it read to a background task some time
after it read it, so the invariant says that no such file belongs to a row
again: keys are used once, a saved file is its request's alone, and a key that a
request has read belongs to the row it works on or to none.
`OneRequiredDocumentAlone`, `FlagsFollowDocumentsAlone`,
`RequiredDocumentStaysSingle` and `FlagsStayRenewed` are about requests that do
not overlap (`AllCurrent`: what the request has read is so).

### PaymentReconciliationProofs

`Sound(record)` ties the three statuses to the amounts, whether they were
derived or set by hand; and nothing is stored, since no endpoint commits.
`TypeCorrect`, `PaidIsAlwaysSettled`, `StagesAlwaysNeedFactoring`,
`DashboardReserveAlwaysOwed`, `ReconciledAlwaysSettled`; and, from arithmetic on
sound records of any age and amount, `ReportsAlwaysAgree` (the four reports) and
`SettledAlwaysNeedsNothing`.

### InvoiceGenerationProofs

*The limiter*: `LimiterTypeCorrect`, `SlotsAlwaysConserved`,
`NoSlotStaysIdle`, `AtMostCapacityInside`. Type correctness needs the link
between queue and stages (`QueueIsWaiting`, `QueueIsDistinct`): else a request
could be handed two slots. Slots are counted with the library's theorems about
cardinality. *The composition*: `ImplementsLimiter`,
`GenerationsConserveSlots`, `GenerationsLeaveNoSlotIdle`.

*The handler*: `GenerationsTypeCorrect`, `DuplicatesAlwaysOverlapped`,
`NewestAlwaysShowsNumber`, for any loads, requests and uploads. `HandlerInv` has
three layers. `LocksInv`: who is at which step holds the generation lock and the
row lock, a request's row is new, and the document that it works on is a row of
its load. `DuplicatesInv`: two requests that will each insert a row have
overlapped, and so have two that have drafted a number, because the larger
number was read from what was committed before. `NumbersInv`: what an
undisturbed request has read of the number is still so, a file that it has
written is its own until another writes it, and the newest file shows the number
or is stale or has a writer that goes on. It needs time: a correction that began
before an invoice was received leaves an `updated_at` that is too old to tell
(`Late`). `QuietKeeps` does the steps that leave a load alone.

### StripeSubscriptionsProofs

`IInv` says of every claimed delivery that it is the only one of its event, that
the event is not on record, and that the organization is still the one it has
seen unless writers overlapped (`ClaimsSound`, `WritersCurrent`), because what a
commit writes was decided before. `StatusesAlwaysAgree`, `CanceledAlwaysStays`,
`ImplementsWebhookLedger` (the refinement) and `EventsAppliedOnce`.

### WorkspaceProofs

Five modules that have nothing to do with one another, each with its own
specification (`PortalSpec`, `BillingSpec`, `SubscriptionsSpec`,
`ReviewSpec`, `RateSpec`); the parts of `MCWorkspace` are small instances.

- `PortalPapersAlwaysAgree`: an upload in flight has the scope of its link
  (`UploadsInScope`) whatever becomes of the load.
- `BillingTypeCorrect`, `InvoicesAlwaysBalance`, `OneDefaultMethodAlways`,
  `PaidAlwaysMatchesPayments`:
  `Balanced` ties due, paid and status of each invoice, and every call replaces
  a balanced invoice by one (`PatchedBalanced`, `PaymentBalanced`,
  `PastDueBalanced`). What the payments of an invoice add up to is a recursive
  function; that it exists and what one more payment adds is shown by the least
  counterexample (`SumsExist`, `SumGrows`), and `RoundingsDiffer` bounds what a
  payment can add to the difference.
- `SubscriptionsAlwaysAgree`: `Settled` for each subscription, `CodesDiffer`.
- `ReviewersAlwaysSee`: open issues are sound (`IssuesSound`), every broken rule
  has a blocking one (`BrokenRulesHaveIssues`), and the primary issue blocks
  exactly if one of the load's does (`PrimarySound`).
- `RetriesAlwaysReachTheNextWindow`: `WaitsReachTheEnd` is the inductive part;
  the division by ticks is bounded in `RetryAfterBounds`.

### BackOfficeProofs

`TypeCorrect`, `SecondFactorsAlwaysUsable`, `LoginsAlwaysFind`,
`RecordsAlwaysAgree`, `UpdatesAlwaysKeepOthers`. `AccountsInv` is about the
requests in flight: the columns that one will write come from a row of the right
type (`RowsSound`), what a second-factor request leaves over the row **as it is
by then** was generated and confirmed unless another overlaps (`FactorsSound`),
and an e-mail that one is about to give has no other owner unless it was claimed
twice (`ProfilesSound`). `DeskSound` says the same of the other tables, where an
update that was overtaken tears a row (`torn`). For `UpdatesAlwaysKeepOthers`
each update in flight writes only columns that its client gave, dates that
follow from others, and columns that the endpoint empties because they were left
out (`MayWrite`); the last are the property's named exception.

### BackgroundProofs

- *Packets and follow-ups*: `MailsAlwaysComplete`, `SentDatesMatchTrails`,
  `FollowUpsTypeCorrect`, `TasksAlwaysHaveSendings`. A mail on its way carries
  the required types, a packet being mailed keeps the date that its request saw,
  a generation plans tasks only for recorded sendings (`TrailInv`). The audit's
  status is a maximum over a finite set of findings, whose existence is
  `GreatestElement`. `TasksAlwaysMatchSendings` is for generations that do not
  overlap, which is its hypothesis (section 6: two of them double tasks).
- *Extraction*: `CompletedAlwaysUnlessOvertaken`, `ExtractionsNeverOverlap`, from
  the row lock that an extracting thread or request holds: one session at a time
  has it (`OneExtraction`), and as replacements wait for it, the file that is
  being extracted is the row's (`FileIsCurrent`).
- *Notifications*: `MailsLeaveOnce`, `NotificationsTypeCorrect`. `MailsInv`
  follows each mail to its row: a mail that left without an excuse has a row
  that is committed or in an open session (`RowForUnexcused`), and sessions that
  could not see each other's rows are counted as overlapping
  (`OverlapsAreLate`).

### What is only model-checked

- Liveness (`RequestsEnd`, `JobsSettle`, `UploadsAreTried`, `EventsRecorded`,
  `UploadsAnnounced`): fairness and ENABLED are out of the prover's reach.
- Properties in no configuration: of those listed at the end of section 3,
  `FactoringNeedsSubmission`, `StagesNeedFactoring`, `ReconciledIsSettled`,
  `NoIdleSlot`, `WaitsReachTheEnd`, `CanceledStays` and `OneDefaultMethod` are
  proved.

## 6. Where the code and its claims part

Two runs end in a counterexample; the findings in `PROJECT.json` quote what is
claimed.

- `payment_answers`: the payment endpoints flush and never commit.
- `extraction_replace`: a replacement reads the row while it is queued and awaits
  its file; the old file's extraction is committed; the replacement then assigns
  queued and no date, which is what it has read, so that SQLAlchemy writes
  neither. The row is completed and dated, with a file that was never extracted,
  and no later run will, since the job is completed too.

The same models show more, by a change of constants and no run of their own:

**Loads.**
- `BlockingIssuesPreventForward` fails with `Requests = {r1}`,
  `Targets = {docs_received, docs_needs_attention, invoice_ready,
  submitted_to_broker, submitted_to_factoring}`, all four destinations and
  `SubmissionRequired = {"invoice"}`: `mark_sent` sets the status around the
  engine's check. For the same reason `TrailMatchesStatus` fails with
  `Destinations = {"factoring"}`: `mark_sent` leaves no workflow event.
- With two requests a transition that was allowed when it was checked overwrites
  one that committed in between (`archived` by `docs_needs_attention`), a pair
  that the transition table forbids.
- PATCH writes the document flags the client left out as False, clears the
  invoice number (`load_service.py:217`) and the broker; the latter locks every
  portal link of that broker out.
- `loads.py:1990` passes `next_follow_up_at` and `follow_up_owner_id`, which
  `apply_operational_action` does not accept.

**Documents.**
- `OneRequiredDocument` fails with two requests, `Documents = {d1, d2}`,
  `Types = {"proof_of_delivery"}`, `Operations = {"upload"}`: nothing makes
  (load, type) unique and the file is awaited between the look-up and the
  insert. `POST /documents` and portal uploads do not look at all.
- `ReferencedFilesExist` fails with one request and
  `Operations = {"driver_upload"}`: the driver's replacement deletes the old
  file before it commits.
- `FlagsFollowDocuments` fails with two requests, as each computes the flags
  without the other's row, and with `link` on two loads, as the load that a
  document leaves keeps its flags.
- A document can stay queued for ever (`Uploaded = {d1}`, `Runners = {r1}`,
  `Clients = {c1}`, `ClientCalls = {"driver_upload"}` or `{"staff_upload"}`,
  `MaxAttempts = 3`, `MaxFiles = 2`, `MayCrash = FALSE`): the job's key names the
  document and not its file, so that a replaced file finds a completed job; the
  deferred task of a staff upload enqueues without a runner; the `failed` status
  is rolled back with a job's session. Only `POST /documents/{id}/extract`
  commits it.
- Two runs of one job may overlap, and the one that settles last decides.
- A foreign-key failure in the deferred task of an upload loses the audit event,
  the cache invalidation and the extraction job together.
- Linking a document to another customer's load keeps its customer.

**Invoices.**
- A page of loads holds 500 rows, the numbering asks for up to 5000
  (`loads.py:760`, `load_repo.py:16,97`): beyond a page numbers repeat
  (`PageSize = 1` and the condition on listed loads dropped).
- `DuplicatesOverlapped` names what else makes a second invoice or number: the
  lock is released before the commit, numbers are counted from committed rows.
- A request that only answers with the stored PDF, and had read the load before
  it had one, sets `has_invoice` (`loads.py:1439`), which moves `updated_at` to
  the time at which the request began: before the invoice was received. If the
  load was corrected in between, its invoice is from then on not reported stale.
  `NewestShowsNumber` fails with `WriterOf(d) == {}`, that is, without this
  exception.
- With four requests, two that overlapped on one load give it a number twice: a
  third that had read the first number renders it into a PDF that is not
  reported stale (the exception `Misled`).

**Payments and billing.**
- In a session that has marked a short payment, `mark_paid` leaves the status
  `short_paid`.
- The second customer's first billing invoice is always refused: numbers start
  again for each customer (`invoice_service.py:325-337`) and are unique for the
  organization (`billing_invoice.py:27-32`). Amounts are rounded half-even in
  one place and half-up in another; an amount that rounds to nothing is refused
  after its payment was flushed; `mark_failed` leaves the amount on the invoice;
  a void invoice can be paid. None of these endpoints commits, nor do those of
  service plans, subscriptions, referrals, follow-ups, `staff_users` and
  `POST /organizations`.
- PATCH on a subscription passes every column: leaving out `starts_at` fails,
  leaving out `ends_at`, `cancelled_at` or notes clears them. Canceling before
  the start gives a period that ends before it starts. Nothing acts on
  `cancel_at_period_end`. Plans that are inactive can be subscribed to. MRR uses
  the plan's present price whatever the cycle.
- Late events of an old Stripe subscription overwrite the status of the new one.

**Reports.**
- The analytics count factored revenue by status, the dashboard by flag;
  `unpaid_count` counts partially paid records received in full; the payments
  export leaves out records received in full without `paid_date` and counts age
  from other dates; "overdue" is any age in one report and 30 days in the
  others; the export falls back to the gross amount when 0 is expected and
  subtracts a released reserve twice; `total_outstanding` nets overpayments.
- A fresh short-paid direct load is "high" in the analytics and "info" in the
  collections; an urgent collection may be a "medium" invoice risk; alerts about
  a failed reconciliation have no task when nothing is outstanding.
- `missing_documents` precedes `ready_to_invoice` in `QUEUE_ORDER`, so that no
  load is ever primarily ready to invoice; `submit_to_factoring` is never
  advised; the queue ignores blocking issues; a resubmitted load is overdue at
  once, because `submitted_at` is not renewed. The list with `?queue=`
  (`loads.py:1793-1820`) evaluates loads without their documents.
- The command center's cache fingerprint omits packets and the audit log; a
  `blocked_packet_send` alert may be critical while its only task is "info" and
  cut off by the limit of 30.

**Packets and follow-ups.**
- An e-mail sets "sent" over "accepted" and "rejected" and does not renew
  `sent_at`; acceptance does not close its follow-up tasks.
- A mail that left and was not recorded (crash) is not reported by the audit
  when the packet is sent again. The audit counts rows whether or not their file
  exists, and looks at the load only when the packet's snapshot is empty.
- With `Generators = {g1, g2}` overlapping generations double tasks.
- Audit confidence: many warnings can score below a failed audit.

**Notifications.**
- Failed and skipped mails are never retried; a second submission and a replaced
  document are never announced; a mail leaves before its commit; payment
  endpoints mail every time, since their row is rolled back; the load's status
  is passed as the previous payment status (`loads.py:1949`).

**Accounts.**
- Login without a workspace stops with an error if the password also matches a
  driver account whose profile lost the e-mail or an inactive staff account
  (`auth_service.py:144-166`). Passwords are stripped when hashed and not when
  verified (`security.py:31,42`). `invite_user` logs its audit event after its
  commit, and loses it.

**Back office and review.**
- PATCH on a customer account needs the status and clears the code, contacts and
  notes that are left out, also values that another request has committed since
  the client read them; `get_by_account_code` looks over all organizations. Overlapping PATCHes leave
  a date on an unresolved ticket until the next one; the first PATCH of
  accounting settings that overlaps another is lost; duplicates of demo requests
  are only looked up.
- `validate_load` is called by tests only, so that the queue of the running
  application is empty. An open issue suppresses a later one of its rule, also a
  more severe one, and is never refreshed; issues of a deleted document stay
  with the load and keep blocking; a missing signature blocks for the validation
  and is a warning for the packet audit. Human corrections are lost by a forced
  extraction.

**Limiters and portal.**
- The window is fixed: up to twice the maximum in one interval of its length;
  refused requests count; buckets are never evicted; `/auth/driver-login` has
  no policy.
- A document download is logged before its file is looked for, a packet
  download after the archive was built. A link made when the load had no broker
  works for any. Links cannot be revoked; an upload begun before the expiry may
  commit after it.

## 7. What is not modelled

- Of the modelled components: `auto_link_document`, creation and search of
  loads, the number uniqueness of loads; extraction switched off; fees and dates
  of payments; usage, pricing and the ledger, which are sums of rows that no
  endpoint writes; completing, snoozing and canceling follow-ups, which never
  commit; the e-mails of authentication; tokens, which are signed and carry
  their own limit; texts, paging and layout.
- In `DocumentExtraction`: the invoice documents that the program generates,
  which are filed as completed without a date and are never extracted.
- Invoices: a document whose type is changed to or from invoice, or that is
  linked to another load, and the flag `has_invoice` in a client's PATCH; an
  uploaded invoice is received when its transaction gets the load's row, not
  some moments earlier.
- `POST /documents` with a storage key that the client chooses: it is a row
  without a file of its own.
- OCR, classifier and language model: their answers are data; that they may
  raise is modelled.
- Ingestion from e-mail and WhatsApp: adapters that end in the creation of
  documents.
- Organizations and quotas: quotas only warn, and `POST /organizations` is
  rolled back by its own request.
- Exports, apart from what they count; caches, which have a time to live and
  decide nothing; storage clean-up, which lists and deletes nothing.
- Celery workers: no code of the application schedules a task; the one task
  with a body, the daily generation of follow-ups, is in `FollowUps`.
- Driver and broker insights, the assistant's wording and the activity list of
  the command center; the grouping of reports by driver, broker and lane.
- The frontend: a client of the API.

## 8. Plan

What is left, in this order:

1. The abstract specifications of the packets (mailed only when complete) and of
   the handler's locks, as refinements.
2. The creation of loads and the uniqueness of their numbers, with search.
3. Ingestion, once it keeps state of its own.
