------------------------- MODULE InvoiceGeneration -------------------------
(***************************************************************************)
(* Requests for the invoice PDF of a load (api/v1/loads.py): each reads    *)
(* the load, waits for the load's generation lock, answers with the stored *)
(* invoice or numbers the load, renders and saves a new one, and commits   *)
(* after it has released the lock.                                         *)
(*                                                                         *)
(* A load's number is a natural number, 0 when it has none, and Manual     *)
(* when a client typed one.  An invoice row is named after the request     *)
(* that inserted it; its file shows the number it was rendered with.  Of   *)
(* the order of a load's rows only the newest matters, and no row goes:    *)
(* DELETE /documents refuses invoices.  The load's row is locked from the  *)
(* first write of a transaction to its end, and its updated_at becomes the *)
(* time at which the transaction began.  Time is counted, for each load,   *)
(* in invoices received.                                                   *)
(***************************************************************************)
EXTENDS RequestLimiter, Integers, FiniteSetsExt

CONSTANTS
    Loads,       \* the loads of an organization, in the order of their creation
    PageSize,    \* how many loads one query lists: 500
    Uploads,     \* invoices that are uploaded, not generated
    MaxEvents,   \* bound on uploads, corrections, lost files, failing
                 \* handlers and restarts
    None

ASSUME LoadsAssumption ==
    /\ Loads \subseteq Nat /\ IsFiniteSet(Loads) /\ Loads \cap Requests = {}
    /\ PageSize \in Nat
ASSUME UploadsAssumption ==
    Uploads \cap Requests = {} /\ None \notin Uploads \cup Requests \cup Nat
ASSUME BoundsAssumption == MaxEvents \in Nat

VARIABLES
    number,     \* loads.invoice_number
    rows,       \* the invoice rows of each load
    newest,     \* the one with the latest received_at, or None
    file,       \* the file of each row: the number it shows, and who wrote it
    clock,      \* how many invoices of each load have been received
    received,   \* received_at of the newest
    updated,    \* loads.updated_at
    patching,   \* when the correction of the load began that goes on, or None
    request,    \* what each request has read and drafted
    lock,       \* the generation lock of each load
    rowLock,    \* who has written the load's row, and not committed
    overlapped, \* history: the requests, and the loads, that overlapped
    disturbed,  \* history: requests that failed, or whose load was edited,
                \* numbered again or said to be as old as it was
    events

history == <<overlapped, disturbed, events>>
times == <<clock, received, updated, patching>>
invoiceVars ==
    <<number, rows, newest, file, times, request, lock, rowLock, history>>
vars == <<limiterVars, invoiceVars>>

Manual == -1

Doc == Requests \cup Uploads
File == [number : Int, by : Requests \cup {None}]
NoRequest == [at |-> "none"]
Request == [at : {"read", "answering", "answered", "locked", "drafted", "ready",
                  "saved", "released"},
            load : Loads, force : BOOLEAN, number : Int, has_invoice : BOOLEAN,
            began : Nat, drafted : BOOLEAN, doc : Doc \cup {None}]

InvoicesTypeOK ==
    /\ LimiterTypeOK
    /\ number \in [Loads -> Int]
    /\ rows \in [Loads -> SUBSET Doc]
    /\ newest \in [Loads -> Doc \cup {None}]
    /\ file \in [Doc -> File \cup {None}]
    /\ clock \in [Loads -> Nat]
    /\ received \in [Loads -> Nat]
    /\ updated \in [Loads -> Nat]
    /\ patching \in [Loads -> Nat \cup {None}]
    /\ request \in [Requests -> Request \cup {NoRequest}]
    /\ lock \in [Loads -> Requests \cup {None}]
    /\ rowLock \in [Loads -> Requests \cup {None}]
    /\ overlapped \subseteq SUBSET (Requests \cup Loads)
    /\ disturbed \subseteq Requests
    /\ events \in 0 .. MaxEvents

Init ==
    /\ LimiterInit
    /\ number = [l \in Loads |-> 0]
    /\ rows = [l \in Loads |-> {}]
    /\ newest = [l \in Loads |-> None]
    /\ file = [d \in Doc |-> None]
    /\ clock = [l \in Loads |-> 0]
    /\ received = [l \in Loads |-> 0]
    /\ updated = [l \in Loads |-> 0]
    /\ patching = [l \in Loads |-> None]
    /\ request = [r \in Requests |-> NoRequest]
    /\ lock = [l \in Loads |-> None]
    /\ rowLock = [l \in Loads |-> None]
    /\ overlapped = {} /\ disturbed = {}
    /\ events = 0

Active == {r \in Requests : request[r] # NoRequest}
Event == events < MaxEvents /\ events' = events + 1

ActiveOn(l) == {r \in Active : request[r].load = l}

-----------------------------------------------------------------------------
(* download_load_invoice and _generate_and_persist_invoice_pdf             *)

\* The load is read before the lock is asked for.
ReadLoad(r, l, force) ==
    /\ stage[r] = "inside" /\ request[r] = NoRequest
    /\ request' = [request EXCEPT ![r] =
           [at |-> "read", load |-> l, force |-> force, number |-> number[l],
            has_invoice |-> newest[l] # None, began |-> clock[l],
            drafted |-> FALSE, doc |-> None]]
    /\ UNCHANGED <<limiterVars, number, rows, newest, file, times, lock, rowLock,
                   history>>

\* Mutant: an invoice that is to be replaced is not looked for.
MutantFirstInvoice(l, force) ==
    IF force THEN None ELSE newest[l]

\* _first_invoice_document: the newest row.
FirstInvoice(l, force) == newest[l]

\* _invoice_staleness, of which only the load's own reason is modelled: a change
\* of its broker, its customer, the carrier profile or another required
\* document is reported in the same way.
invoice_staleness(l) ==
    [has_invoice |-> newest[l] # None,
     is_stale |-> newest[l] # None /\ updated[l] >= received[l]]

\* _serialize_invoice_status: what a client is told of the load's invoice.
InvoiceStatus(l) ==
    [invoice_number |-> number[l],
     invoice_document |-> FirstInvoice(l, FALSE),
     has_invoice |-> invoice_staleness(l).has_invoice,
     is_stale |-> invoice_staleness(l).is_stale]

\* The lock is taken and the newest invoice looked up; when its file exists
\* and no new one was asked for, it is the answer.  A load that was read before
\* it had an invoice is flagged first.
TakeLock(r) ==
    /\ request[r].at = "read"
    /\ LET l == request[r].load
           doc == FirstInvoice(l, request[r].force)
           answer == doc # None /\ ~request[r].force /\ file[doc] # None
       IN  /\ lock[l] = None
           /\ \/ /\ answer /\ request[r].has_invoice
                 /\ request' = [request EXCEPT ![r].at = "released"]
                 /\ UNCHANGED lock
              \/ /\ answer /\ ~request[r].has_invoice
                 /\ request' = [request EXCEPT ![r].at = "answering"]
                 /\ lock' = [lock EXCEPT ![l] = r]
              \/ /\ ~answer
                 /\ request' = [request EXCEPT ![r].at = "locked", ![r].doc = doc]
                 /\ lock' = [lock EXCEPT ![l] = r]
           /\ overlapped' = overlapped \cup
                  {{r, q} : q \in {q \in ActiveOn(l) \ {r} : request[q].at = "released"}}
    /\ UNCHANGED <<limiterVars, number, rows, newest, file, times, rowLock,
                   disturbed, events>>

\* has_invoice is set, which waits for the load's row.
FlushFlag(r) ==
    /\ request[r].at = "answering"
    /\ LET l == request[r].load
       IN  /\ rowLock[l] = None
           /\ rowLock' = [rowLock EXCEPT ![l] = r]
           /\ lock' = [lock EXCEPT ![l] = None]
    /\ request' = [request EXCEPT ![r].at = "answered"]
    /\ UNCHANGED <<limiterVars, number, rows, newest, file, times, history>>

\* The newest loads, one page of them: the request for 5000 is cut to the
\* repository's largest page.
Listed == {l \in Loads : Cardinality({m \in Loads : m > l}) < PageSize}

\* One more than the largest number.  The load's own is what the request read.
NextNumber(l) ==
    1 + Max({0} \cup {number[m] : m \in {m \in Listed \ {l} : number[m] > 0}})

Drafting == {r \in Active : request[r].drafted}

\* _ensure_load_invoice_number, up to its flush.
DraftNumber(r) ==
    /\ request[r].at = "locked"
    /\ IF request[r].number # 0
       THEN /\ request' = [request EXCEPT ![r].at = "ready"]
            /\ UNCHANGED overlapped
       ELSE /\ request' = [request EXCEPT
                   ![r].at = "drafted", ![r].drafted = TRUE,
                   ![r].number = NextNumber(request[r].load)]
            /\ overlapped' = overlapped \cup
                   {{request[r].load, request[q].load} : q \in Drafting}
    /\ UNCHANGED <<limiterVars, number, rows, newest, file, times, lock, rowLock,
                   disturbed, events>>

\* The flush waits for the transaction that has written the load's row.
FlushNumber(r) ==
    /\ request[r].at = "drafted"
    /\ rowLock[request[r].load] = None
    /\ rowLock' = [rowLock EXCEPT ![request[r].load] = r]
    /\ request' = [request EXCEPT ![r].at = "ready"]
    /\ UNCHANGED <<limiterVars, number, rows, newest, file, times, lock, history>>

\* The PDF is rendered and its file written: over the old one if there is one.
SaveFile(r) ==
    /\ request[r].at = "ready"
    /\ LET doc == IF request[r].doc = None THEN r ELSE request[r].doc
       IN  /\ file' = [file EXCEPT ![doc] = [number |-> request[r].number, by |-> r]]
           /\ request' = [request EXCEPT ![r].at = "saved", ![r].doc = doc]
    /\ UNCHANGED <<limiterVars, number, rows, newest, times, lock, rowLock, history>>

\* The row is inserted or updated, the load's flags are written, and the
\* generation lock is released.
FlushDocument(r) ==
    /\ request[r].at = "saved"
    /\ LET l == request[r].load
       IN  /\ rowLock[l] \in {None, r}
           /\ rowLock' = [rowLock EXCEPT ![l] = r]
           /\ lock' = [lock EXCEPT ![l] = None]
           /\ clock' = [clock EXCEPT ![l] = @ + 1]
    /\ request' = [request EXCEPT ![r].at = "released"]
    /\ UNCHANGED <<limiterVars, number, rows, newest, file, received, updated,
                   patching, history>>

\* A row, which may be new, becomes the load's newest: it was received at time
\* t, by a transaction that began at time t0.
Receive(l, doc, t, t0) ==
    /\ rows' = [rows EXCEPT ![l] = @ \cup {doc}]
    /\ newest' = [newest EXCEPT ![l] = doc]
    /\ received' = [received EXCEPT ![l] = t]
    /\ updated' = [updated EXCEPT ![l] = t0]

\* Is a correction under way that will be older than what is received at t?
Overtaken(l, t) == patching[l] # None /\ patching[l] < t

\* Those who have read another number than n of the load, and keep it.
Misled(l, n) ==
    {q \in ActiveOn(l) : ~request[q].drafted /\ request[q].number \notin {0, n}}

\* The request that wrote the file of d, if any has.
WriterOf(d) == {r \in Requests : file[d] # None /\ file[d].by = r}

\* The answer is committed.  When the load was flagged, it was as if updated
\* before its invoice was received, whatever was corrected since.
CommitAnswer(r) ==
    /\ request[r].doc = None
    /\ LET l == request[r].load
           began == request[r].began
       IN  \/ /\ request[r].at = "released"
              /\ UNCHANGED <<updated, rowLock, disturbed>>
           \/ /\ request[r].at = "answered"
              /\ updated' = [updated EXCEPT ![l] = began]
              /\ rowLock' = [rowLock EXCEPT ![l] = None]
              /\ disturbed' = disturbed \cup
                     IF updated[l] >= received[l] /\ received[l] > began
                     THEN WriterOf(newest[l]) ELSE {}
    /\ UNCHANGED <<number, rows, newest, received>>

CommitInvoice(r) ==
    /\ request[r].doc # None
    /\ LET l == request[r].load
       IN  /\ number' = [number EXCEPT ![l] =
                  IF request[r].drafted THEN request[r].number ELSE @]
           /\ Receive(l, request[r].doc, clock[l], request[r].began)
           /\ rowLock' = [rowLock EXCEPT ![l] = None]
           /\ disturbed' = disturbed
                  \cup (IF Overtaken(l, clock[l]) THEN {r} ELSE {})
                  \cup IF request[r].drafted THEN Misled(l, request[r].number) ELSE {}

\* The handler commits and returns.
Commit(r) ==
    /\ request[r].at \in {"released", "answered"}
    /\ CommitAnswer(r) \/ CommitInvoice(r)
    /\ request' = [request EXCEPT ![r] = NoRequest]
    /\ Finish(r)
    /\ UNCHANGED <<file, clock, patching, lock, overlapped, events>>

\* Mutant: the lock is released only when the generation succeeds.
MutantWithout(locks, R) == locks

\* The locks without those of the requests R.
Without(locks, R) == [l \in Loads |-> IF locks[l] \in R THEN None ELSE locks[l]]

RollBack(r) ==
    /\ request' = [request EXCEPT ![r] = NoRequest]
    /\ lock' = Without(lock, {r})
    /\ rowLock' = [l \in Loads |-> IF rowLock[l] = r THEN None ELSE rowLock[l]]
    /\ disturbed' = disturbed \cup {r}
    /\ Finish(r)
    /\ UNCHANGED <<number, rows, newest, file, times, overlapped>>

\* A step of the handler raises: a profile that is incomplete, a storage that
\* is full, a database that is away.
Fail(r) ==
    /\ Event
    /\ r \in Active
    /\ RollBack(r)

\* The process ends and is started again.
Restart ==
    /\ Event
    /\ request' = [r \in Requests |-> NoRequest]
    /\ lock' = [l \in Loads |-> None]
    /\ rowLock' = [l \in Loads |-> None]
    /\ disturbed' = disturbed \cup Active
    /\ patching' = [l \in Loads |-> None]
    /\ RestartLimiter
    /\ UNCHANGED <<number, rows, newest, file, clock, received, updated, overlapped>>

-----------------------------------------------------------------------------
(* What other requests do to the load.  All but lost files write the       *)
(* load's row, and wait for it.                                            *)

BeginPatch(l) ==
    /\ Event
    /\ patching[l] = None
    /\ patching' = [patching EXCEPT ![l] = clock[l]]
    /\ UNCHANGED <<limiterVars, number, rows, newest, file, clock, received, updated,
                   request, lock, rowLock, overlapped, disturbed>>

\* Mutant: the update leaves updated_at as it is.
MutantCommitPatch(l, typed) ==
    /\ patching[l] # None /\ rowLock[l] = None
    /\ patching' = [patching EXCEPT ![l] = None]
    /\ number' = [number EXCEPT ![l] = typed]
    /\ disturbed' = disturbed \cup ActiveOn(l)
    /\ UNCHANGED <<limiterVars, rows, newest, file, clock, received, updated,
                   request, lock, rowLock, overlapped, events>>

\* update_load: a number that the client leaves out is cleared.
CommitPatch(l, typed) ==
    /\ patching[l] # None /\ rowLock[l] = None
    /\ patching' = [patching EXCEPT ![l] = None]
    /\ number' = [number EXCEPT ![l] = typed]
    /\ updated' = [updated EXCEPT ![l] = patching[l]]
    /\ disturbed' = disturbed \cup ActiveOn(l)
    /\ UNCHANGED <<limiterVars, rows, newest, file, clock, received, request, lock,
                   rowLock, overlapped, events>>

UploadInvoice(l, d) ==
    /\ Event
    /\ rowLock[l] = None
    /\ \A m \in Loads : d \notin rows[m]
    /\ file' = [file EXCEPT ![d] = [number |-> Manual, by |-> None]]
    /\ clock' = [clock EXCEPT ![l] = @ + 1]
    /\ Receive(l, d, clock[l] + 1, clock[l])
    /\ UNCHANGED <<limiterVars, number, patching, request, lock, rowLock, overlapped,
                   disturbed>>

LoseFile(d) ==
    /\ Event
    /\ file[d] # None
    /\ file' = [file EXCEPT ![d] = None]
    /\ UNCHANGED <<limiterVars, number, rows, newest, times, request, lock, rowLock,
                   overlapped, disturbed>>

-----------------------------------------------------------------------------
Handle(r) ==
    \/ \E l \in Loads, force \in BOOLEAN : ReadLoad(r, l, force)
    \/ TakeLock(r) \/ FlushFlag(r) \/ DraftNumber(r) \/ FlushNumber(r)
    \/ SaveFile(r) \/ FlushDocument(r) \/ Commit(r)

GoOn(r) ==
    \/ (Resume(r) \/ TimeOut(r)) /\ UNCHANGED invoiceVars
    \/ Handle(r)

Other ==
    \/ Restart
    \/ \E r \in Requests : Fail(r)
    \/ \E l \in Loads : BeginPatch(l)
    \/ \E l \in Loads, typed \in {0, Manual} : CommitPatch(l, typed)
    \/ \E l \in Loads, d \in Uploads : UploadInvoice(l, d)
    \/ \E d \in Doc : LoseFile(d)

Next ==
    \/ \E r \in Requests : Arrive(r) /\ UNCHANGED invoiceVars
    \/ \E r \in Requests : GoOn(r)
    \/ Other

\* Timers fire, granted requests and handlers run on, locks are handed over.
Fairness == \A r \in Requests : WF_vars(GoOn(r))

Spec == Init /\ [][Next]_vars /\ Fairness

-----------------------------------------------------------------------------
(* Properties.                                                             *)

\* As long as all loads fit on one page, two of them have the same generated
\* number only if both were numbered at the same time: the number is one more
\* than the largest that is committed (_ensure_load_invoice_number).
SameNumberOverlapped ==
    Listed = Loads =>
        \A l, m \in Loads :
            l # m /\ number[l] = number[m] /\ number[l] > 0 => {l, m} \in overlapped

\* A load gets a second generated invoice row only from a request that took
\* the lock after the other one had released it and before that one committed.
SecondInvoiceOverlapped ==
    \A l \in Loads : \A d, e \in rows[l] \cap Requests :
        d # e => {d, e} \in overlapped

\* Two loads never share a number, nor does a load get two generated invoices,
\* unless two requests overlapped (SameNumberOverlapped,
\* SecondInvoiceOverlapped).
DuplicatesOverlapped == SameNumberOverlapped /\ SecondInvoiceOverlapped

\* The file of the invoice that get_load_invoice_status names shows the number
\* that it tells, or it tells that the invoice is stale, unless the request
\* that wrote the file failed, or the load was edited, or an overlapping
\* request gave it another number, meanwhile, or a request that had read the
\* load before the invoice was received set its updated_at back to then.
\* (Between writing the file and committing they differ.)
NewestShowsNumber ==
    \A l \in Loads :
        \/ ~InvoiceStatus(l).has_invoice
        \/ InvoiceStatus(l).is_stale
        \/ \E r \in ActiveOn(l) : request[r].at \in {"saved", "released"}
        \/ LET pdf == file[InvoiceStatus(l).invoice_document]
           IN  \/ pdf = None \/ pdf.by = None \/ pdf.by \in disturbed
               \/ pdf.number = InvoiceStatus(l).invoice_number

\* Every request that waits for a slot or has one comes to an end: neither
\* slots, nor generation locks, nor row locks are lost, and none of those who
\* wait for them wait for one another.
RequestsEnd ==
    \A r \in Requests :
        stage[r] \in {"waiting", "granted", "inside"} ~> stage[r] \in {"refused", "ended"}
=============================================================================
