------------------------ MODULE DocumentExtraction ------------------------
(***************************************************************************)
(* The extraction of uploaded documents (services/background,              *)
(* _queue_document_processing in api/v1/documents.py), as it is with       *)
(* document_upload_extraction_enabled on; no job exists when it is off.    *)
(* The documents are those that clients upload: the invoice that the       *)
(* program generates and files itself is not among them.                   *)
(*                                                                         *)
(* An upload commits the document row and then enqueues a job, which lives *)
(* in the memory of the process, one per document.  Only the driver's      *)
(* endpoint also schedules a run of it.  A run counts an attempt, extracts *)
(* in a database session of its own and then settles the job.  The session *)
(* updates the document row first, so the row is locked until it ends.     *)
(* POST /documents/{id}/extract extracts in the session of the request.    *)
(*                                                                         *)
(* A replacement and a reprocessing read the row, and later write only the *)
(* columns they give another value than they read: what others commit      *)
(* between the two stays in the other columns.                             *)
(***************************************************************************)
EXTENDS Naturals, FiniteSetsExt

CONSTANTS
    Uploaded,     \* the documents that clients upload
    Runners,      \* the threads that run background tasks
    Clients,      \* the requests that may be in flight at once
    ClientCalls,  \* the requests that clients make
    MaxAttempts,  \* max_attempts, 3 in enqueue_document_extraction
    MaxFiles,     \* bound: uploads and replacements, of all documents
    MayFail,      \* can the OCR, the language model or the database raise?
    MayCrash      \* can the process restart?

Uploading == {"staff_upload", "driver_upload"}
ExtractionRequest == Uploading \cup {"reprocess", "extract", "delete"}

ASSUME ClientCallsAssumption == ClientCalls \subseteq ExtractionRequest
ASSUME BoundsAssumption == MaxAttempts \in Nat \ {0} /\ MaxFiles \in Nat \ {0}
ASSUME FaultsAssumption == MayFail \in BOOLEAN /\ MayCrash \in BOOLEAN

VARIABLES
    doc,      \* the document rows
    request,  \* what each client's request is about to do
    pending,  \* per document, how many uploads have committed but not yet
              \* enqueued, with (TRUE) and without a run to follow
    job,      \* the job of each document
    tasks,    \* per document, the runs of its job that are scheduled
    run,      \* what each thread is doing
    overtaken \* history: the documents whose file was replaced, on the
              \* strength of a status queued, when they were completed
              \* already, and that were not extracted since

extractionVars == <<doc, request, pending, job, tasks, run, overtaken>>

-----------------------------------------------------------------------------
Files == 1 .. MaxFiles

Live == {"queued", "completed", "failed"}

\* A row: its processing status, its file (0 before the first), the files of
\* which extracted fields are stored, and whether ocr_completed_at is set.
\* The status in_progress is written by sessions but never committed.
DocumentRow == [status : Live \cup {"absent", "deleted"},
        file : {0} \cup Files, fields : SUBSET Files, dated : BOOLEAN]

Job == [status : {"none", "queued", "processing", "completed", "failed"},
        attempts : 0 .. MaxAttempts]

NoJob == [status |-> "none", attempts |-> 0]

\* started: the attempt is counted; extracting: the row is locked and its
\* file is known; then the session has ended, well or not, and the job is
\* still to be settled.
ThreadStep == {"idle", "started", "extracting", "succeeded", "raised"}

\* A request in flight: the columns it will write besides the file, or the
\* file it extracts, forced or not.
Edits == [op : Uploading \cup {"reprocess"}, doc : Uploaded,
          columns : SUBSET {"status", "dated"}]
Extractions == [op : {"extract"}, doc : Uploaded, file : {0} \cup Files,
                force : BOOLEAN]

IdleClient == [op |-> "idle"]
IdleThread == [step |-> "idle"]

ExtractionTypeOK ==
    /\ doc \in [Uploaded -> DocumentRow]
    /\ request \in [Clients -> {IdleClient} \cup Edits \cup Extractions]
    /\ pending \in [Uploaded -> [BOOLEAN -> Nat]]
    /\ job \in [Uploaded -> Job]
    /\ tasks \in [Uploaded -> Nat]
    /\ run \in [Runners -> {IdleThread}
                           \cup [step : ThreadStep \ {"idle"}, doc : Uploaded,
                                 file : {0} \cup Files]]
    /\ overtaken \subseteq Uploaded

NonePending == [d \in Uploaded |-> [runner \in BOOLEAN |-> 0]]

On(r, d, step) == run[r].step = step /\ run[r].doc = d

Thread(d, step, file) == [step |-> step, doc |-> d, file |-> file]

Extracting(c, d) == request[c].op = "extract" /\ request[c].doc = d

RowLocked(d) == \/ \E r \in Runners : On(r, d, "extracting")
                \/ \E c \in Clients : Extracting(c, d)

-----------------------------------------------------------------------------
(* Requests.                                                               *)

FilesLeft == FoldSet(LAMBDA d, sum : doc[d].file + sum, 0, Uploaded) < MaxFiles

\* A new row is inserted and committed.  The staff's endpoint leaves the
\* enqueuing to a task that cannot schedule a run (background_tasks=None).
InsertDocument(d, op) ==
    /\ op \in Uploading \cap ClientCalls
    /\ doc[d].status = "absent" /\ FilesLeft
    /\ doc' = [doc EXCEPT ![d].status = "queued", ![d].file = 1]
    /\ pending' = [pending EXCEPT ![d][op = "driver_upload"] = @ + 1]
    /\ UNCHANGED <<request, job, tasks, run, overtaken>>

\* Of the columns set to queued and, where cleared, to no date, those that
\* the session finds different in the row it reads.
Changed(d, cleared) ==
    {column \in {"status", "dated"} :
        IF column = "status" THEN doc[d].status # "queued"
        ELSE cleared /\ doc[d].dated}

\* The row is read.  A replacement then awaits the file, and clears the date;
\* POST /documents/{id}/reprocess clears it if told to.
BeginEdit(c, d, op) ==
    /\ op \in (Uploading \cup {"reprocess"}) \cap ClientCalls
    /\ request[c] = IdleClient /\ doc[d].status \in Live
    /\ \E cleared \in BOOLEAN :
         /\ op \in Uploading => cleared
         /\ request' = [request EXCEPT
                          ![c] = [op |-> op, doc |-> d,
                                  columns |-> Changed(d, cleared)]]
    /\ UNCHANGED <<doc, pending, job, tasks, run, overtaken>>

\* Mutant: a replacement keeps the status of the file it replaces.
MutantStatusKept(row, columns) ==
    [row EXCEPT !.dated = @ /\ "dated" \notin columns]

\* The UPDATE has the changed columns only.
Requeued(row, columns) ==
    [row EXCEPT !.status = IF "status" \in columns THEN "queued" ELSE @,
                !.dated = @ /\ "dated" \notin columns]

\* The request has the file in the storage, if it is an upload, and commits.
CommitReplace(c, d) ==
    /\ request[c].op \in Uploading /\ request[c].doc = d
    /\ doc[d].status \in Live /\ ~RowLocked(d) /\ FilesLeft
    /\ doc' = [doc EXCEPT ![d] = [Requeued(doc[d], request[c].columns)
                                  EXCEPT !.file = doc[d].file + 1]]
    /\ overtaken' =
         IF doc[d].status = "completed" /\ "status" \notin request[c].columns
         THEN overtaken \cup {d} ELSE overtaken
    /\ pending' = [pending EXCEPT ![d][request[c].op = "driver_upload"] = @ + 1]
    /\ request' = [request EXCEPT ![c] = IdleClient]
    /\ UNCHANGED <<job, tasks, run>>

CommitReprocess(c, d) ==
    /\ request[c].op = "reprocess" /\ request[c].doc = d
    /\ doc[d].status \in Live /\ ~RowLocked(d)
    /\ doc' = [doc EXCEPT ![d] = Requeued(@, request[c].columns)]
    /\ request' = [request EXCEPT ![c] = IdleClient]
    /\ UNCHANGED <<pending, job, tasks, run, overtaken>>

\* The file cannot be saved, the row is gone, or the commit fails.
Abandon(c) ==
    /\ request[c].op \in Uploading \cup {"reprocess"}
    /\ request' = [request EXCEPT ![c] = IdleClient]
    /\ UNCHANGED <<doc, pending, job, tasks, run, overtaken>>

\* POST /documents/{id}/extract marks the row in_progress, which locks it.
BeginExtract(c, d) ==
    /\ "extract" \in ClientCalls
    /\ request[c] = IdleClient
    /\ doc[d].status \in Live /\ ~RowLocked(d)
    /\ \E force \in BOOLEAN :
         request' = [request EXCEPT
                       ![c] = [op |-> "extract", doc |-> d,
                               file |-> doc[d].file, force |-> force]]
    /\ UNCHANGED <<doc, pending, job, tasks, run, overtaken>>

\* extract_document completes the row; or it raises, before or after it has
\* added the fields, and the endpoint commits what was done and the status
\* failed; or the database fails and nothing is committed.
FinishExtract(c, d) ==
    /\ Extracting(c, d)
    /\ LET kept == IF request[c].force THEN {} ELSE doc[d].fields
           all  == kept \cup {request[c].file}
       IN  \/ /\ doc' = [doc EXCEPT ![d].status = "completed",
                                     ![d].dated = TRUE, ![d].fields = all]
              /\ overtaken' = overtaken \ {d}
           \/ /\ MayFail
              /\ \E fields \in {kept, all} :
                   doc' = [doc EXCEPT ![d].status = "failed",
                                      ![d].fields = fields]
              /\ UNCHANGED overtaken
           \/ MayFail /\ UNCHANGED <<doc, overtaken>>
    /\ request' = [request EXCEPT ![c] = IdleClient]
    /\ UNCHANGED <<pending, job, tasks, run>>

\* DELETE /documents/{id} deletes the extracted fields with the row.
Delete(d) ==
    /\ "delete" \in ClientCalls
    /\ doc[d].status \in Live
    /\ ~RowLocked(d)
    /\ doc' = [doc EXCEPT ![d].status = "deleted", ![d].fields = {}]
    /\ UNCHANGED <<request, pending, job, tasks, run, overtaken>>

-----------------------------------------------------------------------------
(* The job queue.                                                          *)

\* Mutant: no upload schedules a run.
MutantNeverScheduled(d, runner) ==
    /\ pending[d][runner] > 0
    /\ pending' = [pending EXCEPT ![d][runner] = @ - 1]
    /\ job' = [job EXCEPT ![d] = IF @.status = "none"
                                 THEN [status |-> "queued", attempts |-> 0]
                                 ELSE @]
    /\ UNCHANGED <<doc, request, tasks, run, overtaken>>

\* InProcessJobQueue.enqueue with the document's idempotency key: the job
\* that has the key, whatever its status, or a new one.  The staff's task
\* gives up if the document is gone.
Enqueue(d, runner) ==
    /\ pending[d][runner] > 0
    /\ pending' = [pending EXCEPT ![d][runner] = @ - 1]
    /\ IF ~runner /\ doc[d].status = "deleted" THEN UNCHANGED job
       ELSE job' = [job EXCEPT ![d] = IF @.status # "none" THEN @
                                      ELSE [status |-> "queued", attempts |-> 0]]
    /\ tasks' = IF runner THEN [tasks EXCEPT ![d] = @ + 1] ELSE tasks
    /\ UNCHANGED <<doc, request, run, overtaken>>

Runnable(d) == job[d].status # "completed" /\ job[d].attempts < MaxAttempts

\* The first half of InProcessJobQueue.run, under its lock.
StartRun(r, d) ==
    /\ run[r] = IdleThread /\ tasks[d] > 0
    /\ tasks' = [tasks EXCEPT ![d] = @ - 1]
    /\ IF Runnable(d)
       THEN /\ job' = [job EXCEPT ![d] = [status |-> "processing",
                                          attempts |-> @.attempts + 1]]
            /\ run' = [run EXCEPT ![r] = Thread(d, "started", 0)]
       ELSE /\ job' = [job EXCEPT ![d].status = IF @ = "completed" THEN @
                                                ELSE "failed"]
            /\ UNCHANGED run
    /\ UNCHANGED <<doc, request, pending, overtaken>>

\* get_document and mark_processing: the row is found and locked, and then
\* read with its file; or it is not found.
Lock(r, d) ==
    /\ On(r, d, "started") /\ ~RowLocked(d)
    /\ run' = [run EXCEPT ![r] = IF doc[d].status \in Live
                                 THEN Thread(d, "extracting", doc[d].file)
                                 ELSE Thread(d, "raised", 0)]
    /\ UNCHANGED <<doc, request, pending, job, tasks, overtaken>>

\* extract_document adds the file's fields and marks the row completed; or it
\* raises, and the session is rolled back, the status failed included.
Extract(r, d) ==
    /\ On(r, d, "extracting")
    /\ \/ /\ doc' = [doc EXCEPT ![d].status = "completed", ![d].dated = TRUE,
                                ![d].fields = @ \cup {run[r].file}]
          /\ run' = [run EXCEPT ![r] = Thread(d, "succeeded", 0)]
          /\ overtaken' = overtaken \ {d}
       \/ /\ MayFail
          /\ run' = [run EXCEPT ![r] = Thread(d, "raised", 0)]
          /\ UNCHANGED <<doc, overtaken>>
    /\ UNCHANGED <<request, pending, job, tasks>>

\* Mutant: the exception leaves the job's status alone.
MutantStuckProcessing(outcome, d) ==
    IF outcome = "succeeded" THEN "completed" ELSE job[d].status

Settled(outcome, d) ==
    CASE outcome = "succeeded" -> "completed"
      [] job[d].attempts >= MaxAttempts -> "failed"
      [] OTHER -> "queued"

\* The second half of InProcessJobQueue.run.
Settle(r, d) ==
    /\ \E outcome \in {"succeeded", "raised"} :
         /\ On(r, d, outcome)
         /\ job' = [job EXCEPT ![d].status = Settled(outcome, d)]
    /\ run' = [run EXCEPT ![r] = IdleThread]
    /\ UNCHANGED <<doc, request, pending, tasks, overtaken>>

\* The process restarts: only the rows survive.
Crash ==
    /\ MayCrash
    /\ request' = [c \in Clients |-> IdleClient]
    /\ pending' = NonePending
    /\ job' = [d \in Uploaded |-> NoJob]
    /\ tasks' = [d \in Uploaded |-> 0]
    /\ run' = [r \in Runners |-> IdleThread]
    /\ UNCHANGED <<doc, overtaken>>

-----------------------------------------------------------------------------
ExtractionInit ==
    /\ doc = [d \in Uploaded |-> [status |-> "absent", file |-> 0,
                                   fields |-> {}, dated |-> FALSE]]
    /\ request = [c \in Clients |-> IdleClient]
    /\ pending = NonePending
    /\ job = [d \in Uploaded |-> NoJob]
    /\ tasks = [d \in Uploaded |-> 0]
    /\ run = [r \in Runners |-> IdleThread]
    /\ overtaken = {}

RunJob(r, d) == Lock(r, d) \/ Extract(r, d) \/ Settle(r, d)

ClientStep(c, d) ==
    \/ \E op \in ClientCalls : BeginEdit(c, d, op)
    \/ CommitReplace(c, d)
    \/ CommitReprocess(c, d)
    \/ BeginExtract(c, d)
    \/ FinishExtract(c, d)

ExtractionNext ==
    \/ \E d \in Uploaded :
         \/ \E op \in ClientCalls : InsertDocument(d, op)
         \/ Delete(d)
         \/ \E c \in Clients : ClientStep(c, d)
         \/ \E runner \in BOOLEAN : Enqueue(d, runner)
         \/ \E r \in Runners : StartRun(r, d) \/ RunJob(r, d)
    \/ \E c \in Clients : Abandon(c)
    \/ Crash

\* Background tasks and threads get to run, and the database serves those who
\* wait for a row in turn; clients need not come back.
ExtractionFairness ==
    /\ \A d \in Uploaded, runner \in BOOLEAN :
         WF_extractionVars(Enqueue(d, runner))
    /\ \A d \in Uploaded :
         SF_extractionVars(\E r \in Runners : StartRun(r, d))
    /\ \A r \in Runners :
         /\ SF_extractionVars(\E d \in Uploaded : Lock(r, d))
         /\ WF_extractionVars(\E d \in Uploaded : Extract(r, d) \/ Settle(r, d))
    /\ \A c \in Clients :
         WF_extractionVars(\E d \in Uploaded : FinishExtract(c, d))

ExtractionSpec ==
    ExtractionInit /\ [][ExtractionNext]_extractionVars /\ ExtractionFairness

-----------------------------------------------------------------------------
(* Properties.                                                             *)

\* The extraction status that the API reports: a completed document without
\* a date is one that was never to be extracted.
ExtractionStatus(d) ==
    IF doc[d].status = "completed" /\ ~doc[d].dated THEN "skipped"
    ELSE doc[d].status

\* A document whose extraction the API reports as completed has the fields of
\* the file it has now.  (Not so: a replacement that read the row before its
\* extraction was committed leaves the status and the date as they are.)
CompletedIsExtracted ==
    \A d \in Uploaded :
        ExtractionStatus(d) = "completed" => doc[d].file \in doc[d].fields

\* The only way to a completed row without the fields of its file is a
\* replacement that read the status queued and was committed after an
\* extraction that it overlapped; no other order of uploads, reprocessings,
\* extractions by threads and by requests, failures and restarts leads there.
CompletedUnlessOvertaken ==
    \A d \in Uploaded :
        doc[d].status = "completed"
        => doc[d].file \in doc[d].fields \/ d \in overtaken

\* Every job that is being processed ends up completed, failed or queued.
JobsSettle ==
    \A d \in Uploaded :
        job[d].status = "processing" ~> job[d].status # "processing"

\* The job of every document that a driver has uploaded is attempted, though
\* the run waits for a thread and the document may be replaced or deleted,
\* unless a restart forgets it.
UploadsAreTried ==
    \A d \in Uploaded :
        pending[d][TRUE] > 0
        ~> \/ job[d].attempts > 0
           \/ job[d] = NoJob /\ pending[d] = NonePending[d] /\ tasks[d] = 0
=============================================================================
