--------------------------- MODULE LoadDocuments ---------------------------
(***************************************************************************)
(* The documents of loads: their rows, the stored files the rows refer to, *)
(* and the document flags kept on the load rows (api/v1/documents.py,      *)
(* services/documents, services/loads/packet_readiness.py).                *)
(*                                                                         *)
(* A request runs in steps between which others run: it looks up the rows  *)
(* it needs (Check...), an upload saves its file (SaveFile), the session   *)
(* writes the document row and computes the load's flags from what it can  *)
(* see (Write...), and the session commits (Commit...) or is rolled back   *)
(* (Fail..., EndWithoutCommit).                                            *)
(* A written row is locked until then.  The flags written are those that   *)
(* Write computed: the update of the load row waits for other sessions,    *)
(* but its values do not change while it waits.                            *)
(***************************************************************************)
EXTENDS Naturals, FiniteSets

CONSTANTS
    Requests,   \* the requests that can be in flight at once
    Loads,
    Documents,  \* identifiers of document rows
    Keys,       \* storage keys; a new file gets one that nothing refers to
    Types,      \* the document types that occur
    Operations, \* the endpoints that clients call
    None        \* no load, document or key

DocumentType ==
    {"rate_confirmation", "bill_of_lading", "proof_of_delivery", "invoice",
     "other"}

Endpoint == {"upload", "driver_upload", "delete", "update", "link", "patch",
             "mark_sent"}

ASSUME TypesAssumption == Types \subseteq DocumentType /\ Types # {}
ASSUME OperationsAssumption == Operations \subseteq Endpoint
ASSUME NoneAssumption ==
    None \notin Loads /\ None \notin Documents /\ None \notin Keys

VARIABLES
    live,      \* the committed document rows
    row,       \* their columns
    files,     \* the keys of the files in storage
    flags,     \* the document flags on each load row
    deferred,  \* files that a background task is about to delete
    task       \* what each request has read, written and not yet committed

vars == <<live, row, files, flags, deferred, task>>

-----------------------------------------------------------------------------
FlagNames == {"has_ratecon", "has_bol", "has_invoice", "documents_complete"}

\* The flag columns a session has changed, with their new values.
FlagUpdate == UNION {[S -> BOOLEAN] : S \in SUBSET FlagNames}

Row == [load : Loads \cup {None}, type : Types, key : Keys \cup {None}]

\* The columns of a row that does not exist.
NoRow == [load |-> None, type |-> CHOOSE t \in Types : TRUE, key |-> None]

\* The steps of a request: idle, checked (rows read), saved (file stored),
\* written (row changed, not committed), dropped (old file deleted too).
Step == {"idle", "checked", "saved", "written", "dropped"}

Task == [step : Step, op : Endpoint \cup {"none"}, load : Loads \cup {None},
         type : Types \cup {"none"},
         doc : Documents \cup {None},  \* the row it works on
         old : Keys \cup {None},       \* that row's key when it was read
         key : Keys \cup {None},       \* the file it has saved
         isNew : BOOLEAN,              \* does it insert the row?
         sync : FlagUpdate]            \* the flags it will write to load

Idle == [step |-> "idle", op |-> "none", load |-> None, type |-> "none",
         doc |-> None, old |-> None, key |-> None, isNew |-> FALSE,
         sync |-> [f \in {} |-> FALSE]]

TypeOK ==
    /\ live \subseteq Documents
    /\ row \in [Documents -> Row]
    /\ files \subseteq Keys
    /\ flags \in [Loads -> [FlagNames -> BOOLEAN]]
    /\ deferred \subseteq Keys
    /\ task \in [Requests -> Task]

-----------------------------------------------------------------------------
(* Readiness (services/loads/packet_readiness.py).                         *)

SubmissionRequired == {"rate_confirmation", "proof_of_delivery", "invoice"}

\* The document types that each column of a load row asks for.
FlagNeeds == [has_ratecon |-> {"rate_confirmation"},
              has_bol |-> {"bill_of_lading"}, has_invoice |-> {"invoice"},
              documents_complete |-> SubmissionRequired]

\* calculate_packet_readiness and the four columns that
\* sync_load_document_readiness derives from it.
Readiness(present) == [f \in FlagNames |-> FlagNeeds[f] \subseteq present]

\* get_load_document_types_from_table
TypesOn(load, docs, rows) ==
    {rows[d].type : d \in {e \in docs : rows[e].load = load}}

\* The columns of update that a load row gets when the session commits.
Overlay(update, old) ==
    [f \in FlagNames |-> IF f \in DOMAIN update THEN update[f] ELSE old[f]]

-----------------------------------------------------------------------------
(* Lookups: the first step of each request.                                *)

Required == {"rate_confirmation", "bill_of_lading", "proof_of_delivery",
             "invoice"}

\* Mutant: invoices are left to the invoice workflow.
MutantSkipsInvoices(load, type) ==
    {d \in live : type \in Required \ {"invoice"} /\ load # None
                  /\ row[d].load = load /\ row[d].type = type}

\* find_required_document_for_load
ExistingRequired(load, type) ==
    {d \in live : type \in Required /\ load # None /\ row[d].load = load
                  /\ row[d].type = type}

Start(r, t) ==
    /\ task[r].step = "idle"
    /\ task' = [task EXCEPT ![r] = t]
    /\ UNCHANGED <<live, row, files, flags, deferred>>

\* A required document that exists is answered with 409 unless the request
\* replaces it.
Upload(r, op, load, type, replace) ==
    LET existing == ExistingRequired(load, type)
    IN  /\ op \in Operations
        /\ existing # {} => replace
        /\ \E d \in IF existing = {} THEN {None} ELSE existing :
             Start(r, [Idle EXCEPT !.step = "checked", !.op = op,
                                   !.load = load, !.type = type, !.doc = d,
                                   !.old = IF d = None THEN None
                                           ELSE row[d].key,
                                   !.isNew = (d = None)])

\* POST /documents/upload
CheckUpload(r, load, type, replace) == Upload(r, "upload", load, type, replace)

\* POST /driver/documents/upload, for a load of the driver's own
CheckDriverUpload(r, load, type, replace) ==
    Upload(r, "driver_upload", load, type, replace)

Change(r, op, doc, type, load) ==
    /\ op \in Operations
    /\ doc \in live
    /\ Start(r, [Idle EXCEPT !.step = "checked", !.op = op, !.doc = doc,
                             !.old = row[doc].key, !.type = type,
                             !.load = load])

\* DELETE /documents/{id}: invoices are left to the invoice workflow.
CheckDelete(r, doc) ==
    /\ row[doc].type # "invoice"
    /\ Change(r, "delete", doc, row[doc].type, row[doc].load)

\* PATCH /documents/{id}
CheckUpdate(r, doc, type) == Change(r, "update", doc, type, row[doc].load)

\* POST /documents/{id}/link
CheckLink(r, doc, load) == Change(r, "link", doc, row[doc].type, load)

\* StorageService.save_file, awaited while other requests run.
InUse == files \cup deferred \cup {row[d].key : d \in live}
         \cup UNION {{task[r].key, task[r].old} : r \in Requests}

SaveFile(r, key) ==
    /\ task[r].step = "checked"
    /\ task[r].op \in {"upload", "driver_upload"}
    /\ key \in Keys \ InUse
    /\ files' = files \cup {key}
    /\ task' = [task EXCEPT ![r].step = "saved", ![r].key = key]
    /\ UNCHANGED <<live, row, flags, deferred>>

-----------------------------------------------------------------------------
(* The session's writes.                                                   *)

\* Another session has written the row and not finished.
Locked(r, doc) ==
    \E q \in Requests \ {r} :
        task[q].step \in {"written", "dropped"} /\ task[q].doc = doc

\* The rows as t's session sees and leaves them.
LiveAfter(t) ==
    IF t.op = "delete" THEN live \ {t.doc} ELSE live \cup {t.doc}

RowAfter(t) ==
    IF t.op = "delete" THEN NoRow
    ELSE [load |-> IF t.isNew \/ t.op = "link" THEN t.load ELSE row[t.doc].load,
          type |-> IF t.isNew \/ t.op = "update" THEN t.type ELSE row[t.doc].type,
          key |-> IF t.op \in {"upload", "driver_upload"} THEN t.key
                  ELSE row[t.doc].key]

\* Mutant: the types are read before the row's change is flushed.
MutantUnflushedSync(t) ==
    IF t.load = None \/ (t.op = "driver_upload" /\ ~t.isNew)
    THEN [f \in {} |-> FALSE]
    ELSE Readiness(TypesOn(t.load, live, row))

\* sync_load_document_readiness for the load the request read; a replacement
\* by the driver's endpoint leaves the flags alone.
SyncFor(t) ==
    IF t.load = None \/ (t.op = "driver_upload" /\ ~t.isNew)
    THEN [f \in {} |-> FALSE]
    ELSE Readiness(TypesOn(t.load, LiveAfter(t),
                           [row EXCEPT ![t.doc] = RowAfter(t)]))

\* The row is written and locked, and the flags are computed.
WriteRow(r, doc) ==
    LET t == [task[r] EXCEPT !.step = "written", !.doc = doc]
    IN  /\ ~Locked(r, doc)
        /\ task' = [task EXCEPT ![r] = [t EXCEPT !.sync = SyncFor(t)]]
        /\ UNCHANGED <<live, row, files, flags, deferred>>

Saved(r, op) == task[r].step = "saved" /\ task[r].op = op

\* create_document_upload_hot_path, create_document
Insert(r, doc) ==
    /\ task[r].isNew
    /\ doc \in Documents \ (live \cup {task[q].doc : q \in Requests})
    /\ WriteRow(r, doc)

\* A row that is gone cannot be changed (a failure follows).
Replace(r) == ~task[r].isNew /\ task[r].doc \in live /\ WriteRow(r, task[r].doc)

WriteUpload(r, doc) == Saved(r, "upload") /\ (Insert(r, doc) \/ Replace(r))

WriteDriverUpload(r, doc) ==
    Saved(r, "driver_upload") /\ (Insert(r, doc) \/ Replace(r))

\* A row that is gone can be deleted: no row is affected.
WriteDelete(r) ==
    /\ task[r].step = "checked" /\ task[r].op = "delete"
    /\ WriteRow(r, task[r].doc)

WriteUpdate(r) ==
    /\ task[r].step = "checked" /\ task[r].op = "update"
    /\ Replace(r)

WriteLink(r) ==
    /\ task[r].step = "checked" /\ task[r].op = "link"
    /\ Replace(r)

\* The driver's endpoint deletes the replaced file before it commits.
DropReplacedFile(r) ==
    /\ task[r].step = "written"
    /\ task[r].op = "driver_upload" /\ ~task[r].isNew
    /\ files' = files \ {task[r].old}
    /\ task' = [task EXCEPT ![r].step = "dropped"]
    /\ UNCHANGED <<live, row, flags, deferred>>

\* PATCH /loads/{id}: every flag gets the request's value, False if it has
\* none, and documents_complete the conjunction; unchanged columns are not
\* written.  mark_sent calls the same update_load with a status only.
UpdateLoad(r, op, load, given) ==
    LET has == IF op = "patch" THEN given
               ELSE [f \in FlagNames |-> flags[load][f]]
        new == [has EXCEPT !["documents_complete"] =
                             has["has_ratecon"] /\ has["has_invoice"]]
        changed == {f \in FlagNames : new[f] # flags[load][f]}
    IN  /\ op \in {"patch", "mark_sent"} \cap Operations
        /\ Start(r, [Idle EXCEPT !.step = "written", !.op = op,
                                 !.load = load,
                                 !.sync = [f \in changed |-> new[f]]])

-----------------------------------------------------------------------------
(* The end of a request.                                                   *)

\* The file whose deletion is left to a background task after the commit.
DeferredBy(t) ==
    IF t.op = "delete" \/ (t.op = "upload" /\ ~t.isNew) THEN {t.old} ELSE {}

CommitRow(r) ==
    LET t == task[r]
    IN  /\ live' = LiveAfter(t)
        /\ row' = [row EXCEPT ![t.doc] = RowAfter(t)]
        /\ flags' = IF t.load = None THEN flags
                    ELSE [flags EXCEPT ![t.load] = Overlay(t.sync, @)]
        /\ deferred' = deferred \cup DeferredBy(t)
        /\ task' = [task EXCEPT ![r] = Idle]
        /\ UNCHANGED files

Written(r, ops) == task[r].step = "written" /\ task[r].op \in ops

CommitUpload(r) == Written(r, {"upload"}) /\ CommitRow(r)

CommitDriverUpload(r) ==
    /\ \/ task[r].step = "dropped"
       \/ Written(r, {"driver_upload"}) /\ task[r].isNew
    /\ CommitRow(r)

CommitDelete(r) == Written(r, {"delete"}) /\ CommitRow(r)

CommitChange(r) == Written(r, {"update", "link"}) /\ CommitRow(r)

CommitLoad(r) ==
    /\ Written(r, {"patch", "mark_sent"})
    /\ flags' = [flags EXCEPT ![task[r].load] = Overlay(task[r].sync, @)]
    /\ task' = [task EXCEPT ![r] = Idle]
    /\ UNCHANGED <<live, row, files, deferred>>

RollBack(r) ==
    /\ task[r].step # "idle"
    /\ task' = [task EXCEPT ![r] = Idle]
    /\ UNCHANGED <<live, row, flags, deferred>>

\* Mutant: the error path deletes the file that was to be replaced as well.
MutantDropsBothFiles(r) ==
    /\ task[r].op = "upload"
    /\ files' = files \ {task[r].key, task[r].old}
    /\ RollBack(r)

\* An exception: the session is rolled back and the saved file deleted.
FailUpload(r) ==
    /\ task[r].op = "upload"
    /\ files' = files \ {task[r].key}
    /\ RollBack(r)

\* The replaced file stays deleted.
FailDriverUpload(r) ==
    /\ task[r].op = "driver_upload"
    /\ files' = files \ {task[r].key}
    /\ RollBack(r)

\* Requests without a file; an upload that fails before it has noted its
\* file's key; the process dies.
EndWithoutCommit(r) == RollBack(r) /\ UNCHANGED files

\* _run_deferred_storage_delete; the task is lost with the process.
RunDeferredDelete(key) ==
    /\ key \in deferred
    /\ files' \in {files, files \ {key}}
    /\ deferred' = deferred \ {key}
    /\ UNCHANGED <<live, row, flags, task>>

Init ==
    /\ live = {}
    /\ row = [d \in Documents |-> NoRow]
    /\ files = {}
    /\ flags = [l \in Loads |-> Readiness({})]
    /\ deferred = {}
    /\ task = [r \in Requests |-> Idle]

Next ==
    \/ \E r \in Requests :
         \/ \E load \in Loads \cup {None}, type \in Types, replace \in BOOLEAN :
              \/ CheckUpload(r, load, type, replace)
              \/ CheckDriverUpload(r, load, type, replace)
         \/ \E doc \in live : \/ CheckDelete(r, doc)
                              \/ \E type \in Types : CheckUpdate(r, doc, type)
                              \/ \E load \in Loads : CheckLink(r, doc, load)
         \/ \E key \in Keys : SaveFile(r, key)
         \/ \E doc \in Documents : WriteUpload(r, doc) \/ WriteDriverUpload(r, doc)
         \/ WriteDelete(r) \/ WriteUpdate(r) \/ WriteLink(r)
         \/ DropReplacedFile(r)
         \/ \E op \in Operations, load \in Loads,
               given \in [FlagNames -> BOOLEAN] :
                 UpdateLoad(r, op, load, given)
         \/ CommitUpload(r) \/ CommitDriverUpload(r) \/ CommitDelete(r)
         \/ CommitChange(r) \/ CommitLoad(r)
         \/ FailUpload(r) \/ FailDriverUpload(r) \/ EndWithoutCommit(r)
    \/ \E key \in Keys : RunDeferredDelete(key)

Spec == Init /\ [][Next]_vars

-----------------------------------------------------------------------------
(* Properties.                                                             *)

\* A committed document row always refers to a stored file, whatever uploads,
\* replacements and deletions overlap, fail or are cut off.
ReferencedFilesExist == \A d \in live : row[d].key \in files

\* A new row never doubles a required document: an upload finds the document
\* of that type and replaces it, or is refused.
NewRowsAreSingle ==
    \A d \in live' \ live, e \in live' :
        row'[d].load # None /\ row'[d].type \in Required /\ e # d
        => <<row'[e].load, row'[e].type>> # <<row'[d].load, row'[d].type>>

OneRequiredDocument == [][NewRowsAreSingle]_vars

\* When the types of the documents on a load change, the flags on the load row
\* become the ones that its documents give, whatever PATCH or mark_sent wrote
\* over them before.
FlagsAreRenewed ==
    \A l \in Loads :
        TypesOn(l, live', row') # TypesOn(l, live, row)
        => flags'[l] = Readiness(TypesOn(l, live', row'))

FlagsFollowDocuments == [][FlagsAreRenewed]_vars
=============================================================================
