--------------------------- MODULE Notifications ---------------------------
(***************************************************************************)
(* The e-mails about uploads, status changes, payments and demo requests   *)
(* (services/notifications) and the handlers that have them sent.          *)
(*                                                                         *)
(* A notification row is looked for, inserted, its mail sent and its       *)
(* status written in the session of the change that it is about, before    *)
(* that session commits.  Only the staff's uploads commit first and leave  *)
(* the mail to a background task.  A row of the same type, recipient and   *)
(* subject, whatever its status, means that nothing is sent again.         *)
(*                                                                         *)
(* Mails about different documents, loads and leads have nothing to do     *)
(* with one another, so a behaviour is about one of them.  It has one      *)
(* driver; the demo requests of a lead fall into one duplicate window.     *)
(***************************************************************************)
EXTENDS Naturals, Sequences, Bags, FiniteSets

CONSTANTS
    MaxOpen,     \* bound: requests and background tasks open at once
    PaymentMails, \* the types of mail that a change of payment causes
    Settings,    \* the configurations the process is started with
    MaxChanges,  \* bound: requests
    MaxFaults    \* bound: restarts and sessions that fail

\* Notifications disabled; no OPS_NOTIFICATION_EMAIL; no delivery; the mailer
\* of a development environment; SMTP.
Setting == {"disabled", "no_recipient", "unconfigured", "development", "smtp"}

ASSUME SettingsAssumption == Settings \subseteq Setting
ASSUME PaymentMailsAssumption ==
    PaymentMails \subseteq {"payment_marked_paid", "payment_status_updated"}
ASSUME OpenAssumption ==
    MaxOpen \in Nat /\ MaxChanges \in Nat /\ MaxFaults \in Nat

VARIABLES
    subject,   \* what the behaviour is about
    setting,   \* the configuration of the running process
    document,  \* the committed state of the document
    lead,      \* has a demo request of the lead been committed?
    notices,   \* the committed notification rows
    deferred,  \* the background tasks still to start
    session,   \* what each open session is doing
    forgotten, \* history: a background task died
    mails,     \* history: the mails that have left, per type
    unsaved,   \* history: those whose session did not commit
    overlaps,  \* history: those whose session overlapped another's of the type
    changes, faults

history == <<forgotten, mails, unsaved, overlaps>>
notificationVars == <<subject, setting, document, lead, notices, deferred,
                      session, history, changes, faults>>

-----------------------------------------------------------------------------
Sessions == 1 .. MaxOpen

\* message_type, of the mails about each kind of subject.
MailTypesOf ==
    [document |-> {"document_uploaded", "driver_upload_confirmation"},
     load |-> {"invoice_submitted"} \cup PaymentMails,
     lead |-> {"demo_request_received", "demo_request_acknowledgement"}]

Types == UNION {MailTypesOf[k] : k \in DOMAIN MailTypesOf}

Notification ==
    [type : Types, to : {"ops", "other", "none"},
     status : {"queued", "sent", "failed", "skipped"},
     mailed : BOOLEAN,  \* history
     byHand : BOOLEAN]  \* history: written through the notification endpoints

Closed == [kind |-> "idle"]

\* due: the types still to be handled; own: the rows inserted so far, the
\* last of which waits for its mail if sending; late: another session was
\* open that the look-ups of this one could not see.
Work == [kind : {"task", "driver_upload", "status", "payment", "demo"},
         due : Seq(Types), own : SUBSET Notification, sending : BOOLEAN, late : BOOLEAN]

NotificationsTypeOK ==
    /\ setting \in Settings
    /\ subject \in DOMAIN MailTypesOf
    /\ document \in {"absent", "live", "deleted"}
    /\ lead \in BOOLEAN
    /\ IsABag(notices) /\ BagToSet(notices) \subseteq Notification
    /\ deferred \in Nat
    /\ session \in [Sessions -> Work \cup {Closed}]
    /\ forgotten \in BOOLEAN
    /\ {mails, unsaved, overlaps} \subseteq [Types -> Nat]
    /\ changes \in 0 .. MaxChanges /\ faults \in 0 .. MaxFaults

Open(s) == session[s].kind # "idle"

\* A session that has flushed a change of a row holds the row until it ends.
Held(kind) == \E s \in Sessions : session[s].kind = kind

OneChange == changes < MaxChanges /\ changes' = changes + 1
Faulty == faults < MaxFaults /\ faults' = faults + 1

Starts(s, kind, due, late) ==
    /\ ~Open(s) /\ \A lower \in 1 .. s - 1 : Open(lower)
    /\ session' = [session EXCEPT ![s] = [kind |-> kind, due |-> due,
                                          own |-> {}, sending |-> FALSE,
                                          late |-> late]]

-----------------------------------------------------------------------------
(* The handlers, up to their notifications.                                *)

\* upload_document, new or replaced: commits, then adds the background task.
StaffUpload ==
    /\ OneChange
    /\ subject = "document" /\ document # "deleted" /\ ~Held("driver_upload")
    /\ document' = "live"
    /\ deferred' = deferred + 1
    /\ UNCHANGED <<subject, setting, lead, notices, session, history, faults>>

\* _run_deferred_document_upload_work; nothing to do for a deleted document.
RunDeferred(s) ==
    /\ deferred > 0
    /\ deferred' = deferred - 1
    /\ IF document = "live"
       THEN Starts(s, "task", <<"document_uploaded">>, FALSE)
       ELSE UNCHANGED session
    /\ UNCHANGED <<subject, setting, document, lead, notices, history, changes,
                   faults>>

\* upload_driver_document; the driver may have no e-mail address.
DriverUpload(s) ==
    /\ subject = "document" /\ document # "deleted" /\ ~Held("driver_upload")
    /\ \E due \in {<<"document_uploaded">>,
                   <<"document_uploaded", "driver_upload_confirmation">>} :
         Starts(s, "driver_upload", due, FALSE)

\* transition_load_status to a submission, or to full payment.
TransitionLoadStatus(s) ==
    /\ subject = "load" /\ ~Held("status")
    /\ \E t \in MailTypesOf["load"] : Starts(s, "status", <<t>>, FALSE)

\* A payment endpoint that changes the record's status.
UpdatePayment(s) ==
    /\ subject = "load" /\ ~Held("payment")
    /\ \E t \in PaymentMails : Starts(s, "payment", <<t>>, FALSE)

\* create_demo_request, when _find_recent_duplicate finds none.
CreateDemoRequest(s) ==
    /\ subject = "lead" /\ ~lead
    /\ Starts(s, "demo",
              <<"demo_request_received", "demo_request_acknowledgement">>,
              Held("demo"))

Request(s) ==
    /\ OneChange
    /\ \/ DriverUpload(s) \/ TransitionLoadStatus(s)
       \/ UpdatePayment(s) \/ CreateDemoRequest(s)
    /\ UNCHANGED <<subject, setting, document, lead, notices, deferred, history,
                   faults>>

-----------------------------------------------------------------------------
(* OperationalNotificationService._create_and_deliver.                     *)

OpsTypes == Types \ {"driver_upload_confirmation",
                     "demo_request_acknowledgement"}

Recipient(t) == IF t \notin OpsTypes THEN "other"
                ELSE IF setting = "no_recipient" THEN "none" ELSE "ops"

\* Mutant: what was not sent does not count.
MutantOnlySent(s, t) ==
    \E row \in BagToSet(notices) \cup session[s].own :
        /\ session[s].kind # "demo" /\ document # "deleted"
        /\ row.type = t /\ row.status = "sent"
        /\ Recipient(t) \in {"none", row.to}

\* find_existing_notification: a missing recipient is not compared.  Nothing
\* is found for a demo request, which is new, nor for a deleted document,
\* which has been cleared from the rows.
FindExisting(s, t) ==
    \E row \in BagToSet(notices) \cup session[s].own :
        /\ session[s].kind # "demo" /\ document # "deleted"
        /\ row.type = t
        /\ Recipient(t) \in {"none", row.to}

\* Another session has an uncommitted row of the type, which nobody sees.
Unseen(s, t) ==
    \E other \in Sessions \ {s} :
        Open(other) /\ \E row \in session[other].own : row.type = t

\* Is the row written off before any mailer is asked?
Undeliverable(t) ==
    setting \in {"disabled", "unconfigured"} \/ Recipient(t) = "none"

Row(t, status, mailed) ==
    [type |-> t, to |-> Recipient(t), status |-> status, mailed |-> mailed,
     byHand |-> FALSE]

Inserted(s, t) ==
    LET off == Undeliverable(t) IN
    [session[s] EXCEPT
       !.own = @ \cup {Row(t, IF off THEN "skipped" ELSE "queued", FALSE)},
       !.due = IF off THEN Tail(@) ELSE @,
       !.sending = ~off,
       !.late = @ \/ Unseen(s, t)]

\* The look-up and the insertion.  A document that was deleted meanwhile
\* breaks the foreign key: the exception is swallowed, but the session is not
\* usable any more, and the task ends without a commit.
Notify(s) ==
    /\ Open(s) /\ ~session[s].sending /\ session[s].due # <<>>
    /\ LET t == Head(session[s].due) IN
       \/ /\ FindExisting(s, t)
          /\ session' = [session EXCEPT ![s].due = Tail(@)]
          /\ UNCHANGED forgotten
       \/ /\ ~FindExisting(s, t) /\ document # "deleted"
          /\ session' = [session EXCEPT ![s] = Inserted(s, t)]
          /\ UNCHANGED forgotten
       \/ /\ document = "deleted"
          /\ session' = [session EXCEPT ![s] = Closed]
          /\ forgotten' = TRUE
    /\ UNCHANGED <<subject, setting, document, lead, notices, deferred, mails,
                   unsaved, overlaps, changes, faults>>

\* What send_message comes to: a development mailer skips; SMTP delivers, or
\* raises before or after the server has taken the mail.
Outcome(status, leaves) ==
    IF setting = "development" THEN status = "skipped" /\ ~leaves
    ELSE \/ status = "sent" /\ leaves
         \/ status = "failed"

DeliverMail(s) ==
    /\ Open(s) /\ session[s].sending
    /\ \E status \in {"queued", "sent", "failed", "skipped"},
          leaves \in BOOLEAN :
         LET t == Head(session[s].due)
             one == IF leaves THEN 1 ELSE 0
         IN /\ Outcome(status, leaves)
            /\ session' =
                 [session EXCEPT
                    ![s].own = (@ \ {Row(t, "queued", FALSE)})
                               \cup {Row(t, status, leaves)},
                    ![s].due = Tail(@), ![s].sending = FALSE]
            /\ mails' = [mails EXCEPT ![t] = @ + one]
            /\ overlaps' = [overlaps EXCEPT
                              ![t] = IF session[s].late THEN @ + one ELSE @]
    /\ UNCHANGED <<subject, setting, document, lead, notices, deferred,
                   forgotten, unsaved, changes, faults>>

-----------------------------------------------------------------------------
(* How sessions end.                                                       *)

\* The sessions of S end without a commit: their mails stay sent.
Lose(S) ==
    unsaved' = [t \in Types |->
                  unsaved[t] + Cardinality(
                    {s \in S : Open(s) /\ \E row \in session[s].own :
                                            row.type = t /\ row.mailed})]

\* Mutant: the background task does not commit either.
MutantTaskUncommitted(s) ==
    /\ Open(s) /\ session[s].due = <<>>
    /\ \/ /\ session[s].kind \in {"payment", "task"}
          /\ Lose({s})
          /\ UNCHANGED <<document, lead, notices>>
       \/ /\ session[s].kind \notin {"payment", "task"}
          /\ notices' = notices (+) SetToBag(session[s].own)
          /\ document' = IF session[s].kind = "driver_upload" THEN "live"
                         ELSE document
          /\ lead' = (lead \/ session[s].kind = "demo")
          /\ UNCHANGED unsaved
    /\ session' = [session EXCEPT ![s] = Closed]
    /\ UNCHANGED <<subject, setting, deferred, forgotten, mails, overlaps,
                   changes, faults>>

\* The handler commits.  The payment endpoints never do.
Finish(s) ==
    /\ Open(s) /\ session[s].due = <<>>
    /\ \/ /\ session[s].kind = "payment"
          /\ Lose({s})
          /\ UNCHANGED <<document, lead, notices>>
       \/ /\ session[s].kind # "payment"
          /\ notices' = notices (+) SetToBag(session[s].own)
          /\ document' = IF session[s].kind = "driver_upload" THEN "live"
                         ELSE document
          /\ lead' = (lead \/ session[s].kind = "demo")
          /\ UNCHANGED unsaved
    /\ session' = [session EXCEPT ![s] = Closed]
    /\ UNCHANGED <<subject, setting, deferred, forgotten, mails, overlaps,
                   changes, faults>>

\* An exception outside the notifications, or a lost connection.
Fail(s) ==
    /\ Faulty
    /\ Open(s)
    /\ session' = [session EXCEPT ![s] = Closed]
    /\ Lose({s})
    /\ forgotten' = (forgotten \/ session[s].kind = "task")
    /\ UNCHANGED <<subject, setting, document, lead, notices, deferred, mails,
                   overlaps, changes>>

\* The process restarts, perhaps with another configuration.
Restart ==
    /\ Faulty
    /\ setting' \in Settings
    /\ session' = [s \in Sessions |-> Closed]
    /\ deferred' = 0
    /\ Lose(Sessions)
    /\ forgotten' = (forgotten \/ deferred > 0 \/ Held("task"))
    /\ UNCHANGED <<subject, document, lead, notices, mails, overlaps, changes>>

-----------------------------------------------------------------------------
(* Requests beside them.                                                   *)

\* delete_document waits for the document's row and for the notifications
\* that refer to it, and clears the document_id of the committed ones.
DeleteSubject ==
    /\ OneChange
    /\ document = "live" /\ ~Held("driver_upload")
    /\ \A s \in Sessions : Open(s) => session[s].own = {}
    /\ document' = "deleted"
    /\ UNCHANGED <<subject, setting, lead, notices, deferred, session, history,
                   faults>>

\* POST /notifications/{id}/mark-sent: any row, whatever its status.
MarkNotificationSent(row) ==
    /\ OneChange
    /\ notices' = (notices (-) SetToBag({row})) (+)
               SetToBag({[row EXCEPT !.status = "sent", !.byHand = TRUE]})
    /\ UNCHANGED <<subject, setting, document, lead, deferred, session,
                   history, faults>>

\* POST /notifications: a row of any type, which sends nothing.  It may have
\* any status, but nothing depends on that.
CreateNotification(t) ==
    /\ OneChange
    /\ subject = "document" => document = "live"
    /\ subject = "lead" => lead
    /\ notices' = notices (+)
         SetToBag({[type |-> t, status |-> "queued", mailed |-> FALSE,
                    to |-> IF t \in OpsTypes THEN "ops" ELSE "other",
                    byHand |-> TRUE]})
    /\ UNCHANGED <<subject, setting, document, lead, deferred, session,
                   history, faults>>

-----------------------------------------------------------------------------
NotificationsInit ==
    /\ subject \in DOMAIN MailTypesOf
    /\ setting \in Settings
    /\ document = "absent" /\ lead = FALSE
    /\ notices = EmptyBag
    /\ deferred = 0
    /\ session = [s \in Sessions |-> Closed]
    /\ forgotten = FALSE
    /\ mails = [t \in Types |-> 0]
    /\ unsaved = mails /\ overlaps = mails
    /\ changes = 0 /\ faults = 0

Progress(s) == Notify(s) \/ DeliverMail(s) \/ Finish(s)

NotificationsNext ==
    \/ \E s \in Sessions :
         Request(s) \/ RunDeferred(s) \/ Progress(s) \/ Fail(s)
    \/ StaffUpload
    \/ DeleteSubject
    \/ \E row \in BagToSet(notices) : MarkNotificationSent(row)
    \/ \E t \in MailTypesOf[subject] : CreateNotification(t)
    \/ Restart

\* Background tasks get a thread in turn, and every session runs on: the
\* mailer gives up after 15 seconds and no session waits while it holds a row.
NotificationsFairness ==
    /\ \A s \in Sessions : WF_notificationVars(Progress(s))
    /\ SF_notificationVars(\E s \in Sessions : RunDeferred(s))

NotificationsSpec ==
    /\ NotificationsInit /\ [][NotificationsNext]_notificationVars
    /\ NotificationsFairness

-----------------------------------------------------------------------------
(* Properties.                                                             *)

\* A second mail about the same thing leaves only if the session of an earlier
\* one did not commit, or if two sessions were open at once that could not see
\* each other's notification.
MailedOnce ==
    \A t \in Types : mails[t] <= 1 + unsaved[t] + overlaps[t]

\* Where every session changes the row that the mail is about before it
\* notifies, overlapping does not matter: a submission is mailed twice, and a
\* driver confirmed to twice, only if an earlier session did not commit.
SubmissionsMailedOnce ==
    \A t \in {"invoice_submitted", "driver_upload_confirmation"} :
        mails[t] <= 1 + unsaved[t]

\* A committed row that no one wrote by hand is settled, and tells what became
\* of its mail: "sent" means that it left and "skipped" that it did not.
StatusTellsDelivery ==
    \A row \in BagToSet(notices) :
        ~row.byHand =>
          /\ row.status # "queued"
          /\ row.status = "sent" => row.mailed
          /\ row.status = "skipped" => ~row.mailed

\* Every upload of the staff gets its notification row after the response,
\* unless the document is deleted first or its task dies.
UploadsAnnounced ==
    deferred > 0
    ~> \/ document = "deleted" \/ forgotten
       \/ \E row \in BagToSet(notices) : row.type = "document_uploaded"
=============================================================================
