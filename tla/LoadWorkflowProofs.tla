------------------------- MODULE LoadWorkflowProofs -------------------------
(***************************************************************************)
(* Proofs about LoadWorkflow, for every set of requests, targets,          *)
(* destinations and required documents.                                    *)
(*                                                                         *)
(* MilestonesRecorded is not inductive: a session writes over a row it has *)
(* not seen.  What carries it across a commit is that every staged update  *)
(* is justified by the row as it is now (PendingJustified), which stays    *)
(* true while other sessions commit because no commit clears a timestamp   *)
(* or forgets a factoring submission.                                      *)
(***************************************************************************)
EXTENDS CommandCenter, TLAPS

\* What a staged update may rely on, stated about the current row.
Justified(u) ==
    /\ u.status \in AfterSubmission => load.submitted_at \/ u.submitted_at
    /\ u.status = "advance_paid" => load.funded_at \/ u.funded_at
    /\ u.status \in {"fully_paid", "short_paid"} => load.paid_at \/ u.paid_at
    /\ u.funded_at => load.submitted_at /\ ~u.submitted_at /\ ~u.paid_at
    /\ u.paid_at => load.submitted_at /\ ~u.submitted_at /\ ~u.funded_at
    /\ u.status \in FactoringOnly => factored
    /\ u.event = "submitted_to_factoring" => u.status = "submitted_to_factoring"

PendingJustified == \A r \in Requests : Justified(session[r])

\* The events and the history agree with the row.
HistorySound ==
    /\ load.status = "submitted_to_factoring" => factored
    /\ trail.factoring => factored
    /\ factored => load.submitted_at

\* The inductive invariant.
IInv ==
    /\ TypeOK
    /\ MilestonesRecorded
    /\ FactoringNeedsSubmission
    /\ HistorySound
    /\ PendingJustified

-----------------------------------------------------------------------------
(* Lemmas about the operators the handlers are built from.                 *)

\* An update that leaves the row alone relies on nothing.
LEMMA SideUpdateJustified ==
    ASSUME NEW attached \in SUBSET SubmissionRequired,
           NEW detached \in SUBSET SubmissionRequired,
           NEW issue \in {Keep, "set", "clear"}, NEW created \in BOOLEAN
    PROVE  LET u == SideUpdate(attached, detached, issue, created)
           IN  u \in Update /\ Justified(u)
  BY DEF SideUpdate, Update, Justified, Keep, NoEvent, AfterSubmission,
         Submitted, FactoringOnly

LEMMA NoChangeJustified == NoChange \in Update /\ Justified(NoChange)
  BY SideUpdateJustified DEF NoChange

\* Flush keeps the row's type.
LEMMA FlushType ==
    ASSUME NEW row \in Row, NEW u \in Update
    PROVE  Flush(row, u) \in Row
  BY DEF Flush, Row, Update, Keep

\* ProcessingFor yields a processing status.
LEMMA ProcessingForType ==
    ASSUME NEW target \in LoadStatus
    PROVE  ProcessingFor(target) \in ProcessingStatus
  BY DEF ProcessingFor, ProcessingStatus

\* What transition_load and update_load stage are updates.
LEMMA RowUpdateType ==
    ASSUME TypeOK, NEW target \in LoadStatus,
           NEW followUp \in {Keep, "set", "clear"}
    PROVE  /\ apply_status_change(target, followUp) \in Update
           /\ update_load_status(target) \in Update
  BY ProcessingForType
  DEF apply_status_change, update_load_status, RowUpdate, Update, Changed,
      NoEvent, StampsSubmitted, StampsFunded, StampsPaid, Keep

\* A transition whose preconditions hold now is justified now.
LEMMA TransitionJustified ==
    ASSUME IInv, NEW target \in LoadStatus, transition_load(target), NEW f
    PROVE  Justified(apply_status_change(target, f))
  <1> DEFINE u == apply_status_change(target, f)
  <1>1. /\ u.status = Changed(load.status, target)
        /\ u.submitted_at = StampsSubmitted(target)
        /\ u.funded_at = StampsFunded(target)
        /\ u.paid_at = StampsPaid(target)
        /\ u.event = target
    BY DEF apply_status_change, RowUpdate
  <1>2. load \in Row
    BY DEF IInv, TypeOK
  <1> HIDE DEF u
  <1>3. target \in FactoringOnly => factored
    BY DEF transition_load, TransitionPreconditions, has_factoring_path, IInv,
           FactoringNeedsSubmission, HistorySound
  <1>4. target \in AfterSubmission =>
          load.submitted_at \/ target \in Submitted
    BY <1>3 DEF transition_load, TransitionPreconditions, AfterSubmission,
                IInv, HistorySound
  <1>5. u.status \in {target, Keep}
    BY <1>1 DEF Changed
  <1>6. Keep \notin AfterSubmission /\ Keep \notin LoadStatus
    BY DEF Keep, AfterSubmission, Submitted, FactoringOnly, LoadStatus
  <1>7. target = "submitted_to_factoring" => u.status = target
    BY <1>1 DEF Changed, transition_load, TransitionPreconditions, Submitted
  <1>8. Justified(u)
    BY <1>1, <1>2, <1>3, <1>4, <1>5, <1>6, <1>7
    DEF Justified, StampsSubmitted, StampsFunded, StampsPaid, Row, Submitted,
        FactoringOnly, AfterSubmission, Keep
  <1> QED  BY <1>8 DEF u

\* mark_sent's update is justified in every state: it stamps its submission.
LEMMA SentJustified ==
    ASSUME IInv, NEW target \in Submitted
    PROVE  Justified(update_load_status(target))
  <1> DEFINE u == update_load_status(target)
  <1>1. /\ u.status \in {target, Keep}
        /\ u.submitted_at = (target # load.status /\ ~load.submitted_at)
        /\ u.status = target => target # load.status
        /\ u.funded_at = FALSE
        /\ u.paid_at = FALSE
        /\ u.event = NoEvent
    BY DEF update_load_status, RowUpdate, Changed, StampsSubmitted,
           StampsFunded, StampsPaid, Submitted, Keep
  <1>2. load \in Row
    BY DEF IInv, TypeOK
  <1> HIDE DEF u
  <1>3. Justified(u)
    BY <1>1, <1>2 DEF Justified, Row, Submitted, AfterSubmission,
                      FactoringOnly, Keep, NoEvent
  <1> QED  BY <1>3 DEF u

-----------------------------------------------------------------------------
(* The inductive invariant: initially, and across each kind of step.       *)

LEMMA InitIInv == Init => IInv
  <1> SUFFICES ASSUME Init PROVE IInv
    OBVIOUS
  <1>1. TypeOK
    BY NoChangeJustified
    DEF Init, TypeOK, Row, LoadStatus, ProcessingStatus, NoEvent
  <1>2. MilestonesRecorded /\ FactoringNeedsSubmission /\ HistorySound
    BY DEF Init, MilestonesRecorded, FactoringNeedsSubmission, HistorySound,
           AfterSubmission, Submitted, FactoringOnly
  <1>3. PendingJustified
    BY NoChangeJustified DEF Init, PendingJustified
  <1> QED  BY <1>1, <1>2, <1>3 DEF IInv

\* Staging a justified update keeps the invariant: the row does not move.
LEMMA StageKeepsIInv ==
    ASSUME IInv, NEW r \in Requests, NEW u \in Update, Justified(u),
           Stage(r, u)
    PROVE  IInv'
  <1>1. TypeOK'
    BY DEF IInv, TypeOK, Stage
  <1>2. (MilestonesRecorded /\ FactoringNeedsSubmission /\ HistorySound)'
    BY DEF IInv, MilestonesRecorded, FactoringNeedsSubmission, HistorySound,
           Stage
  <1>3. PendingJustified'
    <2> SUFFICES ASSUME NEW q \in Requests PROVE Justified(session[q])'
      BY DEF PendingJustified
    <2>1. session'[q] = u \/ session'[q] = session[q]
      BY DEF Stage, IInv, TypeOK
    <2>2. load' = load /\ factored' = factored
      BY DEF Stage
    <2> QED  BY <2>1, <2>2 DEF Justified, IInv, PendingJustified
  <1> QED  BY <1>1, <1>2, <1>3 DEF IInv

\* What a commit does to the columns the invariant reads.
LEMMA CommitEffect ==
    ASSUME IInv, NEW r \in Requests, Commit(r)
    PROVE  LET u == session[r]
           IN  /\ u \in Update
               /\ load' \in Row
               /\ load'.status = IF u.status = Keep THEN load.status
                                 ELSE u.status
               /\ load'.submitted_at = (load.submitted_at \/ u.submitted_at)
               /\ load'.funded_at = (load.funded_at \/ u.funded_at)
               /\ load'.paid_at = (load.paid_at \/ u.paid_at)
               /\ factored' = (factored \/ u.status = "submitted_to_factoring")
  <1>1. session[r] \in Update /\ load \in Row
    BY DEF IInv, TypeOK
  <1>2. load' = Flush(load, session[r]) /\ load' \in Row
    BY <1>1, FlushType DEF Commit
  <1> QED  BY <1>1, <1>2 DEF Flush, Commit

\* A commit of a justified update keeps the invariant, whatever was committed
\* since the update was staged.
LEMMA CommitKeepsIInv ==
    ASSUME IInv, NEW r \in Requests, Commit(r)
    PROVE  IInv'
  <1> DEFINE u == session[r]
  <1>1. /\ u \in Update
        /\ load' \in Row
        /\ load'.status = IF u.status = Keep THEN load.status ELSE u.status
        /\ load'.submitted_at = (load.submitted_at \/ u.submitted_at)
        /\ load'.funded_at = (load.funded_at \/ u.funded_at)
        /\ load'.paid_at = (load.paid_at \/ u.paid_at)
        /\ factored' = (factored \/ u.status = "submitted_to_factoring")
    BY CommitEffect
  <1>2. Justified(u)
    BY DEF IInv, PendingJustified
  <1>3. load \in Row /\ factored \in BOOLEAN
    BY DEF IInv, TypeOK
  <1>4. TypeOK'
    <2>1. docs' \subseteq SubmissionRequired
      BY <1>1 DEF Commit, IInv, TypeOK, Update
    <2>2. blocking' \in BOOLEAN /\ packet' \in BOOLEAN /\ factored' \in BOOLEAN
      BY <1>1 DEF Commit, IInv, TypeOK, Update
    <2>3. trail' \in [last : LoadStatus \cup {NoEvent}, factoring : BOOLEAN]
      BY <1>1 DEF Commit, publish_load_event, IInv, TypeOK, Update
    <2>4. active' \subseteq Requests /\ session' \in [Requests -> Update]
      BY NoChangeJustified DEF Commit, IInv, TypeOK
    <2> QED  BY <1>1, <2>1, <2>2, <2>3, <2>4 DEF TypeOK
  <1> HIDE DEF u
  <1>5. MilestonesRecorded'
    BY <1>1, <1>2, <1>3
    DEF IInv, MilestonesRecorded, Justified, Row, Update, AfterSubmission, Keep
  <1>6. FactoringNeedsSubmission'
    BY <1>1, <1>2, <1>3
    DEF IInv, FactoringNeedsSubmission, Justified
  <1>7. HistorySound'
    <2>1. trail'.factoring => \/ trail.factoring
                              \/ u.status = "submitted_to_factoring"
      BY <1>1, <1>2 DEF Commit, publish_load_event, Justified, u
    <2>2. u.status = "submitted_to_factoring" => u.status \in AfterSubmission
      BY DEF AfterSubmission, Submitted
    <2> QED
      BY <1>1, <1>2, <1>3, <2>1, <2>2 DEF IInv, HistorySound, Justified, Row
  <1>8. PendingJustified'
    <2> SUFFICES ASSUME NEW q \in Requests PROVE Justified(session[q])'
      BY DEF PendingJustified
    <2>1. session'[q] = NoChange \/ session'[q] = session[q]
      BY DEF Commit, IInv, TypeOK
    <2>2. CASE session'[q] = NoChange
      BY <2>2 DEF NoChange, SideUpdate, Justified, Keep, NoEvent, AfterSubmission,
                  Submitted, FactoringOnly
    <2>3. CASE session'[q] = session[q]
      <3>1. Justified(session[q])
        BY DEF IInv, PendingJustified
      <3>2. /\ load.submitted_at => load'.submitted_at
            /\ load.funded_at => load'.funded_at
            /\ load.paid_at => load'.paid_at
            /\ factored => factored'
        BY <1>1, <1>3 DEF Row
      <3> QED  BY <2>3, <3>1, <3>2 DEF Justified
    <2> QED  BY <2>1, <2>2, <2>3
  <1> QED  BY <1>4, <1>5, <1>6, <1>7, <1>8 DEF IInv

\* A session that ends without a commit leaves the row as it is.
LEMMA AbandonKeepsIInv ==
    ASSUME IInv, NEW r \in Requests, Abandon(r)
    PROVE  IInv'
  <1>1. TypeOK'
    BY NoChangeJustified DEF IInv, TypeOK, Abandon
  <1>2. (MilestonesRecorded /\ FactoringNeedsSubmission /\ HistorySound)'
    BY DEF IInv, MilestonesRecorded, FactoringNeedsSubmission, HistorySound,
           Abandon
  <1>3. PendingJustified'
    <2> SUFFICES ASSUME NEW q \in Requests PROVE Justified(session[q])'
      BY DEF PendingJustified
    <2>1. session'[q] = NoChange \/ session'[q] = session[q]
      BY DEF Abandon, IInv, TypeOK
    <2>2. load' = load /\ factored' = factored
      BY DEF Abandon
    <2> QED
      BY <2>1, <2>2, NoChangeJustified DEF Justified, IInv, PendingJustified
  <1> QED  BY <1>1, <1>2, <1>3 DEF IInv

\* Every step of the specification keeps the invariant.
LEMMA NextKeepsIInv == IInv /\ [Next]_vars => IInv'
  <1> SUFFICES ASSUME IInv, [Next]_vars PROVE IInv'
    OBVIOUS
  <1> USE TargetsAssumption
  <1>1. ASSUME NEW r \in Requests, NEW target \in Targets,
               TransitionLoadStatus(r, target)
        PROVE  IInv'
    <2>1. /\ apply_status_change(target, Keep) \in Update
          /\ Justified(apply_status_change(target, Keep))
      BY <1>1, RowUpdateType, TransitionJustified
      DEF TransitionLoadStatus, IInv
    <2> QED  BY <1>1, <2>1, StageKeepsIInv DEF TransitionLoadStatus
  <1>2. ASSUME NEW r \in Requests, NEW target \in Targets,
               DriverLoadCheckIn(r, target)
        PROVE  IInv'
    <2>1. /\ apply_status_change(target, Keep) \in Update
          /\ Justified(apply_status_change(target, Keep))
      BY <1>2, RowUpdateType, TransitionJustified
      DEF DriverLoadCheckIn, IInv
    <2> QED  BY <1>2, <2>1, StageKeepsIInv DEF DriverLoadCheckIn
  <1>3. ASSUME NEW r \in Requests, NEW target \in Targets,
               NEW followUp \in {Keep, "set", "clear"},
               ApplyOperationalAction(r, target, followUp)
        PROVE  IInv'
    <2>1. /\ apply_status_change(target, followUp) \in Update
          /\ Justified(apply_status_change(target, followUp))
      BY <1>3, RowUpdateType, TransitionJustified
      DEF ApplyOperationalAction, IInv
    <2> QED  BY <1>3, <2>1, StageKeepsIInv DEF ApplyOperationalAction
  <1>4. ASSUME NEW r \in Requests, CreateSubmissionPacket(r)
        PROVE  IInv'
    BY <1>4, SideUpdateJustified, StageKeepsIInv DEF CreateSubmissionPacket
  <1>5. ASSUME NEW r \in Requests, NEW destination \in Destinations,
               MarkSubmissionPacketSent(r, destination)
        PROVE  IInv'
    <2> DEFINE sent == SentStatus(destination)
    <2>1. sent = Keep \/ sent \in Submitted
      BY DEF SentStatus, Submitted, Keep
    <2>2. CASE sent = Keep
      BY <1>5, <2>2, NoChangeJustified, StageKeepsIInv
      DEF MarkSubmissionPacketSent
    <2>3. CASE sent # Keep
      <3>1. sent \in LoadStatus
        BY <2>1, <2>3 DEF Submitted, LoadStatus
      <3>2. /\ update_load_status(sent) \in Update
            /\ Justified(update_load_status(sent))
        BY <2>1, <2>3, <3>1, RowUpdateType, SentJustified DEF IInv
      <3>3. Stage(r, update_load_status(sent))
        BY <1>5, <2>3 DEF MarkSubmissionPacketSent
      <3> QED  BY <3>2, <3>3, StageKeepsIInv
    <2> QED  BY <2>2, <2>3
  <1>6. ASSUME NEW r \in Requests, NEW type \in SubmissionRequired,
               CreateDocument(r, type) \/ DeleteDocument(r, type)
        PROVE  IInv'
    BY <1>6, SideUpdateJustified, StageKeepsIInv
    DEF CreateDocument, DeleteDocument
  <1>7. ASSUME NEW r \in Requests,
               ValidateLoad(r) \/ ResolveValidationIssue(r)
        PROVE  IInv'
    BY <1>7, SideUpdateJustified, StageKeepsIInv
    DEF ValidateLoad, ResolveValidationIssue
  <1>11. ASSUME NEW r \in Requests, NEW required \in BOOLEAN,
                UpdateLoad(r, required)
         PROVE  IInv'
    <2> DEFINE f == IF required = load.follow_up THEN Keep
                    ELSE IF required THEN "set" ELSE "clear"
               u == RowUpdate(Keep, Keep, FALSE, FALSE, FALSE, f, NoEvent)
    <2>1. u \in Update /\ Justified(u)
      BY DEF RowUpdate, Update, Justified, Keep, NoEvent, AfterSubmission,
             Submitted, FactoringOnly
    <2> QED  BY <1>11, <2>1, StageKeepsIInv DEF UpdateLoad
  <1>8. ASSUME NEW r \in Requests, Commit(r) PROVE IInv'
    BY <1>8, CommitKeepsIInv
  <1>9. ASSUME NEW r \in Requests, Abandon(r) PROVE IInv'
    BY <1>9, AbandonKeepsIInv
  <1>10. CASE UNCHANGED vars
    <2>1. /\ load' = load /\ docs' = docs /\ blocking' = blocking
          /\ packet' = packet /\ trail' = trail /\ factored' = factored
          /\ active' = active /\ session' = session
      BY <1>10 DEF vars
    <2> QED
      BY <2>1 DEF IInv, TypeOK, MilestonesRecorded, FactoringNeedsSubmission,
                  HistorySound, PendingJustified, Justified
  <1> QED
    BY <1>1, <1>2, <1>3, <1>4, <1>5, <1>6, <1>7, <1>8, <1>9, <1>10,
       <1>11 DEF Next

-----------------------------------------------------------------------------
(* The results.                                                            *)

\* The invariant holds of every reachable state.
THEOREM InvariantHolds == Spec => []IInv
  <1>1. Init => IInv
    BY InitIInv
  <1>2. IInv /\ [Next]_vars => IInv'
    BY NextKeepsIInv
  <1> QED  BY <1>1, <1>2, PTL DEF Spec

\* Every reachable state is well typed: the columns of the load row and the
\* pending writes of every session stay in their domains.
THEOREM TypeCorrect == Spec => []TypeOK
  <1>1. IInv => TypeOK
    BY DEF IInv
  <1> QED  BY <1>1, InvariantHolds, PTL

\* The status and the timestamps agree however many requests overlap, although
\* transition_load and mark_sent check a row that may have changed by the time
\* they commit.
THEOREM MilestonesAlwaysRecorded == Spec => []MilestonesRecorded
  <1>1. IInv => MilestonesRecorded
    BY DEF IInv
  <1> QED  BY <1>1, InvariantHolds, PTL

\* No load reaches a factoring-only status without a factoring submission,
\* whichever of the engine and mark_sent made it.
THEOREM FactoringAlwaysSubmitted == Spec => []FactoringNeedsSubmission
  <1>1. IInv => FactoringNeedsSubmission
    BY DEF IInv
  <1> QED  BY <1>1, InvariantHolds, PTL

\* Every load with a follow-up term has the date that the term is counted from,
\* so none waits in its queue without ever becoming overdue.
THEOREM FollowUpsAlwaysComeDue == Spec => []FollowUpsComeDue
  <1>1. DOMAIN FOLLOW_UP_DAYS_BY_STATUS
            = Submitted \cup {"advance_paid", "reserve_pending"}
    BY DEF FOLLOW_UP_DAYS_BY_STATUS
  <1>2. MilestonesRecorded => FollowUpsComeDue
    BY <1>1
    DEF MilestonesRecorded, FollowUpsComeDue, has_anchor, AfterSubmission,
        FactoringOnly, Submitted
  <1> QED  BY <1>2, MilestonesAlwaysRecorded, PTL

-----------------------------------------------------------------------------
(* The refinement of LoadMilestones.                                       *)

\* A step that leaves the row alone is a stutter of LoadMilestones.
LEMMA SameRowStutters ==
    ASSUME load' = load
    PROVE  [Milestones!Next]_(Milestones!vars)
  BY DEF Milestones!vars

\* A commit records at most one milestone, and in order.
LEMMA CommitImplements ==
    ASSUME IInv, NEW r \in Requests, Commit(r)
    PROVE  [Milestones!Next]_(Milestones!vars)
  <1> DEFINE u == session[r]
  <1>1. /\ u \in Update
        /\ load'.submitted_at = (load.submitted_at \/ u.submitted_at)
        /\ load'.funded_at = (load.funded_at \/ u.funded_at)
        /\ load'.paid_at = (load.paid_at \/ u.paid_at)
    BY CommitEffect
  <1>2. Justified(u)
    BY DEF IInv, PendingJustified
  <1>3. load \in Row
    BY DEF IInv, TypeOK
  <1> HIDE DEF u
  <1> QED
    BY <1>1, <1>2, <1>3
    DEF Justified, Row, Update, Milestones!Next, Milestones!Submit,
        Milestones!Fund, Milestones!Pay, Milestones!vars

LEMMA NextImplements ==
    IInv /\ [Next]_vars => [Milestones!Next]_(Milestones!vars)
  <1> SUFFICES ASSUME IInv, [Next]_vars
               PROVE  [Milestones!Next]_(Milestones!vars)
    OBVIOUS
  <1>1. \/ load' = load
        \/ \E r \in Requests : Commit(r)
    BY DEF Next, vars, Stage, TransitionLoadStatus, DriverLoadCheckIn,
           ApplyOperationalAction, UpdateLoad, CreateSubmissionPacket,
           MarkSubmissionPacketSent, CreateDocument, DeleteDocument,
           ValidateLoad, ResolveValidationIssue, Abandon
  <1> QED  BY <1>1, SameRowStutters, CommitImplements

\* The handlers and their commits implement LoadMilestones: no interleaving of
\* requests records funding or payment before submission, two milestones in
\* one commit, or erases one.
THEOREM ImplementsMilestones == Spec => MilestonesImplemented
  <1>1. Init => Milestones!Init
    BY DEF Init, Milestones!Init
  <1>2. IInv /\ [Next]_vars => [Milestones!Next]_(Milestones!vars)
    BY NextImplements
  <1> QED
    BY <1>1, <1>2, InvariantHolds, PTL
    DEF Spec, MilestonesImplemented, Milestones!Spec

-----------------------------------------------------------------------------
(* Requests that do not overlap, and no packet that mark_sent submits.     *)

\* What a staged update says of the state that it was staged in, and that it
\* still finds: no other session can have committed since.
Current(u) ==
    /\ u.event = NoEvent => u.status = Keep /\ u.processing = Keep
    /\ u.event # NoEvent =>
          /\ u.status = Changed(load.status, u.event)
          /\ u.processing = Changed(load.processing, ProcessingFor(u.event))
    /\ u.event \in NeedsNoBlockingIssue => ~blocking
    /\ u.event \in Submitted => MissingForSubmission = {}

Alone == \A p, q \in Requests : p = q

EngineOnly == Alone /\ Destinations \subseteq {"other"}

\* Without a change of status the columns still agree, so that the trail does.
AInv == TypeOK /\ TrailMatchesStatus /\ \A r \in Requests : Current(session[r])

LEMMA AInvInitially == Init => AInv
  <1> SUFFICES ASSUME Init PROVE AInv
    OBVIOUS
  <1>1. TypeOK
    BY InitIInv DEF IInv
  <1>2. TrailMatchesStatus
    BY DEF Init, TrailMatchesStatus, ProcessingFor
  <1>3. Current(NoChange)
    BY DEF Current, NoChange, SideUpdate, NoEvent, NeedsNoBlockingIssue, Submitted
  <1> QED  BY <1>1, <1>2, <1>3 DEF AInv, Init

\* Staging a current update: the state does not move.
LEMMA StageKeepsAInv ==
    ASSUME AInv, NEW r \in Requests, NEW u \in Update, Current(u), Stage(r, u)
    PROVE  AInv'
  <1>1. TypeOK'
    BY DEF AInv, TypeOK, Stage
  <1>2. /\ load' = load /\ trail' = trail /\ blocking' = blocking /\ docs' = docs
        /\ \A q \in Requests : session'[q] = u \/ session'[q] = session[q]
    BY DEF Stage, AInv, TypeOK
  <1>3. TrailMatchesStatus'
    BY <1>2 DEF AInv, TrailMatchesStatus
  <1>4. ASSUME NEW q \in Requests PROVE Current(session[q])'
    BY <1>2 DEF AInv, Current, MissingForSubmission
  <1> QED  BY <1>1, <1>3, <1>4 DEF AInv

LEMMA SideUpdateCurrent ==
    ASSUME NEW attached, NEW detached, NEW issue, NEW created
    PROVE  Current(SideUpdate(attached, detached, issue, created))
  BY DEF SideUpdate, Current, NoEvent, NeedsNoBlockingIssue, Submitted

LEMMA TransitionCurrent ==
    ASSUME NEW target \in LoadStatus, transition_load(target), NEW f
    PROVE  Current(apply_status_change(target, f))
  <1>1. target # NoEvent
    BY DEF NoEvent, LoadStatus
  <1> QED
    BY <1>1 DEF Current, apply_status_change, RowUpdate, transition_load,
                TransitionPreconditions

\* The only session commits what still is current, and none is left.
LEMMA CommitKeepsAInv ==
    ASSUME AInv, IInv, Alone, NEW r \in Requests, Commit(r)
    PROVE  AInv'
  <1> DEFINE u == session[r]
  <1>1. TypeOK'
    BY CommitKeepsIInv DEF IInv
  <1>2. Current(u) /\ u \in Update /\ load \in Row
    BY DEF AInv, TypeOK
  <1>3. /\ load'.status = IF u.status = Keep THEN load.status ELSE u.status
        /\ load'.processing = IF u.processing = Keep THEN load.processing
                              ELSE u.processing
        /\ trail'.last = IF u.event = NoEvent THEN trail.last ELSE u.event
    BY <1>2 DEF Commit, Flush, publish_load_event
  <1> HIDE DEF u
  <1>4. TrailMatchesStatus'
    <2>1. CASE u.event = NoEvent
      BY <1>2, <1>3, <2>1 DEF AInv, Current, TrailMatchesStatus
    <2>2. CASE u.event # NoEvent
      <3>1. u.event \in LoadStatus /\ ProcessingFor(u.event) \in ProcessingStatus
        BY <1>2, <2>2, ProcessingForType DEF Update
      <3>2. Keep \notin LoadStatus /\ Keep \notin ProcessingStatus
        BY DEF Keep, LoadStatus, ProcessingStatus
      <3>3. load'.status = u.event
        BY <1>2, <1>3, <2>2, <3>1, <3>2 DEF Current, Changed
      <3>4. load'.processing = ProcessingFor(u.event)
        BY <1>2, <1>3, <2>2, <3>1, <3>2 DEF Current, Changed
      <3> QED  BY <1>3, <2>2, <3>3, <3>4 DEF TrailMatchesStatus
    <2> QED  BY <2>1, <2>2
  <1>5. \A q \in Requests : session'[q] = NoChange
    BY DEF Commit, Alone, AInv, TypeOK
  <1>6. \A q \in Requests : Current(session[q])'
    BY <1>5 DEF Current, NoChange, SideUpdate, NoEvent, NeedsNoBlockingIssue,
                Submitted
  <1> QED  BY <1>1, <1>4, <1>6 DEF AInv

LEMMA NextKeepsAInv ==
    ASSUME EngineOnly, IInv, AInv, [Next]_vars
    PROVE  AInv'
  <1> USE TargetsAssumption
  <1>1. ASSUME NEW r \in Requests, NEW target \in Targets,
               NEW f \in {Keep, "set", "clear"},
               transition_load(target), Stage(r, apply_status_change(target, f))
        PROVE  AInv'
    <2>1. apply_status_change(target, f) \in Update
      BY RowUpdateType DEF AInv
    <2> QED  BY <1>1, <2>1, TransitionCurrent, StageKeepsAInv
  <1>2. ASSUME NEW r \in Requests, NEW a \in SUBSET SubmissionRequired,
               NEW d \in SUBSET SubmissionRequired,
               NEW i \in {Keep, "set", "clear"}, NEW c \in BOOLEAN,
               Stage(r, SideUpdate(a, d, i, c))
        PROVE  AInv'
    BY <1>2, SideUpdateJustified, SideUpdateCurrent, StageKeepsAInv
  <1>3. ASSUME NEW r \in Requests, NEW target \in Targets,
               \/ TransitionLoadStatus(r, target)
               \/ DriverLoadCheckIn(r, target)
               \/ \E f \in {Keep, "set", "clear"} :
                     ApplyOperationalAction(r, target, f)
        PROVE  AInv'
    BY <1>1, <1>3 DEF TransitionLoadStatus, DriverLoadCheckIn,
                      ApplyOperationalAction
  <1>4. ASSUME NEW r \in Requests, NEW required \in BOOLEAN,
               UpdateLoad(r, required)
        PROVE  AInv'
    <2> DEFINE f == IF required = load.follow_up THEN Keep
                    ELSE IF required THEN "set" ELSE "clear"
               u == RowUpdate(Keep, Keep, FALSE, FALSE, FALSE, f, NoEvent)
    <2>1. u \in Update /\ Current(u)
      BY DEF RowUpdate, Update, Current, Keep, NoEvent, NeedsNoBlockingIssue,
             Submitted
    <2> QED  BY <1>4, <2>1, StageKeepsAInv DEF UpdateLoad
  <1>5. ASSUME NEW r \in Requests, NEW destination \in Destinations,
               MarkSubmissionPacketSent(r, destination)
        PROVE  AInv'
    <2>1. SentStatus(destination) = Keep
      BY DEF EngineOnly, SentStatus
    <2> QED  BY <1>2, <1>5, <2>1 DEF MarkSubmissionPacketSent, NoChange
  <1>6. ASSUME NEW r \in Requests,
               \/ CreateSubmissionPacket(r)
               \/ \E type \in SubmissionRequired :
                     CreateDocument(r, type) \/ DeleteDocument(r, type)
               \/ ValidateLoad(r) \/ ResolveValidationIssue(r)
        PROVE  AInv'
    <2>1. CASE CreateSubmissionPacket(r)
      BY <1>2, <2>1 DEF CreateSubmissionPacket
    <2>2. ASSUME NEW type \in SubmissionRequired,
                 CreateDocument(r, type) \/ DeleteDocument(r, type)
          PROVE  AInv'
      <3>1. {type} \in SUBSET SubmissionRequired /\ {} \in SUBSET SubmissionRequired
        OBVIOUS
      <3> QED  BY <1>2, <2>2, <3>1 DEF CreateDocument, DeleteDocument
    <2>3. CASE ValidateLoad(r) \/ ResolveValidationIssue(r)
      BY <1>2, <2>3 DEF ValidateLoad, ResolveValidationIssue
    <2> QED  BY <1>6, <2>1, <2>2, <2>3
  <1>7. ASSUME NEW r \in Requests, Commit(r) PROVE AInv'
    BY <1>7, CommitKeepsAInv DEF EngineOnly
  <1>8. ASSUME NEW r \in Requests, Abandon(r) PROVE AInv'
    <2>1. /\ load' = load /\ trail' = trail /\ blocking' = blocking
          /\ docs' = docs
          /\ \A q \in Requests :
                session'[q] = NoChange \/ session'[q] = session[q]
      BY <1>8 DEF Abandon, AInv, TypeOK
    <2>2. TypeOK'
      BY <1>8, AbandonKeepsIInv DEF IInv
    <2>3. ASSUME NEW q \in Requests PROVE Current(session[q])'
      BY <2>1 DEF AInv, Current, MissingForSubmission, NoChange, SideUpdate,
                  NoEvent, NeedsNoBlockingIssue, Submitted
    <2> QED  BY <2>1, <2>2, <2>3 DEF AInv, TrailMatchesStatus
  <1>9. CASE UNCHANGED vars
    BY <1>9 DEF vars, AInv, TypeOK, TrailMatchesStatus, Current,
                MissingForSubmission
  <1> QED  BY <1>3, <1>4, <1>5, <1>6, <1>7, <1>8, <1>9 DEF Next

LEMMA AInvHolds == EngineOnly => (Spec => [](IInv /\ AInv))
  <1> SUFFICES ASSUME EngineOnly PROVE Spec => [](IInv /\ AInv)
    OBVIOUS
  <1>1. Init => IInv /\ AInv
    BY InitIInv, AInvInitially
  <1>2. IInv /\ AInv /\ [Next]_vars => (IInv /\ AInv)'
    BY NextKeepsIInv, NextKeepsAInv
  <1> QED  BY <1>1, <1>2, PTL DEF Spec

\* As long as requests do not overlap and the engine alone submits, the latest
\* event tells the status, and the processing status is the one that belongs to
\* it, although a column whose value does not change is not written.
THEOREM TrailAlwaysMatches == EngineOnly => (Spec => []TrailMatchesStatus)
  <1> SUFFICES ASSUME EngineOnly PROVE Spec => []TrailMatchesStatus
    OBVIOUS
  <1>1. IInv /\ AInv => TrailMatchesStatus
    BY DEF AInv
  <1> QED  BY <1>1, AInvHolds, PTL

\* A step that changes the status commits the update that asked for it.
LEMMA StatusChanges ==
    ASSUME AInv, [Next]_vars, load'.status # load.status
    PROVE  \E r \in Requests : /\ Commit(r)
                               /\ load'.status = session[r].event
                               /\ Current(session[r])
  <1>1. PICK r \in Requests : Commit(r)
    BY DEF Next, vars, Stage, TransitionLoadStatus, DriverLoadCheckIn,
           ApplyOperationalAction, UpdateLoad, CreateSubmissionPacket,
           MarkSubmissionPacketSent, CreateDocument, DeleteDocument,
           ValidateLoad, ResolveValidationIssue, Abandon
  <1>2. session[r] \in Update /\ load \in Row /\ Current(session[r])
    BY DEF AInv, TypeOK
  <1>3. load'.status = IF session[r].status = Keep THEN load.status
                       ELSE session[r].status
    BY <1>1 DEF Commit, Flush
  <1>4. load'.status = session[r].event
    BY <1>2, <1>3 DEF Current, Changed
  <1> QED  BY <1>1, <1>2, <1>4

\* Then no load is submitted while a required document is missing, not even
\* between the check and the commit.
THEOREM SubmissionsHaveDocuments == EngineOnly => (Spec => SubmissionHasDocuments)
  <1> SUFFICES ASSUME EngineOnly PROVE Spec => SubmissionHasDocuments
    OBVIOUS
  <1>1. IInv /\ AInv /\ [Next]_vars
        => [load'.status # load.status /\ load'.status \in Submitted
              => MissingForSubmission = {}]_vars
    BY StatusChanges DEF Current
  <1> QED  BY <1>1, AInvHolds, PTL DEF Spec, SubmissionHasDocuments

\* Nor does one advance to billing, submission or money while a blocking issue
\* is unresolved.
THEOREM BlockingIssuesAlwaysPrevent ==
    EngineOnly => (Spec => BlockingIssuesPreventForward)
  <1> SUFFICES ASSUME EngineOnly PROVE Spec => BlockingIssuesPreventForward
    OBVIOUS
  <1>1. IInv /\ AInv /\ [Next]_vars
        => [load'.status # load.status /\ load'.status \in NeedsNoBlockingIssue
              => ~blocking]_vars
    BY StatusChanges DEF Current
  <1> QED  BY <1>1, AInvHolds, PTL DEF Spec, BlockingIssuesPreventForward

-----------------------------------------------------------------------------
(* What the queues and the command center say of a load.                   *)

\* What a load whose milestones agree is refused: a way on is open to every
\* active load that has its documents and no blocking issue.
LEMMA OpenWay ==
    ASSUME TypeOK, MilestonesRecorded, load.status \in ACTIVE_LOAD_STATUSES,
           MissingForSubmission = {}, ~blocking
    PROVE  MovesOpen # {}
  <1>1. load \in Row
    BY DEF TypeOK
  <1>2. ASSUME NEW target \in LoadStatus, TransitionPreconditions(target),
               target \in ALLOWED_TRANSITIONS[load.status],
               target \notin {"archived", "docs_needs_attention"}
        PROVE  MovesOpen # {}
    BY <1>2 DEF MovesOpen
  <1>3. CASE load.status \in {"booked", "in_transit", "delivered", "docs_received",
                              "docs_needs_attention"}
    <2> DEFINE target == IF load.status = "booked" THEN "in_transit"
                         ELSE IF load.status = "in_transit" THEN "delivered"
                         ELSE IF load.status = "delivered" THEN "docs_received"
                         ELSE "invoice_ready"
    <2>1. target \in ALLOWED_TRANSITIONS[load.status]
      BY <1>3 DEF ALLOWED_TRANSITIONS, LoadStatus
    <2>2. target \in {"in_transit", "delivered", "docs_received", "invoice_ready"}
      BY <1>3
    <2> HIDE DEF target
    <2>3. TransitionPreconditions(target)
      BY <2>2 DEF TransitionPreconditions, Submitted, FactoringOnly
    <2> QED  BY <1>2, <2>1, <2>2, <2>3 DEF LoadStatus
  <1>4. CASE load.status \in {"invoice_ready", "resubmission_needed"}
    <2>1. "submitted_to_factoring" \in ALLOWED_TRANSITIONS[load.status]
      BY <1>4 DEF ALLOWED_TRANSITIONS, LoadStatus, Submitted
    <2>2. TransitionPreconditions("submitted_to_factoring")
      BY <1>4 DEF TransitionPreconditions, Submitted, FactoringOnly
    <2> QED  BY <1>2, <2>1, <2>2 DEF LoadStatus
  <1>5. CASE load.status = "packet_rejected"
    <2>1. "resubmission_needed" \in ALLOWED_TRANSITIONS[load.status]
      BY <1>5 DEF ALLOWED_TRANSITIONS, LoadStatus
    <2>2. TransitionPreconditions("resubmission_needed")
      BY <1>5 DEF TransitionPreconditions, Submitted, FactoringOnly,
                  has_factoring_path
    <2> QED  BY <1>2, <2>1, <2>2 DEF LoadStatus
  <1>6. CASE load.status \in {"submitted_to_broker", "submitted_to_factoring",
                              "advance_paid", "reserve_pending", "short_paid"}
    <2>1. "disputed" \in ALLOWED_TRANSITIONS[load.status]
      BY <1>6 DEF ALLOWED_TRANSITIONS, LoadStatus
    <2>2. load.submitted_at
      BY <1>6 DEF MilestonesRecorded, AfterSubmission, Submitted, FactoringOnly
    <2>3. TransitionPreconditions("disputed")
      BY <2>2 DEF TransitionPreconditions, Submitted, FactoringOnly
    <2> QED  BY <1>2, <2>1, <2>3 DEF LoadStatus
  <1>7. CASE load.status = "disputed"
    <2>1. "fully_paid" \in ALLOWED_TRANSITIONS[load.status]
      BY <1>7 DEF ALLOWED_TRANSITIONS, LoadStatus
    <2>2. load.submitted_at
      BY <1>7 DEF MilestonesRecorded, AfterSubmission
    <2>3. TransitionPreconditions("fully_paid")
      BY <2>2 DEF TransitionPreconditions, Submitted, FactoringOnly
    <2> QED  BY <1>2, <2>1, <2>3 DEF LoadStatus
  <1> QED
    BY <1>1, <1>3, <1>4, <1>5, <1>6, <1>7
    DEF ACTIVE_LOAD_STATUSES, Row, LoadStatus

\* No load is stuck unnoticed: what the engine refuses every way on for, a task
\* of the command center names, however requests overlapped before.
THEOREM StuckLoadsAlwaysHaveTasks == Spec => []StuckLoadsHaveTasks
  <1>1. IInv => StuckLoadsHaveTasks
    <2> SUFFICES ASSUME IInv, load.status \in ACTIVE_LOAD_STATUSES,
                        MovesOpen = {},
                        NEW failed \in PacketOutcomes, NEW blockers \in BlockerCounts
                 PROVE  /\ document_tasks(failed, blockers) # {}
                        /\ "resend_packet" \notin
                              TypesOf(document_tasks(failed, blockers))
      BY DEF StuckLoadsHaveTasks
    <2> DEFINE p == missing_doc_priority(failed, blockers)
               missing == {Notice("missing_document", severity(p), p) :
                              d \in MissingForSubmission}
               review == If(blocking, {Notice("review_blocked_packet", "critical",
                                              AtLeast90(p))})
               tasks == document_tasks(failed, blockers)
    <2>1. MissingForSubmission # {} \/ blocking
      BY OpenWay DEF IInv
    <2>2. MissingDocItem(failed)
      BY <2>1 DEF MissingDocItem, blocked_from_packet_send
    <2>3. tasks = missing \cup review
      BY <2>1, <2>2 DEF document_tasks, If
    <2>4. missing # {} \/ review # {}
      BY <2>1 DEF If
    <2>5. \A task \in missing \cup review :
             task.type \in {"missing_document", "review_blocked_packet"}
      BY DEF Notice, If
    <2> HIDE DEF tasks
    <2>6. "resend_packet" \notin TypesOf(tasks)
      BY <2>3, <2>5 DEF TypesOf
    <2> QED  BY <2>3, <2>4, <2>6 DEF tasks
  <1> QED  BY <1>1, InvariantHolds, PTL

\* The queue and the engine judge a load alike: what is said to be ready for
\* submission may be submitted, and the other way round.
THEOREM AdviceIsAlwaysAccepted == Spec => []AdviceIsAccepted
  <1>1. TypeOK => AdviceIsAccepted
    <2> SUFFICES ASSUME TypeOK, NEW hasInvoice \in BOOLEAN, NEW days \in Days
                 PROVE  /\ next_action(hasInvoice, days) = "submit_to_broker" =>
                              \A target \in Submitted :
                                 transition_load(target) \/ blocking
                        /\ /\ load.status = "invoice_ready"
                           /\ transition_load("submitted_to_broker")
                           => next_action(hasInvoice, days) = "submit_to_broker"
      BY DEF AdviceIsAccepted
    <2>1. ASSUME next_action(hasInvoice, days) = "submit_to_broker"
          PROVE  load.status = "invoice_ready" /\ ready_to_submit
      BY <2>1 DEF next_action, InvoiceAction
    <2>2. ASSUME load.status = "invoice_ready", ready_to_submit, ~blocking,
                 NEW target \in Submitted
          PROVE  transition_load(target)
      <3>1. target \in ALLOWED_TRANSITIONS["invoice_ready"]
        BY DEF ALLOWED_TRANSITIONS, LoadStatus, Submitted
      <3>2. MissingForSubmission = {}
        BY <2>2 DEF ready_to_submit, MissingForSubmission
      <3> QED
        BY <2>2, <3>1, <3>2
        DEF transition_load, can_transition, TransitionPreconditions, Submitted,
            FactoringOnly
    <2>3. ASSUME load.status = "invoice_ready",
                 transition_load("submitted_to_broker")
          PROVE  next_action(hasInvoice, days) = "submit_to_broker"
      <3>1. MissingForSubmission = {} /\ ready_to_submit
        BY <2>3 DEF transition_load, TransitionPreconditions, Submitted,
                    MissingForSubmission, ready_to_submit
      <3> QED  BY <2>3, <3>1 DEF next_action, NeedsRepair
    <2> QED  BY <2>1, <2>2, <2>3
  <1> QED  BY <1>1, TypeCorrect, PTL

\* An overdue load has waited three days at least, and is in no queue that
\* comes before that of the overdue.
LEMMA OverdueScore ==
    ASSUME TypeOK, NEW hasInvoice \in BOOLEAN, NEW days \in Nat, is_overdue(days)
    PROVE  LET queue == primary_queue(hasInvoice, days)
           IN  /\ priority_score(load.status, queue, TRUE, days) \in Nat
               /\ priority_score(load.status, queue, TRUE, days) > 118
  <1> DEFINE In(i) == InQueue(QUEUE_ORDER[i], hasInvoice, days)
             terms == Submitted \cup {"advance_paid", "reserve_pending"}
  <1>1. load.status \in terms /\ days >= 3
        /\ (load.status \notin Submitted => days >= 7)
    <2>1. /\ DOMAIN FOLLOW_UP_DAYS_BY_STATUS = terms
          /\ \A s \in Submitted : FOLLOW_UP_DAYS_BY_STATUS[s] = 3
          /\ FOLLOW_UP_DAYS_BY_STATUS["advance_paid"] = 7
          /\ FOLLOW_UP_DAYS_BY_STATUS["reserve_pending"] = 10
      BY DEF FOLLOW_UP_DAYS_BY_STATUS, Submitted
    <2> QED  BY <2>1 DEF is_overdue
  <1>2. /\ DOMAIN QUEUE_ORDER = 1..8
        /\ QUEUE_ORDER[1] = "disputed_or_short_paid"
        /\ QUEUE_ORDER[2] = "payment_overdue"
    BY DEF QUEUE_ORDER
  <1>3. ~In(1) /\ In(2)
    BY <1>1, <1>2 DEF InQueue, Submitted
  <1>4. primary_queue(hasInvoice, days) = "payment_overdue"
    <2> HIDE DEF In
    <2> DEFINE First(i) == In(i) /\ \A j \in 1 .. i - 1 : ~In(j)
               first == CHOOSE i \in DOMAIN QUEUE_ORDER : First(i)
    <2>1. 2 \in DOMAIN QUEUE_ORDER /\ First(2)
      <3>1. 1 .. 2 - 1 = {1}
        OBVIOUS
      <3> QED  BY <1>2, <1>3, <3>1
    <2>2. first \in 1..8 /\ First(first)
      BY <1>2, <2>1
    <2>3. \E i \in DOMAIN QUEUE_ORDER : In(i)
      BY <2>1
    <2>4. primary_queue(hasInvoice, days) = QUEUE_ORDER[first]
      BY <2>3 DEF primary_queue, In
    <2> HIDE DEF first
    <2>5. first = 2
      <3>1. CASE first = 1
        BY <1>3, <2>2, <3>1
      <3>2. CASE first > 2
        <4>1. 2 \in 1 .. first - 1
          BY <2>2, <3>2
        <4> QED  BY <1>3, <2>2, <4>1
      <3> QED  BY <2>2, <3>1, <3>2
    <2> QED  BY <1>2, <2>4, <2>5
  <1>5. QUEUE_SCORES["payment_overdue"] = 100
    BY DEF QUEUE_SCORES
  <1>6. load.status # "invoice_ready"
    BY <1>1 DEF Submitted
  <1> QED  BY <1>1, <1>4, <1>5, <1>6 DEF priority_score

\* No load that is not overdue scores more than 118.
LEMMA OtherScores ==
    ASSUME NEW other \in ScoresNotDue
    PROVE  other \in Nat /\ other <= 118
  <1> DEFINE Queues == DOMAIN QUEUE_SCORES \ {"payment_overdue"}
             Score(s, q, d) == priority_score(s, q, FALSE, d)
             scores == {Score(s, q, d) : s \in LoadStatus, q \in Queues, d \in 0 .. 15}
  <1>0. ScoresNotDue = scores
    BY DEF ScoresNotDue
  <1> HIDE DEF Score
  <1>1. PICK s \in LoadStatus, q \in Queues, d \in 0 .. 15 : other = Score(s, q, d)
    BY <1>0
  <1>2. QUEUE_SCORES[q] \in 0 .. 95
    BY DEF QUEUE_SCORES
  <1> QED  BY <1>1, <1>2 DEF priority_score, Score

LEMMA OverdueFirst == TypeOK => OverdueRanksFirst
  <1> SUFFICES ASSUME TypeOK, NEW hasInvoice \in BOOLEAN, NEW days \in Days,
                      is_overdue(days), NEW other \in ScoresNotDue
               PROVE  other < priority_score(load.status,
                                             primary_queue(hasInvoice, days),
                                             TRUE, days)
    BY DEF OverdueRanksFirst
  <1>1. days \in Nat
    BY DaysAssumption
  <1> DEFINE queue == primary_queue(hasInvoice, days)
             score == priority_score(load.status, queue, TRUE, days)
  <1>2. score \in Nat /\ score > 118
    BY <1>1, OverdueScore
  <1>3. other \in Nat /\ other <= 118
    BY OtherScores
  <1> HIDE DEF score
  <1>4. other < score
    BY <1>2, <1>3
  <1> QED  BY <1>4 DEF score

\* Priorities are whole numbers.
LEMMA PriorityType ==
    ASSUME NEW failed, NEW blockers
    PROVE  /\ missing_doc_priority(failed, blockers) \in Nat
           /\ AtLeast90(missing_doc_priority(failed, blockers)) \in Nat
           /\ AtLeast90(missing_doc_priority(failed, blockers)) >= 90
           /\ AtLeast90(missing_doc_priority(failed, blockers))
                 >= missing_doc_priority(failed, blockers)
  <1>1. missing_doc_priority(failed, blockers) \in Nat
    BY DEF missing_doc_priority, Points, AtMost100
  <1> QED  BY <1>1 DEF AtLeast90

LEMMA NoticeParts ==
    ASSUME NEW type, NEW level, NEW priority
    PROVE  LET n == Notice(type, level, priority)
           IN  n.type = type /\ n.severity = level /\ n.priority = priority
  BY DEF Notice

\* The alerts and tasks of a load, one by one, and the tasks that answer them.
LEMMA NoticesAgree ==
    ASSUME NEW failed \in BOOLEAN, NEW blockers, NEW days \in Nat
    PROVE  LET alerts == document_alerts(failed, blockers) \cup load_alerts(days)
               tasks == document_tasks(failed, blockers) \cup activity_tasks(days)
           IN  /\ AlertsHaveTasks(alerts, tasks)
               /\ \A notice \in alerts \cup tasks :
                     notice.severity = severity(notice.priority)
  <1> DEFINE p == missing_doc_priority(failed, blockers)
             alerts == document_alerts(failed, blockers) \cup load_alerts(days)
             tasks == document_tasks(failed, blockers) \cup activity_tasks(days)
             pod == Notice("missing_pod", severity(p), p)
             rate == Notice("missing_rate_confirmation", severity(p), p)
             send == Notice("blocked_packet_send", "critical", AtLeast90(p))
             stale == Notice("stale_load_activity", "info", 35)
             blocker == Notice("packet_intelligence_blocker", "critical", 90)
             document == Notice("missing_document", severity(p), p)
             review == Notice("review_blocked_packet", "critical", AtLeast90(p))
             resend == Notice("resend_packet", severity(p), p)
             activity == Notice("review_load_activity", "info", 35)
  <1>1. p \in Nat /\ AtLeast90(p) \in Nat /\ AtLeast90(p) >= 90 /\ AtLeast90(p) >= p
    BY PriorityType
  <1>2. /\ TasksFor["missing_pod"] = {"missing_document"}
        /\ TasksFor["missing_rate_confirmation"] = {"missing_document"}
        /\ TasksFor["blocked_packet_send"] =
              {"missing_document", "review_blocked_packet", "resend_packet"}
        /\ TasksFor["packet_intelligence_blocker"] = {"review_blocked_packet"}
        /\ TasksFor["stale_load_activity"] = {"review_load_activity"}
    BY DEF TasksFor
  <1>3. /\ \A alert \in alerts :
             \/ alert = pod /\ MissingDocItem(failed) /\ MissingForSubmission # {}
             \/ alert = rate /\ MissingDocItem(failed) /\ MissingForSubmission # {}
             \/ alert = send /\ MissingDocItem(failed)
             \/ alert = stale /\ IsStale(days)
             \/ alert = blocker /\ MissingDocItem(failed) /\ blocking
    BY DEF document_alerts, load_alerts, If, MissingDocItem,
           blocked_from_packet_send
  <1>4. /\ MissingDocItem(failed) /\ MissingForSubmission # {} => document \in tasks
        /\ MissingDocItem(failed) /\ blocking => review \in tasks
        /\ MissingDocItem(failed) /\ ~blocking /\ MissingForSubmission = {}
           => resend \in tasks
        /\ IsStale(days) => activity \in tasks
    BY DEF document_tasks, activity_tasks, If
  <1>5. \A task \in tasks : task \in {document, review, resend, activity}
    BY DEF document_tasks, activity_tasks, If
  <1> HIDE DEF p, alerts, tasks
  <1>6. /\ pod.type = "missing_pod" /\ pod.priority = p
        /\ rate.type = "missing_rate_confirmation" /\ rate.priority = p
        /\ send.type = "blocked_packet_send"
        /\ stale.type = "stale_load_activity" /\ stale.priority = 35
        /\ blocker.type = "packet_intelligence_blocker" /\ blocker.priority = 90
    BY NoticeParts
  <1>7. /\ document.type = "missing_document" /\ document.priority = p
        /\ review.type = "review_blocked_packet" /\ review.priority = AtLeast90(p)
        /\ resend.type = "resend_packet"
        /\ activity.type = "review_load_activity" /\ activity.priority = 35
    BY NoticeParts
  <1>8. /\ send.priority = AtLeast90(p)
    BY NoticeParts
  <1>9. \A n \in {pod, rate, send, stale, blocker, document, review, resend, activity} :
           n.severity = severity(n.priority)
    <2>1. severity(35) = "info" /\ severity(90) = "critical"
          /\ severity(AtLeast90(p)) = "critical"
      BY <1>1 DEF severity
    <2> QED  BY <2>1, NoticeParts
  <1> HIDE DEF pod, rate, send, stale, blocker, document, review, resend, activity
  <1>10. ASSUME NEW alert \in alerts
         PROVE  \E task \in tasks :
                   /\ task.type \in TasksFor[alert.type]
                   /\ \/ task.priority >= alert.priority
                      \/ alert.type = "blocked_packet_send" /\ ~blocking
    <2>1. CASE alert \in {pod, rate} /\ document \in tasks
      BY <1>1, <1>2, <1>6, <1>7, <2>1
    <2>2. CASE alert = send /\ MissingDocItem(failed)
      <3>1. CASE blocking
        BY <1>1, <1>2, <1>4, <1>6, <1>7, <1>8, <2>2, <3>1
      <3>2. CASE ~blocking /\ MissingForSubmission # {}
        BY <1>2, <1>4, <1>6, <1>7, <2>2, <3>2
      <3>3. CASE ~blocking /\ MissingForSubmission = {}
        BY <1>2, <1>4, <1>6, <1>7, <2>2, <3>3
      <3> QED  BY <3>1, <3>2, <3>3
    <2>3. CASE alert = stale /\ activity \in tasks
      BY <1>2, <1>6, <1>7, <2>3
    <2>4. CASE alert = blocker /\ review \in tasks
      BY <1>1, <1>2, <1>6, <1>7, <2>4
    <2> QED  BY <1>3, <1>4, <2>1, <2>2, <2>3, <2>4
  <1>11. \A notice \in alerts \cup tasks : notice.severity = severity(notice.priority)
    BY <1>3, <1>5, <1>9
  <1> QED  BY <1>10, <1>11 DEF AlertsHaveTasks, alerts, tasks

LEMMA StaleIsStalled ==
    ASSUME NEW days \in Nat, IsStale(days), NEW date \in {days, days + 1}
    PROVE  stalled_priority(date) > 0
  <1>1. /\ load.status \in {"booked", "in_transit", "delivered"} /\ days >= 7
        /\ load.status \in ACTIVE_LOAD_STATUSES
    BY DEF IsStale, ACTIVE_LOAD_STATUSES, LoadStatus
  <1>2. date \in Nat /\ date >= 7
    BY <1>1
  <1>3. AtMost100(35 + date * 5) > 0
    BY <1>2 DEF AtMost100
  <1> QED  BY <1>1, <1>2, <1>3 DEF stalled_priority, Points

\* What the lists say of a load fits together, for every load and every age.
THEOREM ListsAlwaysAgree == Spec => []ListsAgree
  <1>1. TypeOK => ListsAgree
    <2> SUFFICES ASSUME TypeOK PROVE ListsAgree
      OBVIOUS
    <2>1. OverdueRanksFirst
      BY OverdueFirst
    <2>2. ASSUME NEW failed \in PacketOutcomes, NEW blockers \in BlockerCounts,
                 NEW days \in Days
          PROVE  LET alerts == document_alerts(failed, blockers)
                               \cup load_alerts(days)
                     tasks == document_tasks(failed, blockers)
                              \cup activity_tasks(days)
                 IN  /\ AlertsHaveTasks(alerts, tasks)
                     /\ \A notice \in alerts \cup tasks :
                          notice.severity = severity(notice.priority)
                     /\ IsStale(days) =>
                          \A date \in {days, days + 1} : stalled_priority(date) > 0
      <3>1. days \in Nat /\ failed \in BOOLEAN
        BY DaysAssumption DEF PacketOutcomes
      <3> QED  BY <3>1, NoticesAgree, StaleIsStalled
    <2>3. ASSUME NEW hasInvoice \in BOOLEAN, NEW days \in Days
          PROVE  LET advice == next_action(hasInvoice, days)
                 IN  /\ advice = "submit_to_broker" => readiness_action = "submit"
                     /\ advice = "generate_invoice" =>
                           readiness_action # "collect_documents"
                     /\ readiness_action = "submit" =>
                           advice \notin {"upload_pod", "upload_invoice"}
      <3>1. ready_to_submit <=> MissingForSubmission = {}
        BY DEF ready_to_submit, MissingForSubmission
      <3> QED  BY <3>1 DEF next_action, InvoiceAction, readiness_action
    <2> QED  BY <2>1, <2>2, <2>3 DEF ListsAgree
  <1> QED  BY <1>1, TypeCorrect, PTL
=============================================================================
