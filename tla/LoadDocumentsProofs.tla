------------------------ MODULE LoadDocumentsProofs ------------------------
(***************************************************************************)
(* The type invariant of LoadDocuments, and the proof that the staff's     *)
(* requests never leave a committed document row without its file, however *)
(* many of them overlap.                                                   *)
(*                                                                         *)
(* A replacement or a deletion hands the file it read to a background task *)
(* some time after it read it, so what must be shown is that no such file  *)
(* belongs to a row again: keys are not used twice, a key that a request   *)
(* has read belongs to the row it read or to none, and a written row stays *)
(* locked until its request ends.                                          *)
(*                                                                         *)
(* Where requests do not overlap, what a request has read stays true until *)
(* it commits: no required document is doubled, and the flags on the load  *)
(* follow its documents.                                                   *)
(***************************************************************************)
EXTENDS MCLoadDocuments, TLAPS

USE TypesAssumption, OperationsAssumption, NoneAssumption

UploadOps == {"upload", "driver_upload"}

RowOps == {"delete", "update", "link"}

\* The steps at which a request has a changed row in its session.
Held == {"written", "dropped"}

\* What the fields of a request say of each other.
Shaped(t) ==
    /\ t.step = "idle" => t = Idle
    /\ t.step # "idle" => t.op \in Operations
    /\ t.key # None <=> t.op \in UploadOps /\ t.step \in {"saved"} \cup Held
    /\ t.isNew => t.op \in UploadOps /\ t.old = None
    /\ t.op \in UploadOps \cup RowOps => t.type \in Types
    /\ t.op \in RowOps \/ (t.op \in UploadOps /\ ~t.isNew)
       => t.doc \in Documents /\ t.old \in Keys
    /\ t.isNew /\ t.step \in Held => t.doc \in Documents
    /\ t.isNew /\ t.step \notin Held => t.doc = None
    /\ t.op \in {"patch", "mark_sent"}
       => t.step = "written" /\ t.load \in Loads /\ t.doc = None /\ t.old = None

TasksShaped == \A r \in Requests : Shaped(task[r])

\* A row that a request has written is locked: it stays in the table unless it
\* is being deleted, or out of it and out of sight while it is being inserted.
RowsLocked ==
    \A r \in Requests : task[r].step \in Held /\ task[r].doc # None =>
        /\ \A q \in Requests \ {r} :
              task[q].step \in Held => task[q].doc # task[r].doc
        /\ ~task[r].isNew /\ task[r].op # "delete" => task[r].doc \in live
        /\ task[r].isNew => /\ task[r].doc \notin live
                            /\ \A q \in Requests \ {r} : task[q].doc # task[r].doc

RowsHaveKeys == \A d \in live : row[d].key \in Keys

SInv == TypeOK /\ TasksShaped /\ RowsLocked /\ RowsHaveKeys

\* No request of a driver is in flight.
NoDriver == \A r \in Requests : task[r].op # "driver_upload"

LiveFilesKept == \A d \in live : row[d].key \in files \ deferred

LiveKeysDiffer ==
    \A d, e \in live : row[d].key = row[e].key => d = e

\* A file that an upload has saved, and not yet given to a row, is its alone.
SavedFilesFresh ==
    \A r \in Requests : task[r].key # None =>
        /\ task[r].key \in files \ deferred
        /\ \A d \in live : row[d].key # task[r].key
        /\ \A q \in Requests : task[q].old # task[r].key
        /\ \A q \in Requests \ {r} : task[q].key # task[r].key

\* The key that a request has read belongs to the row that it works on, or by
\* now to none.
OldKeysOwned ==
    \A r \in Requests, d \in live :
        row[d].key = task[r].old => d = task[r].doc

KInv == LiveFilesKept /\ LiveKeysDiffer /\ SavedFilesFresh /\ OldKeysOwned

-----------------------------------------------------------------------------
(* Types of the operators.                                                 *)

LEMMA NoRowType == NoRow \in Row
  BY DEF NoRow, Row

LEMMA ReadinessType ==
    ASSUME NEW present
    PROVE  Readiness(present) \in [FlagNames -> BOOLEAN]
  BY DEF Readiness

LEMMA NoFlags == [f \in {} |-> FALSE] \in FlagUpdate
  <1>1. [f \in {} |-> FALSE] \in [{} -> BOOLEAN]  OBVIOUS
  <1>2. {} \in SUBSET FlagNames  OBVIOUS
  <1> QED  BY <1>1, <1>2 DEF FlagUpdate

LEMMA AllFlags ==
    ASSUME NEW u \in [FlagNames -> BOOLEAN]
    PROVE  u \in FlagUpdate
  <1>1. FlagNames \in SUBSET FlagNames  OBVIOUS
  <1> QED  BY <1>1 DEF FlagUpdate

LEMMA IdleType == Idle \in Task /\ Shaped(Idle)
  BY NoFlags DEF Idle, Task, Step, Shaped, UploadOps, RowOps, Held

LEMMA SyncForType ==
    ASSUME NEW t
    PROVE  SyncFor(t) \in FlagUpdate
  <1>1. CASE t.load = None \/ (t.op = "driver_upload" /\ ~t.isNew)
    BY <1>1, NoFlags DEF SyncFor
  <1>2. CASE ~(t.load = None \/ (t.op = "driver_upload" /\ ~t.isNew))
    BY <1>2, ReadinessType, AllFlags DEF SyncFor
  <1> QED  BY <1>1, <1>2

LEMMA OverlayType ==
    ASSUME NEW u \in FlagUpdate, NEW old \in [FlagNames -> BOOLEAN]
    PROVE  Overlay(u, old) \in [FlagNames -> BOOLEAN]
  <1>1. PICK S \in SUBSET FlagNames : u \in [S -> BOOLEAN]
    BY DEF FlagUpdate
  <1>2. \A f \in FlagNames : f \in DOMAIN u => u[f] \in BOOLEAN
    BY <1>1
  <1> QED  BY <1>2 DEF Overlay

LEMMA RowAfterType ==
    ASSUME row \in [Documents -> Row],
           NEW t \in Task, t.doc \in Documents,
           t.isNew \/ t.op = "update" => t.type \in Types
    PROVE  RowAfter(t) \in Row
  BY NoRowType DEF RowAfter, Row, Task

-----------------------------------------------------------------------------
LEMMA InitSInv == Init => SInv
  <1> SUFFICES ASSUME Init PROVE SInv  OBVIOUS
  <1>1. row \in [Documents -> Row]
    BY NoRowType DEF Init
  <1>2. flags \in [Loads -> [FlagNames -> BOOLEAN]]
    BY ReadinessType DEF Init
  <1>3. task \in [Requests -> Task] /\ TasksShaped
    BY IdleType DEF Init, TasksShaped
  <1>4. TypeOK
    BY <1>1, <1>2, <1>3 DEF Init, TypeOK
  <1>5. RowsLocked /\ RowsHaveKeys
    BY DEF Init, RowsLocked, RowsHaveKeys, Idle, Held
  <1> QED  BY <1>3, <1>4, <1>5 DEF SInv

-----------------------------------------------------------------------------
(* The lookups: a request starts, having read a committed row or none.     *)

Reads(t) ==
    /\ t \in Task /\ Shaped(t) /\ t.key = None
    /\ t.step \in Held => t.doc = None
    /\ IF t.doc = None THEN t.old = None
       ELSE t.doc \in live /\ t.old = row[t.doc].key

LEMMA StartKeeps ==
    ASSUME SInv, NEW r \in Requests, NEW t, Start(r, t), Reads(t)
    PROVE  SInv' /\ (KInv => KInv')
  <1> USE DEF Reads
  <1>1. /\ task'[r] = t
        /\ \A q \in Requests \ {r} : task'[q] = task[q]
        /\ task' \in [Requests -> Task]
        /\ UNCHANGED <<live, row, files, flags, deferred>>
        /\ task[r].step = "idle"
    BY DEF Start, SInv, TypeOK
  <1>2. TypeOK'
    BY <1>1 DEF SInv, TypeOK
  <1>3. TasksShaped'
    BY <1>1 DEF SInv, TasksShaped, Shaped
  <1>4. RowsLocked'
    BY <1>1 DEF SInv, RowsLocked
  <1>5. RowsHaveKeys'
    BY <1>1 DEF SInv, RowsHaveKeys
  <1>6. ASSUME KInv PROVE KInv'
    <2>1. LiveFilesKept' /\ LiveKeysDiffer'
      BY <1>1, <1>6 DEF KInv, LiveFilesKept, LiveKeysDiffer
    <2>2. \A d \in live : row[d].key = t.old => d = t.doc
      BY <1>6 DEF SInv, KInv, LiveKeysDiffer, RowsHaveKeys
    <2>3. OldKeysOwned'
      BY <1>1, <1>6, <2>2 DEF KInv, OldKeysOwned
    <2>4. \A q \in Requests : task[q].key # None => t.old # task[q].key
      BY <1>6 DEF KInv, SavedFilesFresh
    <2>5. SavedFilesFresh'
      BY <1>1, <1>6, <2>4 DEF KInv, SavedFilesFresh
    <2> QED  BY <2>1, <2>3, <2>5 DEF KInv
  <1> QED  BY <1>2, <1>3, <1>4, <1>5, <1>6 DEF SInv

LEMMA UploadKeeps ==
    ASSUME SInv, NEW r \in Requests, NEW op \in UploadOps,
           NEW load \in Loads \cup {None}, NEW type \in Types, NEW replace,
           Upload(r, op, load, type, replace)
    PROVE  SInv' /\ (KInv => KInv')
  <1> DEFINE t(d) == [Idle EXCEPT !.step = "checked", !.op = op,
                                  !.load = load, !.type = type, !.doc = d,
                                  !.old = IF d = None THEN None
                                          ELSE row[d].key,
                                  !.isNew = (d = None)]
  <1>1. PICK d \in live \cup {None} : Start(r, t(d)) /\ op \in Operations
    BY DEF Upload, ExistingRequired
  <1>2. /\ d \in Documents \cup {None}
        /\ d # None => row[d].key \in Keys
    BY DEF SInv, TypeOK, RowsHaveKeys
  <1>3. t(d) \in Task
    BY <1>1, <1>2, IdleType DEF Task, Step, Idle, UploadOps, Endpoint
  <1>4. Reads(t(d))
    BY <1>1, <1>2, <1>3 DEF Reads, Shaped, Idle, UploadOps, RowOps, Held
  <1> QED  BY <1>1, <1>4, StartKeeps

LEMMA ChangeKeeps ==
    ASSUME SInv, NEW r \in Requests, NEW op \in RowOps, NEW doc \in live,
           NEW type \in Types, NEW load \in Loads \cup {None},
           Change(r, op, doc, type, load)
    PROVE  SInv' /\ (KInv => KInv')
  <1> DEFINE t == [Idle EXCEPT !.step = "checked", !.op = op, !.doc = doc,
                               !.old = row[doc].key, !.type = type,
                               !.load = load]
  <1>1. doc \in Documents /\ row[doc].key \in Keys
    BY DEF SInv, TypeOK, RowsHaveKeys
  <1>2. Start(r, t) /\ op \in Operations
    BY DEF Change
  <1>3. t \in Task
    BY <1>1, IdleType DEF Task, Step, Idle, RowOps, Endpoint
  <1>4. Reads(t)
    BY <1>1, <1>2, <1>3 DEF Reads, Shaped, Idle, UploadOps, RowOps, Held
  <1> QED  BY <1>2, <1>4, StartKeeps

LEMMA UpdateLoadKeeps ==
    ASSUME SInv, NEW r \in Requests, NEW op, NEW load \in Loads,
           NEW given \in [FlagNames -> BOOLEAN],
           UpdateLoad(r, op, load, given)
    PROVE  SInv' /\ (KInv => KInv')
  <1> DEFINE has == IF op = "patch" THEN given
                    ELSE [f \in FlagNames |-> flags[load][f]]
             new == [has EXCEPT !["documents_complete"] =
                                  has["has_ratecon"] /\ has["has_invoice"]]
             changed == {f \in FlagNames : new[f] # flags[load][f]}
             sync == [f \in changed |-> new[f]]
             t == [Idle EXCEPT !.step = "written", !.op = op,
                               !.load = load, !.sync = sync]
  <1>1. has \in [FlagNames -> BOOLEAN]
    BY DEF SInv, TypeOK
  <1>2. (has["has_ratecon"] /\ has["has_invoice"]) \in BOOLEAN
    OBVIOUS
  <1>3. new \in [FlagNames -> BOOLEAN]
    <2> HIDE DEF has
    <2> QED  BY <1>1, <1>2
  <1>4. sync \in FlagUpdate
    <2> HIDE DEF new
    <2>1. changed \in SUBSET FlagNames  OBVIOUS
    <2>2. sync \in [changed -> BOOLEAN]  BY <1>3, <2>1
    <2> QED  BY <2>1, <2>2 DEF FlagUpdate
  <1>5. Start(r, t) /\ op \in {"patch", "mark_sent"} /\ op \in Operations
    BY DEF UpdateLoad
  <1> HIDE DEF sync
  <1>6. t \in Task
    BY <1>4, <1>5, IdleType DEF Task, Step, Idle, Endpoint
  <1>7. Reads(t)
    BY <1>5, <1>6 DEF Reads, Shaped, Idle, UploadOps, RowOps, Held
  <1> QED  BY <1>5, <1>7, StartKeeps

-----------------------------------------------------------------------------
(* Files and writes.                                                       *)

LEMMA SaveFileKeeps ==
    ASSUME SInv, NEW r \in Requests, NEW key \in Keys, SaveFile(r, key)
    PROVE  SInv' /\ (KInv => KInv')
  <1> DEFINE t == [task[r] EXCEPT !.step = "saved", !.key = key]
  <1>1. task[r] \in Task /\ Shaped(task[r])
    BY DEF SInv, TypeOK, TasksShaped
  <1>2. /\ task[r].step = "checked" /\ task[r].op \in UploadOps
        /\ key \notin InUse
        /\ files' = files \cup {key}
        /\ task' = [task EXCEPT ![r] = t]
        /\ UNCHANGED <<live, row, flags, deferred>>
    BY DEF SaveFile, UploadOps, SInv, TypeOK
  <1>3. t \in Task
    BY <1>1, <1>2 DEF Task, Step
  <1>4. Shaped(t)
    BY <1>1, <1>2 DEF Shaped, Held, UploadOps, RowOps, Task
  <1>5. /\ t.step = "saved" /\ t.key = key /\ t.old = task[r].old
        /\ t.doc = task[r].doc /\ t.isNew = task[r].isNew
        /\ t.op = task[r].op
    BY <1>1 DEF Task
  <1> HIDE DEF t
  <1>6. /\ task'[r] = t
        /\ \A q \in Requests \ {r} : task'[q] = task[q]
        /\ task' \in [Requests -> Task]
    BY <1>2, <1>3 DEF SInv, TypeOK
  <1>7. TypeOK'
    BY <1>2, <1>6 DEF SInv, TypeOK
  <1>8. TasksShaped'
    BY <1>4, <1>6 DEF SInv, TasksShaped, Shaped
  <1>9. RowsLocked'
    BY <1>2, <1>5, <1>6 DEF SInv, RowsLocked, Held
  <1>10. RowsHaveKeys'
    BY <1>2 DEF SInv, RowsHaveKeys
  <1>11. ASSUME KInv PROVE KInv'
    <2>1. /\ key \notin files /\ key \notin deferred
          /\ \A d \in live : row[d].key # key
          /\ \A q \in Requests : task[q].key # key /\ task[q].old # key
      BY <1>2 DEF InUse
    <2>2. LiveFilesKept' /\ LiveKeysDiffer'
      BY <1>2, <1>11 DEF KInv, LiveFilesKept, LiveKeysDiffer
    <2>3. OldKeysOwned'
      BY <1>2, <1>5, <1>6, <1>11 DEF KInv, OldKeysOwned
    <2>4. SavedFilesFresh'
      BY <1>2, <1>5, <1>6, <1>11, <2>1 DEF KInv, SavedFilesFresh
    <2> QED  BY <2>2, <2>3, <2>4 DEF KInv
  <1> QED  BY <1>7, <1>8, <1>9, <1>10, <1>11 DEF SInv

\* Writes(r, doc): the request may write the row that it names, or a new one.
Writes(r, doc) ==
    /\ task[r].op \in UploadOps \cup RowOps
    /\ task[r].step = IF task[r].op \in UploadOps THEN "saved" ELSE "checked"
    /\ IF task[r].isNew
       THEN doc \in Documents \ (live \cup {task[q].doc : q \in Requests})
       ELSE doc = task[r].doc /\ (task[r].op = "delete" \/ doc \in live)

LEMMA WriteRowKeeps ==
    ASSUME SInv, NEW r \in Requests, NEW doc, WriteRow(r, doc), Writes(r, doc)
    PROVE  SInv' /\ (KInv => KInv')
  <1> DEFINE t == [task[r] EXCEPT !.step = "written", !.doc = doc]
             u == [t EXCEPT !.sync = SyncFor(t)]
  <1>1. task[r] \in Task /\ Shaped(task[r])
    BY DEF SInv, TypeOK, TasksShaped
  <1>2. doc \in Documents
    BY <1>1 DEF Writes, Shaped
  <1>3. t \in Task
    BY <1>1, <1>2 DEF Task, Step
  <1>4. SyncFor(t) \in FlagUpdate
    BY SyncForType
  <1>5. u \in Task
    <2> HIDE DEF t
    <2> QED  BY <1>3, <1>4 DEF Task
  <1>6. /\ u.step = "written" /\ u.doc = doc
        /\ \A f \in {"op", "load", "type", "old", "key", "isNew"} :
              u[f] = task[r][f]
    BY <1>1 DEF Task
  <1>7. /\ ~Locked(r, doc)
        /\ task' = [task EXCEPT ![r] = u]
        /\ UNCHANGED <<live, row, files, flags, deferred>>
    BY DEF WriteRow
  <1> HIDE DEF t, u
  <1>8. /\ task'[r] = u
        /\ \A q \in Requests \ {r} : task'[q] = task[q]
        /\ task' \in [Requests -> Task]
    BY <1>5, <1>7 DEF SInv, TypeOK
  <1>9. /\ u.op = task[r].op /\ u.load = task[r].load /\ u.type = task[r].type
        /\ u.old = task[r].old /\ u.key = task[r].key
        /\ u.isNew = task[r].isNew /\ u.isNew \in BOOLEAN
    BY <1>1, <1>6 DEF Task
  <1>10. Shaped(u)
    BY <1>1, <1>2, <1>6, <1>9
    DEF Writes, Shaped, Held, UploadOps, RowOps
  <1>11. TypeOK'
    BY <1>7, <1>8 DEF SInv, TypeOK
  <1>12. TasksShaped'
    BY <1>8, <1>10 DEF SInv, TasksShaped
  <1>13. RowsLocked'
    <2>1. \A q \in Requests \ {r} : task[q].step \in Held => task[q].doc # doc
      BY <1>7 DEF Locked, Held
    <2>2. ~u.isNew /\ u.op # "delete" => doc \in live
      BY <1>9 DEF Writes
    <2>3. u.isNew => doc \notin live /\ \A q \in Requests : task[q].doc # doc
      BY <1>9 DEF Writes
    <2> QED  BY <1>6, <1>7, <1>8, <2>1, <2>2, <2>3 DEF SInv, RowsLocked
  <1>14. RowsHaveKeys'
    BY <1>7 DEF SInv, RowsHaveKeys
  <1>15. ASSUME KInv PROVE KInv'
    <2>1. LiveFilesKept' /\ LiveKeysDiffer'
      BY <1>7, <1>15 DEF KInv, LiveFilesKept, LiveKeysDiffer
    <2>2. SavedFilesFresh'
      BY <1>7, <1>8, <1>9, <1>15 DEF KInv, SavedFilesFresh
    <2>3. \A d \in live : row[d].key = u.old => d = u.doc
      <3>1. CASE u.isNew
        BY <1>1, <1>9, <3>1 DEF SInv, RowsHaveKeys, Shaped
      <3>2. CASE ~u.isNew
        BY <1>6, <1>9, <1>15, <3>2 DEF KInv, OldKeysOwned, Writes
      <3> QED  BY <3>1, <3>2
    <2>4. OldKeysOwned'
      BY <1>7, <1>8, <1>15, <2>3 DEF KInv, OldKeysOwned
    <2> QED  BY <2>1, <2>2, <2>4 DEF KInv
  <1> QED  BY <1>11, <1>12, <1>13, <1>14, <1>15 DEF SInv

LEMMA DropKeeps ==
    ASSUME SInv, NEW r \in Requests, DropReplacedFile(r)
    PROVE  SInv'
  <1> DEFINE t == [task[r] EXCEPT !.step = "dropped"]
  <1>1. task[r] \in Task /\ Shaped(task[r])
    BY DEF SInv, TypeOK, TasksShaped
  <1>2. /\ task[r].step = "written" /\ task[r].op = "driver_upload"
        /\ ~task[r].isNew
        /\ files' = files \ {task[r].old}
        /\ task' = [task EXCEPT ![r] = t]
        /\ UNCHANGED <<live, row, flags, deferred>>
    BY DEF DropReplacedFile, SInv, TypeOK
  <1>3. t \in Task
    BY <1>1 DEF Task, Step
  <1>4. Shaped(t)
    BY <1>1, <1>2 DEF Shaped, Held, UploadOps, RowOps, Task
  <1>5. t.step = "dropped" /\ t.doc = task[r].doc /\ t.op = task[r].op
        /\ t.isNew = task[r].isNew
    BY <1>1 DEF Task
  <1> HIDE DEF t
  <1>6. /\ task'[r] = t
        /\ \A q \in Requests \ {r} : task'[q] = task[q]
        /\ task' \in [Requests -> Task]
    BY <1>2, <1>3 DEF SInv, TypeOK
  <1>7. TypeOK'
    BY <1>2, <1>6 DEF SInv, TypeOK
  <1>8. TasksShaped'
    BY <1>4, <1>6 DEF SInv, TasksShaped
  <1>9. RowsLocked'
    BY <1>2, <1>5, <1>6 DEF SInv, RowsLocked, Held
  <1>10. RowsHaveKeys'
    BY <1>2 DEF SInv, RowsHaveKeys
  <1> QED  BY <1>7, <1>8, <1>9, <1>10 DEF SInv

-----------------------------------------------------------------------------
(* The end of a request.                                                   *)

\* A request ends and leaves the rows alone.
LEMMA EndKeeps ==
    ASSUME SInv, NEW r \in Requests,
           task' = [task EXCEPT ![r] = Idle],
           flags' \in [Loads -> [FlagNames -> BOOLEAN]],
           files' \subseteq files, files \ files' \subseteq {task[r].key},
           UNCHANGED <<live, row, deferred>>
    PROVE  SInv' /\ (KInv => KInv')
  <1>1. /\ task'[r] = Idle
        /\ \A q \in Requests \ {r} : task'[q] = task[q]
        /\ task' \in [Requests -> Task]
    BY IdleType DEF SInv, TypeOK
  <1>2. Idle.step \notin Held /\ Idle.key = None /\ Idle.old = None
    BY DEF Idle, Held
  <1>3. TypeOK'
    BY <1>1 DEF SInv, TypeOK
  <1>4. TasksShaped'
    BY <1>1, IdleType DEF SInv, TasksShaped, Shaped
  <1>5. RowsLocked'
    BY <1>1, <1>2 DEF SInv, RowsLocked, Idle
  <1>6. RowsHaveKeys'
    BY DEF SInv, RowsHaveKeys
  <1>7. ASSUME KInv PROVE KInv'
    <2>1. \A d \in live : row[d].key # task[r].key
      BY <1>7 DEF SInv, RowsHaveKeys, KInv, SavedFilesFresh
    <2>2. LiveFilesKept' /\ LiveKeysDiffer'
      BY <1>7, <2>1 DEF KInv, LiveFilesKept, LiveKeysDiffer
    <2>3. OldKeysOwned'
      BY <1>1, <1>2, <1>7 DEF SInv, RowsHaveKeys, KInv, OldKeysOwned
    <2>4. SavedFilesFresh'
      <3> SUFFICES ASSUME NEW p \in Requests, task'[p].key # None
                   PROVE  /\ task'[p].key \in files' \ deferred
                          /\ \A d \in live : row[d].key # task'[p].key
                          /\ \A q \in Requests : task'[q].old # task'[p].key
                          /\ \A q \in Requests \ {p} :
                                task'[q].key # task'[p].key
        BY DEF SavedFilesFresh
      <3>1. p # r /\ task'[p] = task[p]
        BY <1>1, <1>2
      <3>2. task[p].key \in files' \ deferred
        BY <1>7, <3>1 DEF KInv, SavedFilesFresh
      <3> QED  BY <1>1, <1>2, <1>7, <3>1, <3>2 DEF KInv, SavedFilesFresh
    <2> QED  BY <2>2, <2>3, <2>4 DEF KInv
  <1> QED  BY <1>3, <1>4, <1>5, <1>6, <1>7 DEF SInv

LEMMA CommitKeeps ==
    ASSUME SInv, NEW r \in Requests, CommitRow(r),
           task[r].op \in UploadOps \cup RowOps, task[r].step \in Held
    PROVE  SInv' /\ (KInv /\ NoDriver => KInv')
  <1> DEFINE t == task[r]
  <1>1. t \in Task /\ Shaped(t)
    BY DEF SInv, TypeOK, TasksShaped
  <1>2. t.doc \in Documents /\ (~t.isNew => t.old \in Keys)
    BY <1>1 DEF Shaped
  <1>3. /\ live' = LiveAfter(t)
        /\ row' = [row EXCEPT ![t.doc] = RowAfter(t)]
        /\ flags' = IF t.load = None THEN flags
                    ELSE [flags EXCEPT ![t.load] = Overlay(t.sync, @)]
        /\ deferred' = deferred \cup DeferredBy(t)
        /\ task' = [task EXCEPT ![r] = Idle]
        /\ files' = files
    BY DEF CommitRow
  <1>4. /\ task'[r] = Idle
        /\ \A q \in Requests \ {r} : task'[q] = task[q]
        /\ task' \in [Requests -> Task]
    BY <1>3, IdleType DEF SInv, TypeOK
  <1>5. Idle.step \notin Held /\ Idle.key = None /\ Idle.old = None
    BY DEF Idle, Held
  <1>6. RowAfter(t) \in Row
    BY <1>1, <1>2, RowAfterType
    DEF Shaped, SInv, TypeOK, UploadOps, RowOps
  <1>7. /\ row'[t.doc] = RowAfter(t)
        /\ \A d \in Documents \ {t.doc} : row'[d] = row[d]
        /\ row' \in [Documents -> Row]
    BY <1>2, <1>3, <1>6 DEF SInv, TypeOK
  <1>8. flags' \in [Loads -> [FlagNames -> BOOLEAN]]
    <2>1. CASE t.load = None
      BY <1>3, <2>1 DEF SInv, TypeOK
    <2>2. CASE t.load # None
      <3>1. t.load \in Loads /\ t.sync \in FlagUpdate
        BY <1>1, <2>2 DEF Task
      <3>2. Overlay(t.sync, flags[t.load]) \in [FlagNames -> BOOLEAN]
        BY <3>1, OverlayType DEF SInv, TypeOK
      <3> QED  BY <1>3, <2>2, <3>1, <3>2 DEF SInv, TypeOK
    <2> QED  BY <2>1, <2>2
  <1>9. t.isNew \in BOOLEAN /\ (t.isNew => t.op # "delete")
    BY <1>1 DEF Task, Shaped, UploadOps
  <1>10. live' \subseteq Documents /\ deferred' \subseteq Keys
    BY <1>2, <1>3, <1>9 DEF LiveAfter, DeferredBy, SInv, TypeOK
  <1>11. TypeOK'
    BY <1>3, <1>4, <1>7, <1>8, <1>10 DEF SInv, TypeOK
  <1>12. TasksShaped'
    BY <1>4, IdleType DEF SInv, TasksShaped
  <1>13. \A q \in Requests \ {r} : task[q].step \in Held => task[q].doc # t.doc
    BY <1>2 DEF SInv, RowsLocked
  <1>14. \A d \in Documents : d # t.doc => (d \in live' <=> d \in live)
    BY <1>3 DEF LiveAfter
  <1>15. RowsLocked'
    <2> SUFFICES ASSUME NEW q \in Requests, task'[q].step \in Held,
                        task'[q].doc # None
                 PROVE  /\ \A p \in Requests \ {q} :
                              task'[p].step \in Held => task'[p].doc # task'[q].doc
                        /\ ~task'[q].isNew /\ task'[q].op # "delete"
                           => task'[q].doc \in live'
                        /\ task'[q].isNew
                           => /\ task'[q].doc \notin live'
                              /\ \A p \in Requests \ {q} :
                                    task'[p].doc # task'[q].doc
      BY DEF RowsLocked
    <2>1. q # r /\ task'[q] = task[q]
      BY <1>4, <1>5
    <2>2. task[q].doc \in Documents /\ task[q].doc # t.doc
      BY <1>4, <1>13, <2>1 DEF Task
    <2>3. Idle.doc = None
      BY DEF Idle
    <2> QED  BY <1>4, <1>5, <1>14, <2>1, <2>2, <2>3 DEF SInv, RowsLocked
  <1>16. t.op # "delete" => t.doc \in live'
    BY <1>3 DEF LiveAfter
  <1>17. t.op # "delete" /\ ~t.isNew => t.doc \in live
    BY <1>2 DEF SInv, RowsLocked
  <1>18. t.op # "delete"
         => RowAfter(t).key = IF t.op \in UploadOps THEN t.key
                              ELSE row[t.doc].key
    BY DEF RowAfter, UploadOps
  <1>19. t.op \in UploadOps => t.key \in Keys
    BY <1>1 DEF Shaped, Held, Task
  <1>20. t.op \notin UploadOps => ~t.isNew
    BY <1>1, <1>9 DEF Shaped
  <1>21. t.op = "delete" => t.doc \notin live'
    BY <1>3 DEF LiveAfter
  <1>22. RowsHaveKeys'
    <2> SUFFICES ASSUME NEW d \in live' PROVE row'[d].key \in Keys
      BY DEF RowsHaveKeys
    <2>1. CASE d # t.doc
      BY <1>7, <1>10, <1>14, <2>1 DEF SInv, RowsHaveKeys
    <2>2. CASE d = t.doc
      BY <1>7, <1>17, <1>18, <1>19, <1>20, <1>21, <2>2 DEF SInv, RowsHaveKeys
    <2> QED  BY <2>1, <2>2
  <1>23. ASSUME KInv, NoDriver PROVE KInv'
    <2>1. t.op \in UploadOps => t.op = "upload"
      BY <1>23 DEF NoDriver, UploadOps
    \* A row that has changed its key has taken the one the request saved.
    <2>2. \A d \in live' :
             \/ d \in live /\ row'[d].key = row[d].key
             \/ d = t.doc /\ t.op = "upload" /\ row'[d].key = t.key /\ t.key # None
      <3> SUFFICES ASSUME NEW d \in live'
                   PROVE  \/ d \in live /\ row'[d].key = row[d].key
                          \/ /\ d = t.doc /\ t.op = "upload"
                             /\ row'[d].key = t.key /\ t.key # None
        OBVIOUS
      <3>1. CASE d # t.doc
        BY <1>7, <1>10, <1>14, <3>1
      <3>2. CASE d = t.doc /\ t.op \in UploadOps
        BY <1>7, <1>18, <1>19, <2>1, <3>2 DEF UploadOps
      <3>3. CASE d = t.doc /\ t.op \notin UploadOps
        BY <1>7, <1>17, <1>18, <1>20, <1>21, <3>3
      <3> QED  BY <3>1, <3>2, <3>3
    \* The file left to the background task is no row's any more.
    <2>3. \A d \in live' : row'[d].key \notin DeferredBy(t)
      <3> SUFFICES ASSUME NEW d \in live', DeferredBy(t) = {t.old},
                          row'[d].key = t.old
                   PROVE  FALSE
        BY DEF DeferredBy
      <3>1. t.op = "delete" \/ (t.op = "upload" /\ ~t.isNew)
        BY DEF DeferredBy
      <3>2. CASE d \in live /\ row'[d].key = row[d].key
        <4>1. d = t.doc
          BY <1>23, <3>2 DEF KInv, OldKeysOwned
        <4>2. t.op = "upload"
          BY <1>21, <3>1, <4>1
        <4>3. row'[d].key = t.key /\ t.key # None
          BY <1>7, <1>18, <1>19, <4>1, <4>2 DEF UploadOps
        <4> QED  BY <1>23, <3>2, <4>3 DEF KInv, SavedFilesFresh
      <3>3. CASE row'[d].key = t.key /\ t.key # None
        BY <1>23, <3>3 DEF KInv, SavedFilesFresh
      <3> QED  BY <2>2, <3>2, <3>3
    <2>4. LiveFilesKept'
      BY <1>3, <1>23, <2>2, <2>3 DEF KInv, LiveFilesKept, SavedFilesFresh
    <2>5. LiveKeysDiffer'
      BY <1>23, <2>2 DEF KInv, LiveKeysDiffer, SavedFilesFresh
    <2>6. OldKeysOwned'
      <3> SUFFICES ASSUME NEW q \in Requests, NEW d \in live',
                          row'[d].key = task'[q].old
                   PROVE  d = task'[q].doc
        BY DEF OldKeysOwned
      <3>1. row'[d].key \in Keys
        BY <1>22 DEF RowsHaveKeys
      <3>2. q # r /\ task'[q] = task[q]
        BY <1>4, <1>5, <3>1
      <3> QED  BY <1>23, <2>2, <3>2 DEF KInv, OldKeysOwned, SavedFilesFresh
    <2>7. SavedFilesFresh'
      <3> SUFFICES ASSUME NEW p \in Requests, task'[p].key # None
                   PROVE  /\ task'[p].key \in files' \ deferred'
                          /\ \A d \in live' : row'[d].key # task'[p].key
                          /\ \A q \in Requests : task'[q].old # task'[p].key
                          /\ \A q \in Requests \ {p} :
                                task'[q].key # task'[p].key
        BY DEF SavedFilesFresh
      <3>1. p # r /\ task'[p] = task[p]
        BY <1>4, <1>5
      <3>2. task[p].key \in files' \ deferred'
        BY <1>3, <1>23, <3>1 DEF KInv, SavedFilesFresh, DeferredBy
      <3>3. \A d \in live' : row'[d].key # task[p].key
        BY <1>23, <2>2, <3>1 DEF KInv, SavedFilesFresh
      <3> QED  BY <1>4, <1>5, <1>23, <3>1, <3>2, <3>3 DEF KInv, SavedFilesFresh
    <2> QED  BY <2>4, <2>5, <2>6, <2>7 DEF KInv
  <1> QED  BY <1>11, <1>12, <1>15, <1>22, <1>23 DEF SInv

LEMMA DeferredDeleteKeeps ==
    ASSUME SInv, NEW key \in Keys, RunDeferredDelete(key)
    PROVE  SInv' /\ (KInv => KInv')
  <1>1. /\ key \in deferred
        /\ files' \subseteq files /\ files \ files' \subseteq {key}
        /\ deferred' = deferred \ {key}
        /\ UNCHANGED <<live, row, flags, task>>
    BY DEF RunDeferredDelete
  <1>2. SInv'
    BY <1>1 DEF SInv, TypeOK, TasksShaped, Shaped, RowsLocked, RowsHaveKeys
  <1>3. ASSUME KInv PROVE KInv'
    <2>1. LiveFilesKept' /\ LiveKeysDiffer'
      BY <1>1, <1>3 DEF KInv, LiveFilesKept, LiveKeysDiffer
    <2>2. SavedFilesFresh'
      BY <1>1, <1>3 DEF KInv, SavedFilesFresh
    <2>3. OldKeysOwned'
      BY <1>1, <1>3 DEF KInv, OldKeysOwned
    <2> QED  BY <2>1, <2>2, <2>3 DEF KInv
  <1> QED  BY <1>2, <1>3

-----------------------------------------------------------------------------
LEMMA NextKeeps ==
    ASSUME SInv, [Next]_vars
    PROVE  SInv' /\ (KInv /\ NoDriver => KInv')
  <1>1. CASE UNCHANGED vars
    BY <1>1 DEF vars, SInv, TypeOK, TasksShaped, Shaped, RowsLocked,
       RowsHaveKeys, KInv, LiveFilesKept, LiveKeysDiffer, SavedFilesFresh,
       OldKeysOwned
  <1>2. ASSUME NEW key \in Keys, RunDeferredDelete(key)
        PROVE  SInv' /\ (KInv => KInv')
    BY <1>2, DeferredDeleteKeeps
  <1>3. ASSUME NEW r \in Requests,
               NEW load \in Loads \cup {None}, NEW type \in Types,
               NEW replace \in BOOLEAN,
               \/ CheckUpload(r, load, type, replace)
               \/ CheckDriverUpload(r, load, type, replace)
        PROVE  SInv' /\ (KInv => KInv')
    <2>1. \E op \in UploadOps : Upload(r, op, load, type, replace)
      BY <1>3 DEF CheckUpload, CheckDriverUpload, UploadOps
    <2> QED  BY <2>1, UploadKeeps
  <1>4. ASSUME NEW r \in Requests, NEW doc \in live,
               \/ CheckDelete(r, doc)
               \/ \E type \in Types : CheckUpdate(r, doc, type)
               \/ \E load \in Loads : CheckLink(r, doc, load)
        PROVE  SInv' /\ (KInv => KInv')
    <2>1. row[doc].type \in Types /\ row[doc].load \in Loads \cup {None}
      BY DEF SInv, TypeOK, Row
    <2>2. \E op \in RowOps, type \in Types, load \in Loads \cup {None} :
             Change(r, op, doc, type, load)
      BY <1>4, <2>1 DEF CheckDelete, CheckUpdate, CheckLink, RowOps
    <2> QED  BY <2>2, ChangeKeeps
  <1>5. ASSUME NEW r \in Requests, NEW key \in Keys, SaveFile(r, key)
        PROVE  SInv' /\ (KInv => KInv')
    BY <1>5, SaveFileKeeps
  <1>6. ASSUME NEW r \in Requests, NEW doc \in Documents,
               WriteUpload(r, doc) \/ WriteDriverUpload(r, doc)
        PROVE  SInv' /\ (KInv => KInv')
    <2>1. task[r].step = "saved" /\ task[r].op \in UploadOps
      BY <1>6 DEF WriteUpload, WriteDriverUpload, Saved, UploadOps
    <2>2. CASE Insert(r, doc)
      BY <2>1, <2>2, WriteRowKeeps DEF Insert, Writes
    <2>3. CASE Replace(r)
      BY <2>1, <2>3, WriteRowKeeps DEF Replace, Writes
    <2> QED  BY <1>6, <2>2, <2>3 DEF WriteUpload, WriteDriverUpload
  <1>7. ASSUME NEW r \in Requests, WriteDelete(r) \/ WriteUpdate(r) \/ WriteLink(r)
        PROVE  SInv' /\ (KInv => KInv')
    <2>1. task[r].step = "checked" /\ task[r].op \in RowOps
      BY <1>7 DEF WriteDelete, WriteUpdate, WriteLink, RowOps
    <2>2. ~task[r].isNew /\ task[r].op \notin UploadOps
      BY <2>1 DEF SInv, TasksShaped, Shaped, UploadOps, RowOps
    <2>3. WriteRow(r, task[r].doc) /\ (task[r].op = "delete" \/ task[r].doc \in live)
      BY <1>7 DEF WriteDelete, WriteUpdate, WriteLink, Replace
    <2> QED  BY <2>1, <2>2, <2>3, WriteRowKeeps DEF Writes
  <1>8. ASSUME NEW r \in Requests, DropReplacedFile(r)
        PROVE  SInv' /\ (NoDriver => FALSE)
    BY <1>8, DropKeeps DEF DropReplacedFile, NoDriver
  <1>9. ASSUME NEW r \in Requests, NEW op \in Operations, NEW load \in Loads,
               NEW given \in [FlagNames -> BOOLEAN],
               UpdateLoad(r, op, load, given)
        PROVE  SInv' /\ (KInv => KInv')
    BY <1>9, UpdateLoadKeeps
  <1>10. ASSUME NEW r \in Requests,
                \/ CommitUpload(r) \/ CommitDriverUpload(r)
                \/ CommitDelete(r) \/ CommitChange(r)
         PROVE  SInv' /\ (KInv /\ NoDriver => KInv')
    <2>1. CommitRow(r)
      BY <1>10 DEF CommitUpload, CommitDriverUpload, CommitDelete, CommitChange
    <2>2. task[r].step \in Held
      BY <1>10 DEF CommitUpload, CommitDriverUpload, CommitDelete,
         CommitChange, Written, Held
    <2>3. Shaped(task[r]) /\ task[r] \in Task
      BY DEF SInv, TypeOK, TasksShaped
    <2>4. task[r].op \in UploadOps \cup RowOps
      <3>1. CASE task[r].step = "dropped"
        BY <2>3, <3>1 DEF Shaped, Idle, UploadOps, RowOps, Endpoint
      <3>2. CASE task[r].step # "dropped"
        BY <1>10, <3>2 DEF CommitUpload, CommitDriverUpload, CommitDelete,
           CommitChange, Written, UploadOps, RowOps
      <3> QED  BY <3>1, <3>2
    <2> QED  BY <2>1, <2>2, <2>4, CommitKeeps
  <1>11. ASSUME NEW r \in Requests, CommitLoad(r)
         PROVE  SInv' /\ (KInv => KInv')
    <2>1. task[r].load \in Loads /\ task[r].sync \in FlagUpdate
      BY <1>11 DEF CommitLoad, Written, SInv, TypeOK, TasksShaped, Shaped, Task
    <2>2. Overlay(task[r].sync, flags[task[r].load]) \in [FlagNames -> BOOLEAN]
      BY <2>1, OverlayType DEF SInv, TypeOK
    <2>3. flags' \in [Loads -> [FlagNames -> BOOLEAN]]
      BY <1>11, <2>1, <2>2 DEF CommitLoad, SInv, TypeOK
    <2> QED  BY <1>11, <2>3, EndKeeps DEF CommitLoad
  <1>12. ASSUME NEW r \in Requests,
                FailUpload(r) \/ FailDriverUpload(r) \/ EndWithoutCommit(r)
         PROVE  SInv' /\ (KInv => KInv')
    <2>1. RollBack(r) /\ files' \subseteq files /\ files \ files' \subseteq {task[r].key}
      BY <1>12 DEF FailUpload, FailDriverUpload, EndWithoutCommit
    <2>2. flags' \in [Loads -> [FlagNames -> BOOLEAN]]
      BY <2>1 DEF RollBack, SInv, TypeOK
    <2> QED  BY <2>1, <2>2, EndKeeps DEF RollBack
  <1> QED
    BY <1>1, <1>2, <1>3, <1>4, <1>5, <1>6, <1>7, <1>8, <1>9, <1>10, <1>11, <1>12
    DEF Next

LEMMA NothingMissing ==
    ASSUME SInv, KInv
    PROVE  ReferencedFilesExist
  BY DEF KInv, LiveFilesKept, ReferencedFilesExist

\* Every reachable state has the types that the columns have, a request only
\* works on rows and keys it may name, and whatever staff and drivers do at
\* once, no two requests hold one row and every committed row has a key.
THEOREM TypeCorrect == Spec => [](TypeOK /\ RowsLocked /\ RowsHaveKeys)
  <1>1. SInv /\ [Next]_vars => SInv'
    BY NextKeeps
  <1>2. SInv => TypeOK /\ RowsLocked /\ RowsHaveKeys
    BY DEF SInv
  <1> QED  BY <1>1, <1>2, InitSInv, PTL DEF Spec

\* Where only the staff's endpoints are called, a committed document row always
\* refers to a stored file, whatever number of uploads, replacements and
\* deletions overlap, fail or are cut off (the driver's endpoint deletes the
\* replaced file before it commits, and does not have this property).
THEOREM StaffAlwaysKeepFiles ==
    "driver_upload" \notin Operations => (Spec => []ReferencedFilesExist)
  <1> SUFFICES ASSUME "driver_upload" \notin Operations
               PROVE  Spec => []ReferencedFilesExist
    OBVIOUS
  <1>1. Init => SInv /\ KInv
    BY InitSInv DEF Init, KInv, LiveFilesKept, LiveKeysDiffer,
       SavedFilesFresh, OldKeysOwned, Idle
  <1>2. SInv => NoDriver
    BY DEF SInv, TasksShaped, Shaped, NoDriver, Idle
  <1>3. SInv /\ KInv /\ [Next]_vars => (SInv /\ KInv)'
    BY <1>2, NextKeeps
  <1> QED  BY <1>1, <1>3, NothingMissing, PTL DEF Spec

\* The same where drivers' requests are made at other times only: the two
\* workloads of MCLoadDocuments, for any number of requests, documents and keys.
THEOREM OverlappingStaffKeepFiles == MCSpec => []StaffKeepFiles
  <1> DEFINE Staff == workload = "overlapping" => KInv /\ NoDriver
  <1>1. MCInit => SInv /\ Staff
    BY InitSInv DEF MCInit, Init, KInv, LiveFilesKept, LiveKeysDiffer,
       SavedFilesFresh, OldKeysOwned, Idle, NoDriver
  <1>2. ASSUME SInv, Staff, [MCNext]_mcVars PROVE (SInv /\ Staff)'
    <2>1. CASE UNCHANGED mcVars
      <3>1. UNCHANGED vars /\ UNCHANGED workload
        BY <2>1 DEF mcVars
      <3>2. NoDriver => NoDriver'
        BY <3>1 DEF vars, NoDriver
      <3> QED  BY <1>2, <3>1, <3>2, NextKeeps
    <2>2. CASE MCNext
      <3>1. Next /\ workload' = workload /\ Allowed'
        BY <2>2 DEF MCNext
      <3>2. ASSUME workload' = "overlapping" PROVE NoDriver'
        <4>1. SInv'
          BY <1>2, <3>1, NextKeeps
        <4>2. \A r \in Requests :
                 task'[r].step # "idle" => task'[r].op # "driver_upload"
          BY <3>1, <3>2 DEF Allowed, OpsIn, Busy
        <4> QED  BY <4>1, <4>2 DEF NoDriver, SInv, TasksShaped, Shaped, Idle
      <3> QED  BY <1>2, <3>1, <3>2, NextKeeps
    <2> QED  BY <1>2, <2>1, <2>2
  <1>3. SInv /\ Staff => StaffKeepFiles
    BY NothingMissing DEF StaffKeepFiles
  <1> HIDE DEF Staff
  <1>4. SInv /\ Staff /\ [MCNext]_mcVars => (SInv /\ Staff)'
    BY <1>2
  <1> QED  BY <1>1, <1>3, <1>4, PTL DEF MCSpec

-----------------------------------------------------------------------------
(* One request at a time: rows and flags.                                  *)

Alone == \A p, q \in Requests :
            task[p].step # "idle" /\ task[q].step # "idle" => p = q

NoLink == \A r \in Requests : task[r].op # "link"

\* What a request has read still holds, and the flags that it will write are
\* the ones that its change will give.
Current(t) ==
    /\ t.isNew => ExistingRequired(t.load, t.type) = {}
    /\ t.op \in {"delete", "update"} => t.doc \in live /\ t.load = row[t.doc].load
    /\ t.op \in UploadOps /\ ~t.isNew => t.doc \in live
    /\ t.op \in UploadOps \cup RowOps /\ t.step \in Held => t.sync = SyncFor(t)

AllCurrent == \A r \in Requests : Current(task[r])

LEMMA IdleCurrent == Current(Idle)
  BY DEF Current, Idle, UploadOps, RowOps, Held

\* A step of r that leaves the rows alone leaves the other requests idle.
LEMMA OthersCurrent ==
    ASSUME SInv, SInv', Alone, Alone', AllCurrent, NEW r \in Requests,
           task[r].step # "idle" \/ task'[r].step # "idle",
           \A q \in Requests \ {r} : task'[q] = task[q]
    PROVE  \A q \in Requests \ {r} : task'[q] = Idle
  BY DEF SInv, TasksShaped, Shaped, Alone

LEMMA SyncForSame ==
    ASSUME NEW t \in Task, NEW u \in Task,
           \A f \in {"op", "load", "type", "key", "doc", "isNew"} : u[f] = t[f]
    PROVE  SyncFor(u) = SyncFor(t)
  <1>1. /\ u.op = t.op /\ u.load = t.load /\ u.type = t.type /\ u.key = t.key
        /\ u.doc = t.doc /\ u.isNew = t.isNew
    BY DEF Task
  <1> QED  BY <1>1 DEF SyncFor, LiveAfter, RowAfter

LEMMA StaysCurrent ==
    ASSUME SInv, SInv', Alone, Alone', AllCurrent, NEW r \in Requests, NEW t,
           task' = [task EXCEPT ![r] = t],
           task[r].step # "idle" \/ t.step # "idle",
           UNCHANGED <<live, row>>, Current(t)
    PROVE  AllCurrent'
  <1>1. /\ task'[r] = t
        /\ \A q \in Requests \ {r} : task'[q] = task[q]
    BY DEF SInv, TypeOK
  <1>2. \A q \in Requests \ {r} : task'[q] = Idle
    BY <1>1, OthersCurrent
  <1>3. \A u : Current(u) => Current(u)'
    BY DEF Current, ExistingRequired, SyncFor, LiveAfter, RowAfter, TypesOn
  <1> QED  BY <1>1, <1>2, <1>3, IdleCurrent DEF AllCurrent

LEMMA UploadCurrent ==
    ASSUME SInv, SInv', Alone, Alone', AllCurrent,
           NEW r \in Requests, NEW op \in UploadOps,
           NEW load \in Loads \cup {None}, NEW type \in Types, NEW replace,
           Upload(r, op, load, type, replace)
    PROVE  AllCurrent' /\ UNCHANGED <<live, row>>
  <1> DEFINE t(d) == [Idle EXCEPT !.step = "checked", !.op = op,
                                  !.load = load, !.type = type, !.doc = d,
                                  !.old = IF d = None THEN None
                                          ELSE row[d].key,
                                  !.isNew = (d = None)]
             existing == ExistingRequired(load, type)
  <1>1. PICK d \in IF existing = {} THEN {None} ELSE existing : Start(r, t(d))
    BY DEF Upload
  <1>2. /\ t(d).step = "checked" /\ t(d).op = op /\ t(d).load = load
        /\ t(d).type = type /\ t(d).doc = d /\ t(d).isNew = (d = None)
    BY DEF Idle
  <1>3. existing \subseteq live /\ None \notin live
    BY DEF ExistingRequired, SInv, TypeOK
  <1>4. Current(t(d))
    <2> HIDE DEF t
    <2> QED  BY <1>1, <1>2, <1>3 DEF Current, UploadOps, RowOps, Held
  <1> HIDE DEF t
  <1>5. /\ task' = [task EXCEPT ![r] = t(d)]
        /\ UNCHANGED <<live, row>>
    BY <1>1 DEF Start
  <1> QED  BY <1>2, <1>4, <1>5, StaysCurrent

LEMMA ChangeCurrent ==
    ASSUME SInv, SInv', Alone, Alone', AllCurrent,
           NEW r \in Requests, NEW op \in RowOps, NEW doc \in live, NEW type,
           NEW load, Change(r, op, doc, type, load),
           op \in {"delete", "update"} => load = row[doc].load
    PROVE  AllCurrent' /\ UNCHANGED <<live, row>>
  <1> DEFINE t == [Idle EXCEPT !.step = "checked", !.op = op, !.doc = doc,
                               !.old = row[doc].key, !.type = type,
                               !.load = load]
  <1>1. /\ t.step = "checked" /\ t.op = op /\ t.load = load
        /\ t.doc = doc /\ t.isNew = FALSE
    BY DEF Idle
  <1> HIDE DEF t
  <1>2. Current(t)
    BY <1>1 DEF Current, UploadOps, RowOps, Held
  <1>3. /\ task' = [task EXCEPT ![r] = t]
        /\ UNCHANGED <<live, row>>
    BY DEF Change, Start, t
  <1> QED  BY <1>1, <1>2, <1>3, StaysCurrent

LEMMA UpdateLoadCurrent ==
    ASSUME SInv, SInv', Alone, Alone', AllCurrent, NEW r \in Requests,
           NEW op, NEW load, NEW given, UpdateLoad(r, op, load, given)
    PROVE  AllCurrent' /\ UNCHANGED <<live, row>>
  <1>1. PICK sync : Start(r, [Idle EXCEPT !.step = "written", !.op = op,
                                          !.load = load, !.sync = sync])
    BY DEF UpdateLoad
  <1> DEFINE t == [Idle EXCEPT !.step = "written", !.op = op,
                               !.load = load, !.sync = sync]
  <1>2. op \in {"patch", "mark_sent"}
    BY DEF UpdateLoad
  <1>3. t.step = "written" /\ t.op = op /\ t.isNew = FALSE
    BY DEF Idle
  <1>4. task' = [task EXCEPT ![r] = t] /\ UNCHANGED <<live, row>>
    BY <1>1 DEF Start
  <1> HIDE DEF t
  <1>5. Current(t)
    BY <1>2, <1>3 DEF Current, UploadOps, RowOps
  <1> QED  BY <1>3, <1>4, <1>5, StaysCurrent

LEMMA SaveFileCurrent ==
    ASSUME SInv, SInv', Alone, Alone', AllCurrent, NEW r \in Requests,
           NEW key, SaveFile(r, key)
    PROVE  AllCurrent' /\ UNCHANGED <<live, row>>
  <1> DEFINE t == [task[r] EXCEPT !.step = "saved", !.key = key]
  <1>1. task[r] \in Task /\ Current(task[r])
    BY DEF SInv, TypeOK, AllCurrent
  <1>2. /\ t.step = "saved" /\ t.op = task[r].op /\ t.load = task[r].load
        /\ t.type = task[r].type /\ t.doc = task[r].doc
        /\ t.isNew = task[r].isNew
    BY <1>1 DEF Task
  <1>3. /\ task' = [task EXCEPT ![r] = t] /\ UNCHANGED <<live, row>>
        /\ task[r].op \in UploadOps
    BY <1>1 DEF SaveFile, UploadOps, SInv, TypeOK
  <1> HIDE DEF t
  <1>4. Current(t)
    BY <1>1, <1>2, <1>3 DEF Current, UploadOps, RowOps, Held
  <1> QED  BY <1>2, <1>3, <1>4, StaysCurrent

LEMMA WriteRowCurrent ==
    ASSUME SInv, SInv', Alone, Alone', AllCurrent, NEW r \in Requests,
           NEW doc, WriteRow(r, doc), Writes(r, doc)
    PROVE  AllCurrent' /\ UNCHANGED <<live, row>>
  <1> DEFINE t == [task[r] EXCEPT !.step = "written", !.doc = doc]
             u == [t EXCEPT !.sync = SyncFor(t)]
  <1>1. task[r] \in Task /\ Shaped(task[r]) /\ Current(task[r])
    BY DEF SInv, TypeOK, TasksShaped, AllCurrent
  <1>2. doc \in Documents
    BY <1>1 DEF Writes, Shaped
  <1>3. t \in Task
    BY <1>1, <1>2 DEF Task, Step
  <1>4. t.doc = doc /\ t.step = "written"
        /\ \A f \in {"op", "load", "type", "key", "isNew"} : t[f] = task[r][f]
    BY <1>1 DEF Task
  <1>5. task' = [task EXCEPT ![r] = u] /\ UNCHANGED <<live, row>>
    BY DEF WriteRow
  <1> HIDE DEF t
  <1>6. SyncFor(t) \in FlagUpdate
    BY SyncForType
  <1>7. u \in Task /\ u.sync = SyncFor(t) /\ u.step = "written"
        /\ \A f \in {"op", "load", "type", "key", "doc", "isNew"} : u[f] = t[f]
    BY <1>3, <1>4, <1>6 DEF Task
  <1> HIDE DEF u
  <1>8. u.sync = SyncFor(u)
    BY <1>3, <1>7, SyncForSame
  <1>9. /\ u.op = task[r].op /\ u.load = task[r].load /\ u.type = task[r].type
        /\ u.doc = doc /\ u.isNew = task[r].isNew
    BY <1>4, <1>7
  <1>10. Current(u)
    <2>1. ~u.isNew => doc = task[r].doc
      BY <1>9 DEF Writes
    <2>2. u.isNew => u.op \in UploadOps /\ u.op \notin {"delete", "update"}
      BY <1>1, <1>9 DEF Shaped, UploadOps
    <2>3. u.isNew \in BOOLEAN
      BY <1>7 DEF Task
    <2> QED  BY <1>1, <1>8, <1>9, <2>1, <2>2, <2>3 DEF Current
  <1> QED  BY <1>5, <1>7, <1>10, StaysCurrent

LEMMA DropCurrent ==
    ASSUME SInv, SInv', Alone, Alone', AllCurrent, NEW r \in Requests,
           DropReplacedFile(r)
    PROVE  AllCurrent' /\ UNCHANGED <<live, row>>
  <1> DEFINE t == [task[r] EXCEPT !.step = "dropped"]
  <1>1. task[r] \in Task /\ Current(task[r]) /\ task[r].step = "written"
    BY DEF SInv, TypeOK, AllCurrent, DropReplacedFile
  <1>2. /\ t \in Task /\ t.step = "dropped" /\ t.sync = task[r].sync
        /\ \A f \in {"op", "load", "type", "key", "doc", "isNew"} :
              t[f] = task[r][f]
    BY <1>1 DEF Task, Step
  <1>3. task' = [task EXCEPT ![r] = t] /\ UNCHANGED <<live, row>>
    BY DEF DropReplacedFile
  <1> HIDE DEF t
  <1>4. SyncFor(t) = SyncFor(task[r])
    BY <1>1, <1>2, SyncForSame
  <1>5. /\ t.op = task[r].op /\ t.load = task[r].load /\ t.type = task[r].type
        /\ t.doc = task[r].doc /\ t.isNew = task[r].isNew
    BY <1>2
  <1>6. Current(t)
    BY <1>1, <1>2, <1>4, <1>5 DEF Current, Held
  <1> QED  BY <1>2, <1>3, <1>6, StaysCurrent

LEMMA EndCurrent ==
    ASSUME SInv, SInv', Alone, Alone', AllCurrent, NEW r \in Requests,
           task[r].step # "idle", task' = [task EXCEPT ![r] = Idle]
    PROVE  AllCurrent'
  <1>1. /\ task'[r] = Idle
        /\ \A q \in Requests \ {r} : task'[q] = task[q]
    BY DEF SInv, TypeOK
  <1>2. \A q \in Requests : task'[q] = Idle
    BY <1>1, OthersCurrent
  <1>3. Current(Idle)'
    BY DEF Current, Idle, UploadOps, RowOps, Held
  <1> QED  BY <1>2, <1>3 DEF AllCurrent

LEMMA OverlayAll ==
    ASSUME NEW new \in [FlagNames -> BOOLEAN], NEW old
    PROVE  Overlay(new, old) = new
  BY DEF Overlay

LEMMA CommitSingle ==
    ASSUME SInv, SInv', Alone, AllCurrent, NEW r \in Requests, CommitRow(r),
           task[r].op \in UploadOps \cup RowOps, task[r].step \in Held
    PROVE  NewRowsAreSingle /\ (task[r].op # "link" => FlagsAreRenewed)
  <1> DEFINE t == task[r]
  <1>1. t \in Task /\ Shaped(t) /\ Current(t)
    BY DEF SInv, TypeOK, TasksShaped, AllCurrent
  <1>2. t.doc \in Documents /\ t.isNew \in BOOLEAN
    BY <1>1 DEF Shaped, Task
  <1>3. /\ live' = LiveAfter(t)
        /\ row' = [row EXCEPT ![t.doc] = RowAfter(t)]
        /\ flags' = IF t.load = None THEN flags
                    ELSE [flags EXCEPT ![t.load] = Overlay(t.sync, @)]
    BY DEF CommitRow
  <1>4. /\ row'[t.doc] = RowAfter(t)
        /\ \A d \in Documents \ {t.doc} : row'[d] = row[d]
    BY <1>2, <1>3 DEF SInv, TypeOK
  <1>5. live \subseteq Documents /\ live' \subseteq Documents
    BY DEF SInv, TypeOK
  <1>6. /\ t.op # "delete" => t.doc \in live'
        /\ t.op = "delete" => t.doc \notin live'
        /\ \A d \in Documents \ {t.doc} : d \in live' <=> d \in live
    BY <1>2, <1>3 DEF LiveAfter
  <1>7. t.op # "delete" /\ ~t.isNew => t.doc \in live
    BY <1>2 DEF SInv, RowsLocked
  <1>8. t.isNew => /\ t.op \in UploadOps
                   /\ RowAfter(t).load = t.load /\ RowAfter(t).type = t.type
    BY <1>1 DEF RowAfter, Shaped, UploadOps
  <1>9. NewRowsAreSingle
    <2> SUFFICES ASSUME NEW d \in live' \ live, NEW e \in live',
                        row'[d].load # None, row'[d].type \in Required, e # d
                 PROVE  ~(row'[e].load = row'[d].load /\ row'[e].type = row'[d].type)
      BY DEF NewRowsAreSingle
    <2>1. d = t.doc /\ t.isNew
      BY <1>2, <1>5, <1>6, <1>7
    <2>2. e \in live /\ row'[e] = row[e]
      BY <1>4, <1>5, <1>6, <2>1
    <2>3. row'[d].load = t.load /\ row'[d].type = t.type
      BY <1>4, <1>8, <2>1
    <2>4. ExistingRequired(t.load, t.type) = {}
      BY <1>1, <2>1 DEF Current
    <2> QED  BY <2>2, <2>3, <2>4 DEF ExistingRequired
  <1>10. ASSUME t.op # "link" PROVE FlagsAreRenewed
    <2> SUFFICES ASSUME NEW l \in Loads,
                        TypesOn(l, live', row') # TypesOn(l, live, row)
                 PROVE  flags'[l] = Readiness(TypesOn(l, live', row'))
      BY DEF FlagsAreRenewed
    \* Another load keeps its types, and so does a row whose file alone changes.
    <2>1. t.load = l /\ ~(t.op = "driver_upload" /\ ~t.isNew)
      <3> SUFFICES ASSUME t.load # l \/ (t.op = "driver_upload" /\ ~t.isNew)
                   PROVE  TypesOn(l, live', row') = TypesOn(l, live, row)
        OBVIOUS
      <3>1. CASE t.isNew
        <4>1. t.doc \notin live /\ row'[t.doc].load # l
          BY <1>2, <1>4, <1>8, <3>1 DEF SInv, RowsLocked
        <4>2. {d \in live' : row'[d].load = l} = {d \in live : row[d].load = l}
          BY <1>4, <1>5, <1>6, <4>1
        <4>3. \A d \in {e \in live : row[e].load = l} : row'[d].type = row[d].type
          BY <1>4, <1>5, <4>1
        <4> QED  BY <4>2, <4>3 DEF TypesOn
      <3>2. CASE ~t.isNew /\ t.op \in UploadOps
        <4>1. t.doc \in live /\ live' = live
          BY <1>1, <1>3, <3>2 DEF Current, LiveAfter, UploadOps
        <4>2. \A d \in live : row'[d].load = row[d].load /\ row'[d].type = row[d].type
          BY <1>4, <1>5, <3>2 DEF RowAfter, UploadOps
        <4> QED  BY <4>1, <4>2 DEF TypesOn
      <3>3. CASE t.op = "delete"
        <4>1. t.doc \in live /\ row[t.doc].load # l
          BY <1>1, <3>3 DEF Current, UploadOps
        <4>2. {d \in live' : row'[d].load = l} = {d \in live : row[d].load = l}
          BY <1>4, <1>5, <1>6, <3>3, <4>1
        <4>3. \A d \in {e \in live : row[e].load = l} : row'[d].type = row[d].type
          BY <1>4, <1>5, <4>1
        <4> QED  BY <4>2, <4>3 DEF TypesOn
      <3>4. CASE t.op = "update"
        <4>1. t.doc \in live /\ live' = live /\ row[t.doc].load # l
          BY <1>1, <1>3, <3>4 DEF Current, LiveAfter, UploadOps
        <4>2. row'[t.doc].load # l
          BY <1>1, <1>4, <3>4, <4>1 DEF RowAfter, Shaped, UploadOps
        <4>3. {d \in live' : row'[d].load = l} = {d \in live : row[d].load = l}
          BY <1>4, <1>5, <4>1, <4>2
        <4>4. \A d \in {e \in live : row[e].load = l} : row'[d].type = row[d].type
          BY <1>4, <1>5, <4>1
        <4> QED  BY <4>3, <4>4 DEF TypesOn
      <3> QED  BY <1>2, <1>10, <3>1, <3>2, <3>3, <3>4 DEF RowOps
    <2>2. t.sync = SyncFor(t) /\ l # None
      BY <1>1 DEF Current
    <2>3. t.sync = Readiness(TypesOn(l, live', row'))
      BY <1>3, <2>1, <2>2 DEF SyncFor
    <2>4. Overlay(t.sync, flags[l]) = t.sync
      BY <2>3, ReadinessType, OverlayAll
    <2> QED  BY <1>3, <2>1, <2>2, <2>3, <2>4 DEF SInv, TypeOK
  <1> QED  BY <1>9, <1>10

LEMMA RowsUnchanged ==
    ASSUME UNCHANGED <<live, row>>
    PROVE  NewRowsAreSingle /\ FlagsAreRenewed
  BY DEF NewRowsAreSingle, FlagsAreRenewed

LEMMA NextSingle ==
    ASSUME SInv, SInv', Alone, Alone', AllCurrent, [Next]_vars
    PROVE  AllCurrent' /\ NewRowsAreSingle /\ (NoLink => FlagsAreRenewed)
  <1> DEFINE Quiet == AllCurrent' /\ UNCHANGED <<live, row>>
  <1>1. CASE UNCHANGED vars
    <2>1. UNCHANGED <<live, row, task>>
      BY <1>1 DEF vars
    <2>2. \A u : Current(u) => Current(u)'
      BY <2>1 DEF Current, ExistingRequired, SyncFor, LiveAfter, RowAfter, TypesOn
    <2> QED  BY <2>1, <2>2, RowsUnchanged DEF AllCurrent
  <1>2. ASSUME NEW key \in Keys, RunDeferredDelete(key)
        PROVE  Quiet
    <2>1. UNCHANGED <<live, row, task>>
      BY <1>2 DEF RunDeferredDelete
    <2>2. \A u : Current(u) => Current(u)'
      BY <2>1 DEF Current, ExistingRequired, SyncFor, LiveAfter, RowAfter, TypesOn
    <2> QED  BY <2>1, <2>2 DEF AllCurrent
  <1>3. ASSUME NEW r \in Requests,
               NEW load \in Loads \cup {None}, NEW type \in Types,
               NEW replace \in BOOLEAN,
               \/ CheckUpload(r, load, type, replace)
               \/ CheckDriverUpload(r, load, type, replace)
        PROVE  Quiet
    <2>1. \E op \in UploadOps : Upload(r, op, load, type, replace)
      BY <1>3 DEF CheckUpload, CheckDriverUpload, UploadOps
    <2> QED  BY <2>1, UploadCurrent
  <1>4. ASSUME NEW r \in Requests, NEW doc \in live,
               \/ CheckDelete(r, doc)
               \/ \E type \in Types : CheckUpdate(r, doc, type)
               \/ \E load \in Loads : CheckLink(r, doc, load)
        PROVE  Quiet
    <2>1. \E op \in RowOps : \E type, load :
             /\ Change(r, op, doc, type, load)
             /\ op \in {"delete", "update"} => load = row[doc].load
      BY <1>4 DEF CheckDelete, CheckUpdate, CheckLink, RowOps
    <2> QED  BY <2>1, ChangeCurrent
  <1>5. ASSUME NEW r \in Requests, NEW key \in Keys, SaveFile(r, key)
        PROVE  Quiet
    BY <1>5, SaveFileCurrent
  <1>6. ASSUME NEW r \in Requests, NEW doc \in Documents,
               WriteUpload(r, doc) \/ WriteDriverUpload(r, doc)
        PROVE  Quiet
    <2>1. task[r].step = "saved" /\ task[r].op \in UploadOps
      BY <1>6 DEF WriteUpload, WriteDriverUpload, Saved, UploadOps
    <2>2. CASE Insert(r, doc)
      BY <2>1, <2>2, WriteRowCurrent DEF Insert, Writes
    <2>3. CASE Replace(r)
      BY <2>1, <2>3, WriteRowCurrent DEF Replace, Writes
    <2> QED  BY <1>6, <2>2, <2>3 DEF WriteUpload, WriteDriverUpload
  <1>7. ASSUME NEW r \in Requests, WriteDelete(r) \/ WriteUpdate(r) \/ WriteLink(r)
        PROVE  Quiet
    <2>1. task[r].step = "checked" /\ task[r].op \in RowOps
      BY <1>7 DEF WriteDelete, WriteUpdate, WriteLink, RowOps
    <2>2. ~task[r].isNew /\ task[r].op \notin UploadOps
      BY <2>1 DEF SInv, TasksShaped, Shaped, UploadOps, RowOps
    <2>3. WriteRow(r, task[r].doc) /\ (task[r].op = "delete" \/ task[r].doc \in live)
      BY <1>7 DEF WriteDelete, WriteUpdate, WriteLink, Replace
    <2> QED  BY <2>1, <2>2, <2>3, WriteRowCurrent DEF Writes
  <1>8. ASSUME NEW r \in Requests, DropReplacedFile(r)
        PROVE  Quiet
    BY <1>8, DropCurrent
  <1>9. ASSUME NEW r \in Requests, NEW op \in Operations, NEW load \in Loads,
               NEW given \in [FlagNames -> BOOLEAN],
               UpdateLoad(r, op, load, given)
        PROVE  Quiet
    BY <1>9, UpdateLoadCurrent
  <1>10. ASSUME NEW r \in Requests,
                \/ CommitUpload(r) \/ CommitDriverUpload(r)
                \/ CommitDelete(r) \/ CommitChange(r)
         PROVE  AllCurrent' /\ NewRowsAreSingle /\ (NoLink => FlagsAreRenewed)
    <2>1. CommitRow(r)
      BY <1>10 DEF CommitUpload, CommitDriverUpload, CommitDelete, CommitChange
    <2>2. task[r].step \in Held
      BY <1>10 DEF CommitUpload, CommitDriverUpload, CommitDelete,
         CommitChange, Written, Held
    <2>3. Shaped(task[r]) /\ task[r] \in Task
      BY DEF SInv, TypeOK, TasksShaped
    <2>4. task[r].op \in UploadOps \cup RowOps
      <3>1. CASE task[r].step = "dropped"
        BY <2>3, <3>1 DEF Shaped, Idle, UploadOps, RowOps, Endpoint
      <3>2. CASE task[r].step # "dropped"
        BY <1>10, <3>2 DEF CommitUpload, CommitDriverUpload, CommitDelete,
           CommitChange, Written, UploadOps, RowOps
      <3> QED  BY <3>1, <3>2
    <2>5. AllCurrent'
      BY <2>1, <2>2, EndCurrent DEF CommitRow, Held
    <2> QED  BY <2>1, <2>2, <2>4, <2>5, CommitSingle DEF NoLink
  <1>11. ASSUME NEW r \in Requests, CommitLoad(r)
         PROVE  Quiet
    BY <1>11, EndCurrent DEF CommitLoad, Written
  <1>12. ASSUME NEW r \in Requests,
                FailUpload(r) \/ FailDriverUpload(r) \/ EndWithoutCommit(r)
         PROVE  Quiet
    <2>1. RollBack(r)
      BY <1>12 DEF FailUpload, FailDriverUpload, EndWithoutCommit
    <2> QED  BY <2>1, EndCurrent DEF RollBack
  <1>13. CASE Next
    <2>1. \/ Quiet
          \/ AllCurrent' /\ NewRowsAreSingle /\ (NoLink => FlagsAreRenewed)
      <3> HIDE DEF Quiet
      <3> QED
        BY <1>2, <1>3, <1>4, <1>5, <1>6, <1>7, <1>8, <1>9, <1>10, <1>11, <1>12,
           <1>13 DEF Next
    <2> QED  BY <2>1, RowsUnchanged
  <1> QED  BY <1>1, <1>13

LEMMA InitCurrent == Init => Alone /\ AllCurrent /\ NoLink
  <1> SUFFICES ASSUME Init PROVE Alone /\ AllCurrent /\ NoLink  OBVIOUS
  <1>1. \A r \in Requests : task[r] = Idle
    BY DEF Init
  <1>2. AllCurrent
    BY <1>1, IdleCurrent DEF AllCurrent
  <1> QED  BY <1>1, <1>2 DEF Alone, NoLink, Idle

LEMMA LinkIsAsked ==
    ASSUME SInv, "link" \notin Operations
    PROVE  NoLink
  BY DEF SInv, TasksShaped, Shaped, NoLink, Idle

\* Where one request is served at a time, an upload never doubles a required
\* document: it replaces the one that there is or is refused.
THEOREM OneRequiredDocumentAlone ==
    (\A p, q \in Requests : p = q) => (Spec => OneRequiredDocument)
  <1> SUFFICES ASSUME \A p, q \in Requests : p = q
               PROVE  Spec => OneRequiredDocument
    OBVIOUS
  <1>1. Alone /\ Alone'
    BY DEF Alone
  <1>2. Init => SInv /\ AllCurrent
    BY InitSInv, InitCurrent
  <1>3. SInv /\ AllCurrent /\ [Next]_vars
        => (SInv /\ AllCurrent)' /\ NewRowsAreSingle
    BY <1>1, NextKeeps, NextSingle
  <1> QED  BY <1>2, <1>3, PTL DEF Spec, OneRequiredDocument

\* And where documents are not moved to other loads either, every change of a
\* load's documents leaves the flags on the load row that the documents give.
THEOREM FlagsFollowDocumentsAlone ==
    (\A p, q \in Requests : p = q) /\ "link" \notin Operations
    => (Spec => FlagsFollowDocuments)
  <1> SUFFICES ASSUME \A p, q \in Requests : p = q, "link" \notin Operations
               PROVE  Spec => FlagsFollowDocuments
    OBVIOUS
  <1>1. Alone /\ Alone'
    BY DEF Alone
  <1>2. Init => SInv /\ AllCurrent
    BY InitSInv, InitCurrent
  <1>3. SInv /\ AllCurrent /\ [Next]_vars
        => (SInv /\ AllCurrent)' /\ FlagsAreRenewed
    BY <1>1, NextKeeps, NextSingle, LinkIsAsked
  <1> QED  BY <1>2, <1>3, PTL DEF Spec, FlagsFollowDocuments

LEMMA DocumentsAlone == MCSpec => RequiredDocumentAlone /\ FlagsFollowAlone
  <1> DEFINE Solo == workload = "alone" => Alone /\ AllCurrent /\ NoLink
  <1>1. MCInit => SInv /\ Solo
    BY InitSInv, InitCurrent DEF MCInit
  <1>2. ASSUME SInv, Solo, [MCNext]_mcVars
        PROVE  /\ SInv' /\ Solo'
               /\ workload = "alone" => NewRowsAreSingle /\ FlagsAreRenewed
    <2>1. SInv' /\ [Next]_vars /\ workload' = workload
      BY <1>2, NextKeeps DEF MCNext, mcVars
    <2>2. ASSUME workload' = "alone" PROVE Alone' /\ NoLink'
      <3>1. CASE UNCHANGED mcVars
        <4>1. task' = task
          BY <3>1 DEF mcVars, vars
        <4> QED  BY <1>2, <2>1, <2>2, <4>1 DEF Alone, NoLink
      <3>2. CASE MCNext
        <4>1. /\ \A p, q \in Requests :
                   task'[p].step # "idle" /\ task'[q].step # "idle" => p = q
              /\ \A r \in Requests :
                   task'[r].step # "idle" => task'[r].op # "link"
          BY <2>2, <3>2 DEF MCNext, Allowed, Busy, OpsIn
        <4>2. \A r \in Requests : task'[r].step = "idle" => task'[r] = Idle
          BY <2>1 DEF SInv, TasksShaped, Shaped
        <4> QED  BY <4>1, <4>2 DEF Alone, NoLink, Idle
      <3> QED  BY <1>2, <3>1, <3>2
    <2> QED  BY <1>2, <2>1, <2>2, NextSingle
  <1> HIDE DEF Solo
  <1>3. SInv /\ Solo /\ [MCNext]_mcVars
        => /\ (SInv /\ Solo)'
           /\ workload = "alone" => NewRowsAreSingle
           /\ workload = "alone" => FlagsAreRenewed
    BY <1>2
  <1> QED
    BY <1>1, <1>3, PTL DEF MCSpec, RequiredDocumentAlone, FlagsFollowAlone

\* In the second workload of MCLoadDocuments, where requests follow each other
\* and are of every kind but link, no upload doubles a required document ...
THEOREM RequiredDocumentStaysSingle == MCSpec => RequiredDocumentAlone
  BY DocumentsAlone, PTL

\* ... and a change of a load's documents leaves the flags that they give.
THEOREM FlagsStayRenewed == MCSpec => FlagsFollowAlone
  BY DocumentsAlone, PTL
=============================================================================
