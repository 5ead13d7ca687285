-------------------------- MODULE MCLoadDocuments --------------------------
(***************************************************************************)
(* LoadDocuments as TLC runs it, with one of two workloads: two requests   *)
(* that overlap, at every endpoint of the staff, with two documents of two *)
(* types; or one request at a time, at every endpoint but link, with three *)
(* documents of three required types.  The first shows what becomes of     *)
(* the files, the second what every request makes of rows and flags.       *)
(***************************************************************************)
EXTENDS LoadDocuments, TLC

VARIABLE workload   \* chosen at the start

mcVars == <<vars, workload>>

\* Requests, documents, keys and loads are interchangeable.
Symmetry == Permutations(Requests) \cup Permutations(Documents)
            \cup Permutations(Keys) \cup Permutations(Loads)

Busy == {r \in Requests : task[r].step # "idle"}

Named == live \cup {task[r].doc : r \in Busy}

TypesIn == {row[d].type : d \in live} \cup {task[r].type : r \in Busy}

OpsIn == {task[r].op : r \in Busy}

Allowed ==
    IF workload = "overlapping"
    THEN /\ OpsIn \subseteq {"upload", "delete", "update", "link"}
         /\ TypesIn \subseteq {"rate_confirmation", "other"}
         /\ Cardinality(Named \ {None}) <= 2
    ELSE /\ \A p, q \in Busy : p = q
         /\ "link" \notin OpsIn /\ "other" \notin TypesIn

MCInit == Init /\ workload \in {"overlapping", "alone"}

MCNext == Next /\ UNCHANGED workload /\ Allowed'

MCSpec == MCInit /\ [][MCNext]_mcVars

\* ReferencedFilesExist, when only the staff's endpoints are called: a row that
\* is committed refers to a stored file, whatever overlaps, fails or is cut off.
StaffKeepFiles == workload = "overlapping" => ReferencedFilesExist

\* OneRequiredDocument, when no two requests overlap: a new row doubles no
\* required document, since an upload replaces the one that there is.
RequiredDocumentAlone == [][workload = "alone" => NewRowsAreSingle]_mcVars

\* FlagsFollowDocuments, when no two requests overlap: a change of a load's
\* documents leaves the flags that they give, whatever was there before.
FlagsFollowAlone == [][workload = "alone" => FlagsAreRenewed]_mcVars
=============================================================================
