\* Overlapping requests with two documents, and one request at a time with
\* three; MCLoadDocuments says what each of the two workloads is given.
CONSTANTS
    Requests = {r1, r2}
    Loads = {l1}
    Documents = {d1, d2, d3}
    Keys = {k1, k2, k3}
    Types = {"rate_confirmation", "proof_of_delivery", "invoice", "other"}
    Operations = {"upload", "driver_upload", "delete", "update", "link",
                  "patch", "mark_sent"}
    None = None
SPECIFICATION MCSpec
SYMMETRY Symmetry
INVARIANT StaffKeepFiles
PROPERTIES RequiredDocumentAlone FlagsFollowAlone
