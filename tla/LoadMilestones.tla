--------------------------- MODULE LoadMilestones ---------------------------
(***************************************************************************)
(* What the timestamps of a load promise, whoever writes them: submission  *)
(* is recorded first; funding and payment are recorded only on a load      *)
(* whose submission is already recorded; each is recorded once, one at a   *)
(* time, and none is ever erased.                                          *)
(***************************************************************************)
VARIABLES submitted, funded, paid

vars == <<submitted, funded, paid>>

Init == submitted = FALSE /\ funded = FALSE /\ paid = FALSE

Submit ==
    /\ ~submitted
    /\ submitted' = TRUE
    /\ UNCHANGED <<funded, paid>>

Fund ==
    /\ submitted /\ ~funded
    /\ funded' = TRUE
    /\ UNCHANGED <<submitted, paid>>

Pay ==
    /\ submitted /\ ~paid
    /\ paid' = TRUE
    /\ UNCHANGED <<submitted, funded>>

Next == Submit \/ Fund \/ Pay

Spec == Init /\ [][Next]_vars
=============================================================================
