--------------------------- MODULE MCLoadWorkflow ---------------------------
(* LoadWorkflow and what is read of it (OperationalQueue, CommandCenter)   *)
(* with constants for TLC; the configurations choose them.                 *)
EXTENDS CommandCenter, TLC

\* Requests are interchangeable.
RequestSymmetry == Permutations(Requests)
=============================================================================
