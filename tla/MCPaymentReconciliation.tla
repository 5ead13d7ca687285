---------------------- MODULE MCPaymentReconciliation ----------------------
(* PaymentReconciliation, with the reports on it (Receivables), as TLC     *)
(* runs it; the configurations say with what.                              *)
EXTENDS Receivables
=============================================================================
