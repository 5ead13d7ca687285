------------------------ MODULE MCInvoiceGeneration ------------------------
(* InvoiceGeneration as TLC runs it.                                       *)
EXTENDS InvoiceGeneration

MCRequests == 1 .. 3
MCLoads == 11 .. 12
=============================================================================
