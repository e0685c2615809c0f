-------------------------- MODULE MCMpesaPayments --------------------------
(* MpesaPayments with few receipts and workers.                            *)
EXTENDS MpesaPayments

EveryOp == AllOps

=============================================================================
