--------------------------- MODULE MCPaymentDrain ---------------------------
(***************************************************************************)
(* Small instances of PaymentDrain.                                        *)
(***************************************************************************)
EXTENDS PaymentDrain, TLC

CONSTANTS t1, t2, w1, i1, d1, d2

DeletionWorkerSymmetry == Permutations({d1, d2})

=============================================================================
