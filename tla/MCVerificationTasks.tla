------------------------ MODULE MCVerificationTasks ------------------------
(***************************************************************************)
(* Small instances of VerificationTasks.                                   *)
(***************************************************************************)
EXTENDS VerificationTasks, TLC

CONSTANTS t1, t2, w1, w2, i1, i2

WorkerSymmetry == Permutations({w1, w2}) \cup Permutations({i1, i2})

=============================================================================
