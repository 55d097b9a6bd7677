---------------------------- MODULE MCReceiptLog ----------------------------
(***************************************************************************)
(* Requests that record, replay and call at the same time, and a crash.    *)
(***************************************************************************)
EXTENDS ReceiptLog, TLC
CONSTANTS r1, r2, r3

MCRequests == {r1, r2, r3}
Symmetry == Permutations(MCRequests)
=============================================================================
