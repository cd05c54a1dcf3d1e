---------------------------- MODULE MCBatchSend -----------------------------
(***************************************************************************)
(* An instance of BatchSend for TLC.                                       *)
(***************************************************************************)
EXTENDS BatchSend, TLC

CONSTANTS j1, j2

mcSymmetry == Permutations({j1, j2})
=============================================================================
