----------------------------- MODULE MCBackups ------------------------------
(***************************************************************************)
(* Instances of Backups for TLC.                                           *)
(***************************************************************************)
EXTENDS Backups

CONSTANTS e1, e2, w1, w2

mcEnvironments == <<e1, e2>>
mcOneEnvironment == <<e1>>
=============================================================================
