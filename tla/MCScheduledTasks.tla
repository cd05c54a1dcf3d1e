-------------------------- MODULE MCScheduledTasks --------------------------
(***************************************************************************)
(* Instances of ScheduledTasks for TLC.                                    *)
(***************************************************************************)
EXTENDS ScheduledTasks, TLC

CONSTANTS r1, early, late

mcPhase == (early :> 0) @@ (late :> 1)
=============================================================================
