-------------------------- MODULE MCMigrationRunner --------------------------
(***************************************************************************)
(* Instances of MigrationRunner for TLC.                                   *)
(***************************************************************************)
EXTENDS MigrationRunner, TLC

CONSTANTS c1, c2

\* Until two calls that may change the changelog have been in flight at once: that
\* state is still checked, but not what follows it.
UntilOverlapped == ~overlapped

mcSymmetry == Permutations({c1, c2})
=============================================================================
