------------------------------ MODULE MCMigrate ------------------------------
(* Three runs of the migration program: two of a release, one of the next. *)
EXTENDS Migrate, TLC

CONSTANTS p1, p2, p3

Releases == (p1 :> {1, 2}) @@ (p2 :> {1, 2}) @@ (p3 :> {1, 2, 3})
==============================================================================
