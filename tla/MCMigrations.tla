----------------------------- MODULE MCMigrations -----------------------------
(***************************************************************************)
(* The two migrations of the source, two statements each; the last of the  *)
(* second is its ALTER TABLE.                                              *)
(***************************************************************************)
EXTENDS Migrations, TLC

CONSTANTS window, unit, monitor

Three    == {window, unit, monitor}
Alter    == {<<2, 2>>}
Symmetry == Permutations(Three)
Two      == {window, unit}
=============================================================================
