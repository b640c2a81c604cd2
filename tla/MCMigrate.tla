------------------------------- MODULE MCMigrate -------------------------------
(* Small instances of Migrate for TLC; the .cfg files choose among them.     *)
EXTENDS Migrate, TLC

CONSTANTS a1, a2, a3, r1, r2

\* Invocations of one kind differ in nothing but their name.
Symmetry == Permutations(Appliers) \cup Permutations(Rollbackers)
=============================================================================
