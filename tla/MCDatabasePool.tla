----------------------------- MODULE MCDatabasePool -----------------------------
(* Small instances of DatabasePool for TLC.                                  *)
EXTENDS DatabasePool, TLC

CONSTANTS q1, q2, q3

Symmetry == Permutations(Requests)
=============================================================================
