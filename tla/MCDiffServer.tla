------------------------------ MODULE MCDiffServer ------------------------------
(* Small instances of DiffServer for TLC.                                    *)
EXTENDS DiffServer, TLC

CONSTANTS q1, q2, q3, c1, c2, k1, k2, k3

Symmetry == Permutations(Requests) \cup Permutations(Keys)
=============================================================================
