---------------------------- MODULE MCDenseForward ----------------------------
(* DenseForward for TLC: the sessions may be exchanged. *)
EXTENDS DenseForward, TLC
Symmetry == Permutations(Session)
=============================================================================
