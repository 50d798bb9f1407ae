----------------------- MODULE MCCanonicalTransaction -----------------------
(* Instances of CanonicalTransaction for TLC.                               *)
EXTENDS CanonicalTransaction, TLC

Symmetry == Permutations(Txns)
=============================================================================
