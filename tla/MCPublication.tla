------------------------------ MODULE MCPublication ------------------------------
(* Two builds and an installation of two files, one of which replaces a file *)
(* that was there.                                                           *)
EXTENDS Publication, TLC

Symmetry == Permutations(Builds)
=============================================================================
