------------------------------- MODULE MCEvidence -------------------------------
(***************************************************************************)
(* The aliases are interchangeable.                                        *)
(***************************************************************************)
EXTENDS Evidence, TLC

Symmetry == Permutations(Aliases)
=============================================================================
