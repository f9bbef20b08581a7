------------------------------- MODULE MCOrder -------------------------------
(* Order with model values for TLC.                                        *)
EXTENDS Order, TLC

Symmetry == Permutations(Maps)
=============================================================================
