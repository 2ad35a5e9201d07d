------------------------------- MODULE MCOath -------------------------------
(***************************************************************************)
(* Oath on a small instance for TLC: more names than slots, two access     *)
(* codes, two PINs and three tries.                                        *)
(***************************************************************************)
EXTENDS Oath, TLC

CONSTANTS n1, n2, n3, k1, k2, p1, p2

MCNames == {n1, n2, n3}
MCKeys == {k1, k2}
MCPins == {p1, p2}
MCFactors == {0, 1}
MCSymmetry == Permutations(MCNames) \cup Permutations(MCKeys) \cup Permutations(MCPins)
=============================================================================
