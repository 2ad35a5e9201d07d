----------------------------- MODULE MCKeyDevice -----------------------------
(***************************************************************************)
(* KeyDevice on a small instance for TLC: two lock keys, which may be      *)
(* swapped, and three generated device keys.                               *)
(***************************************************************************)
EXTENDS KeyDevice, TLC

CONSTANTS l1, l2

MCLockKeys == {l1, l2}
MCSymmetry == Permutations(MCLockKeys)
==============================================================================
