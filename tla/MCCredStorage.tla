--------------------------- MODULE MCCredStorage ---------------------------
(***************************************************************************)
(* CredStorage on a small instance for TLC.                                *)
(***************************************************************************)
EXTENDS CredStorage, TLC

\* One user, so every pair of user ids is similar.
MCSimilar == Users \X Users

MCSymmetry == Permutations(Rps) \cup Permutations(DeviceKeys)
==============================================================================
