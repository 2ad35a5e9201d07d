----------------------------- MODULE MCCredMgmt -----------------------------
(***************************************************************************)
(* CredMgmt on a small instance for TLC.                                   *)
(***************************************************************************)
EXTENDS CredMgmt, TLC

CONSTANTS a, ab, z

\* "a" and "ab" agree up to the shorter length; "z" is apart.
MCUsers == {a, ab, z}
MCSimilar == {<<u, u>> : u \in MCUsers} \cup {<<a, ab>>, <<ab, a>>}

MCSymmetry == Permutations(Rps) \cup Permutations(DeviceKeys) \cup Permutations({a, ab})
==============================================================================
