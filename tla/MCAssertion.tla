---------------------------- MODULE MCAssertion ----------------------------
(***************************************************************************)
(* Assertion on a small instance for TLC: one relying party that protects  *)
(* its credentials and one that does not.                                  *)
(***************************************************************************)
EXTENDS Assertion

CONSTANTS r1, r2

MCRps == {r1, r2}
MCKinds == {<<r1, 2>>, <<r1, 3>>, <<r2, 1>>}
==============================================================================
