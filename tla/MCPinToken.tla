----------------------------- MODULE MCPinToken -----------------------------
(***************************************************************************)
(* LargeBlobs, and PinToken with it, on a small instance for TLC.  A token *)
(* may be asked for with what getPinToken grants, with everything, without *)
(* large blobs, or with nothing (a number whose low byte is zero).         *)
(***************************************************************************)
EXTENDS LargeBlobs, TLC

CONSTANTS r1, r2, empty, some, more

MCRps == {r1, r2}
MCPermRequests == {{"mc", "ga"}, Permissions, {"ga", "cm", "acfg"}, {}}
MCSymmetry == Permutations(MCRps)

\* One array of the shortest length and two longer ones.
MCArrays == {empty, some, more}
MCArrayLen == empty :> 2 @@ some :> 3 @@ more :> 4
==============================================================================
