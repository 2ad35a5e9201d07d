----------------------------- MODULE MCClientPin -----------------------------
(***************************************************************************)
(* ClientPin on a small instance for TLC.                                  *)
(***************************************************************************)
EXTENDS ClientPin, TLC

CONSTANTS short, other, long, huge

\* Two PINs of the default length, one longer, one that fills all 64 bytes.
MCPins == {short, other, long, huge}
MCPinLen == short :> 4 @@ other :> 4 @@ long :> 6 @@ huge :> 7

MCPermissions == {"MC", "ACFG"}
MCPermRequests == {{"MC"}, {"MC", "ACFG"}}

\* Absent, a longer minimum, one no PIN reaches, and one that overflows a byte.
MCMinLenRequests == {0, 5, 7, 8}
==============================================================================
