---------------------------- MODULE MCPinStorage ----------------------------
(***************************************************************************)
(* PinStorage on a small instance for TLC.                                 *)
(***************************************************************************)
EXTENDS PinStorage, TLC

CONSTANTS short, long

MCPins == {short, long}
MCPinLen == short :> 4 @@ long :> 5

MCPermissions == {"ACFG"}
MCPermRequests == {{"ACFG"}}

\* Absent, and a minimum that only the long PIN reaches.
MCMinLenRequests == {0, 5}
==============================================================================
