------------------------------- MODULE MCOtp -------------------------------
(***************************************************************************)
(* Otp with OtpStorage on a small instance for TLC: two access codes,      *)
(* which may be swapped, a usage counter that stops at 2, a session        *)
(* counter that wraps after 2, and cuts that lose a release.               *)
(***************************************************************************)
EXTENDS OtpStorage, TLC

CONSTANTS a1, a2

MCAccCodes == {a1, a2}
MCSeeds == {1}
MCSymmetry == Permutations(MCAccCodes)

\* No step reads cmd or out, and the properties read them only in the step that
\* has just written them.
MCView == <<slot, session, scanned, made, flashed, pending, lost, used, loose>>
=============================================================================
