---------------------------- MODULE MCCborThread -----------------------------
(***************************************************************************)
(* CborThread for TLC, with lengths of the code: the serial number and the *)
(* HMAC answer of the OTP application (1 and 4 parts with their CRC), and  *)
(* a short CTAP answer with a body (4 parts, should it go out as a frame). *)
(***************************************************************************)
EXTENDS CborThread

MCFrameSizes == {4, 20}
==============================================================================
