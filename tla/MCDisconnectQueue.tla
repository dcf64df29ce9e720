------------------------- MODULE MCDisconnectQueue -------------------------
(* The disconnect queue alone: three sessions, calls as long as a timeout. *)
EXTENDS DisconnectQueue

CONSTANTS s1, s2, s3, k1
=============================================================================
