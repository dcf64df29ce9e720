------------------------- MODULE MCDisconnectCalls -------------------------
(* Two sessions, a queue of one place, one ticket, scaled-down intervals.  *)
EXTENDS DisconnectCalls

CONSTANTS s1, s2, k1
=============================================================================
