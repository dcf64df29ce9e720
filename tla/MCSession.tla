----------------------------- MODULE MCSession -----------------------------
(* One session used by one goroutine of the node besides its own.         *)
EXTENDS Session

CONSTANTS p1
=============================================================================
