------------------------------ MODULE MCGoPool ------------------------------
(* A pool of three workers and five tasks.                                 *)
EXTENDS GoPool

CONSTANTS t1, t2, t3, t4, t5, w1, w2, w3
=============================================================================
