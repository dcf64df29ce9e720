---------------------------- MODULE MCSessionEnv ----------------------------
(* Replies that set and delete fields, or leave them alone.                *)
EXTENDS SessionEnv

CONSTANTS c1, c2

SomeChanges == {<<"a", "">>, <<Keep, "a">>}
\* A command is tried twice, Disconnect once.
ReaderRetries == [reader |-> 1, worker |-> 0]
=============================================================================
