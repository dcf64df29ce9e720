------------------------------ MODULE MCRunner ------------------------------
(* The port of the WebSocket server, shared with other components.         *)
EXTENDS Runner

CONSTANTS p1, p2

\* Metrics on the port of the WebSocket server; HTTP broadcasts on that port or another.
SomeConfigs ==
  {[metrics |-> p1, pubsub |-> None], [metrics |-> None, pubsub |-> p1],
   [metrics |-> None, pubsub |-> p2]}

\* A second signal is sent under the first configuration only.
FewSignals == [c \in SomeConfigs |-> IF c.metrics = p1 THEN 2 ELSE 1]
=============================================================================
