----------------------------- MODULE MCMetrics -----------------------------
(* Two counters and a scrape, under the configurations of the metrics.     *)
EXTENDS Metrics

CONSTANTS c1, c2, r1

\* Logging alone, HTTP alone, and both on the WebSocket server's port.
SomeConfigs ==
  {[http |-> "none", log |-> TRUE], [http |-> "own", log |-> FALSE],
   [http |-> "shared", log |-> TRUE]}
=============================================================================
