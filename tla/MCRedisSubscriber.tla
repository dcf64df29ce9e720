------------------------- MODULE MCRedisSubscriber -------------------------
(* Three connections through sentinels and two messages.                   *)
EXTENDS RedisSubscriber
=============================================================================
