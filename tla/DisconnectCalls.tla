-------------------------- MODULE DisconnectCalls --------------------------
(***************************************************************************)
(* The disconnect queue and the RPC controller together: DisconnectNow is  *)
(* a call of the controller, made by Run or by the drain of Shutdown, and  *)
(* Node.Shutdown (node/node.go) stops the queue first, then the            *)
(* controller. The calls compete for the controller's tickets, are retried *)
(* while the queue waits for them, and may be under way when the           *)
(* connection is closed.                                                   *)
(*                                                                         *)
(* A call is named after the session it disconnects. Every step is one of  *)
(* DisconnectQueue, one of RpcController, or one of each.                  *)
(***************************************************************************)
EXTENDS DisconnectQueue, RpcController

ASSUME SessionsAreCalls == Sessions \subseteq Calls

\* The signal handler runs Node.Shutdown once at a time.
ASSUME OneShutdown == \A c, d \in Callers : c = d

allVars == <<vars, rpcVars>>

CallsInit == Init /\ RpcInit

\* controller.Disconnect has returned.
Returned(s) == pc[s] = "done"

\* DisconnectNow, on the goroutine of Run and on that of Shutdown.
RunCalls == RunThrottle /\ Begin(runS)
RunResumes == RunReturn /\ Returned(runS) /\ UNCHANGED rpcVars
ShutdownCalls(c) == ShutdownReceive(c) /\ Begin(Head(queue))
ShutdownResumes(c) == ShutdownReturn(c) /\ Returned(shS) /\ UNCHANGED rpcVars

\* Node.Shutdown goes on to the controller when disconnector.Shutdown has
\* returned, with whatever result.
\* Mutation: as soon as the queue is stopped.
QueueStopped == isStopped
QueueDone == \E c \in Callers : sh[c] \in {"nil", "failed", "timedout"}

NodeStopsController == QueueDone /\ ShutdownController /\ UNCHANGED vars

\* What the goroutines of the queue do without being asked again, ...
QueueInternal ==
  \/ RunReceive \/ RunStop
  \/ \E s \in Sessions : EnqueueLock(s) \/ EnqueueSend(s)
  \/ \E c \in Callers : ShutdownLock(c) \/ ShutdownLen(c) \/ ShutdownTimeout(c) \/ Tick(c)

\* ... those of the controller, and the two together.
RpcInternal == (\E s \in Calls : Acquire(s) \/ CallStep(s)) \/ StopStep

Internal ==
  \/ QueueInternal /\ UNCHANGED rpcVars
  \/ RpcInternal /\ UNCHANGED vars
  \/ RunCalls \/ RunResumes \/ NodeStopsController
  \/ \E c \in Callers : ShutdownCalls(c) \/ ShutdownResumes(c)

\* Sessions are disconnected, the node is shut down, the connection comes and goes.
External ==
  \/ ((\E s \in Sessions : Enqueue(s)) \/ (\E c \in Callers : Shutdown(c))) /\ UNCHANGED rpcVars
  \/ (ConnectionFails \/ ConnectionRestored) /\ UNCHANGED vars

CallsNext == Internal \/ External

CallsSpec == CallsInit /\ [][CallsNext]_allVars

\* Some goroutine that can go on does: less than fairness to each, and enough,
\* for each step brings some session or the shutdown nearer to its end.
CallsFairSpec == CallsSpec /\ WF_allVars(Internal)

-----------------------------------------------------------------------------
(* Properties. *)

\* Unless the drain of the queue failed or timed out, nothing but the one call
\* that Run had taken can meet the closed connection: for every other session
\* that was queued the call has returned before Node.Shutdown closes the
\* controller.
CallsBeforeClose ==
  conn = "shutdown" /\ (\A c \in Callers : sh[c] \notin {"failed", "timedout"}) =>
    \A s \in accepted : Returned(s) \/ s = runS

=============================================================================
