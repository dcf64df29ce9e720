------------------------------ MODULE Session ------------------------------
(***************************************************************************)
(* One client session (node/session.go) and the goroutines that share it:  *)
(* the one that authenticates it, the reader of Serve, the writer          *)
(* SendMessages, the ping timer, and goroutines of the node (pool workers, *)
(* Shutdown) that send to it or disconnect it.                             *)
(*                                                                         *)
(* Each goroutine carries the list of operations it has still to run; an   *)
(* operation is one critical section of s.mu, or one call made without it. *)
(***************************************************************************)
EXTENDS Naturals, Sequences

CONSTANTS
  Peers,       \* goroutines of the node that use the session
  SendCap,     \* cap(s.sendCh), 256 in the code
  MaxUses      \* bound: sends and disconnects of all Peers, and messages read

ASSUME SessionAssumption ==
  /\ SendCap \in Nat \ {0} /\ MaxUses \in Nat
  /\ Peers \cap {"auth", "reader", "writer", "ping"} = {}

Threads == Peers \cup {"auth", "reader", "writer", "ping"}

VARIABLES
  connected,    \* s.Connected
  sendCh,       \* s.sendCh # nil
  buffer, shut, \* the channel behind s.sendCh: its frames, and whether it is closed
  closed,       \* s.closed
  timer,        \* s.pingTimer is running
  reader, writer, ping, auth,  \* where these goroutines are
  todo,         \* per goroutine: the operations it has still to run
  connClosed,   \* the connection is closed on our side
  clientGone,   \* the client does not answer any more
  uses,         \* bounded by MaxUses
  known,        \* history: Authenticate has succeeded
  told,         \* history: node.Disconnect calls
  panicked      \* history: a closed channel was closed or written to

chanVars == <<sendCh, buffer, shut, panicked>>
connVars == <<connClosed, clientGone>>
nodeVars == <<connected, known, told>>
pcVars == <<reader, writer, ping, auth>>
vars == <<chanVars, connVars, nodeVars, pcVars, closed, timer, todo, uses>>

\* NewSession: the ping timer is set and the writer's goroutine created.
Init ==
  /\ connected = FALSE /\ known = FALSE /\ told = 0
  /\ sendCh = TRUE /\ buffer = <<>> /\ shut = FALSE /\ panicked = FALSE
  /\ closed = FALSE /\ timer = TRUE
  /\ reader = "none" /\ ping = "idle" /\ auth = "rpc"
  /\ writer = "start"
  /\ todo = [t \in Threads |-> <<>>]
  /\ connClosed = FALSE /\ clientGone = FALSE
  /\ uses = 0

-----------------------------------------------------------------------------
(* Operations. *)

Disconnect == <<"fromNode", "sendClose", "close">>
disconnectNow == <<"fromNode", "connClose", "closeCh", "close">>

\* Goroutine t has run its first operation and goes on with ops.
Continue(t, ops) == todo' = [todo EXCEPT ![t] = ops \o Tail(@)]
Doing(t, op) == todo[t] # <<>> /\ Head(todo[t]) = op

\* Whether the session stays connected once disconnectFromNode is over.
\* Mutation: s.Connected is reset only by node.Disconnect's caller.
stillConnected == connected
afterDisconnect == FALSE

disconnectFromNode(t) ==
  /\ Doing(t, "fromNode")
  /\ connected' = afterDisconnect
  /\ Continue(t, IF connected THEN <<"node">> ELSE <<>>)
  /\ UNCHANGED <<chanVars, connVars, known, told, pcVars, closed, timer, uses>>

\* node.Disconnect, after s.mu is released.
nodeDisconnect(t) ==
  /\ Doing(t, "node")
  /\ told' = told + 1
  /\ Continue(t, <<>>)
  /\ UNCHANGED <<chanVars, connVars, connected, known, pcVars, closed, timer, uses>>

\* s.sendCh after the channel has been closed by disconnectNow.
\* Mutation: it still points to the closed channel.
closedChannel == sendCh
noChannel == FALSE

\* Whether the select of sendFrame can send.
roomInSendCh == Len(buffer) < SendCap

\* The select of sendFrame: a full buffer closes the channel, and the session
\* is disconnected once s.mu is released.
sendFrame(t, op, frame) ==
  /\ Doing(t, op)
  /\ \/ /\ ~sendCh
        /\ Continue(t, <<>>) /\ UNCHANGED chanVars
     \/ /\ sendCh /\ roomInSendCh
        /\ buffer' = Append(buffer, frame)
        /\ panicked' = (panicked \/ shut)
        /\ Continue(t, <<>>) /\ UNCHANGED <<sendCh, shut>>
     \/ /\ sendCh /\ ~roomInSendCh
        /\ shut' = TRUE /\ sendCh' = FALSE
        /\ panicked' = (panicked \/ shut)
        /\ Continue(t, Disconnect) /\ UNCHANGED buffer
  /\ UNCHANGED <<connVars, nodeVars, pcVars, closed, timer, uses>>

\* writeFrame of a close frame, which takes no lock.
connClose(t) ==
  /\ Doing(t, "connClose")
  /\ connClosed' = TRUE
  /\ Continue(t, <<>>)
  /\ UNCHANGED <<chanVars, clientGone, nodeVars, pcVars, closed, timer, uses>>

\* disconnectNow closes the channel unless that has been done.
closeCh(t) ==
  /\ Doing(t, "closeCh")
  /\ sendCh' = noChannel
  /\ shut' = (shut \/ sendCh)
  /\ panicked' = (panicked \/ (sendCh /\ shut))
  /\ Continue(t, <<>>)
  /\ UNCHANGED <<buffer, connVars, nodeVars, pcVars, closed, timer, uses>>

close(t) ==
  /\ Doing(t, "close")
  /\ closed' = TRUE
  /\ Continue(t, IF closed THEN <<>> ELSE <<"stopTimer">>)
  /\ UNCHANGED <<chanVars, connVars, nodeVars, pcVars, timer, uses>>

\* s.pingTimer.Stop, after s.mu is released.
stopTimer(t) ==
  /\ Doing(t, "stopTimer")
  /\ timer' = FALSE
  /\ Continue(t, <<>>)
  /\ UNCHANGED <<chanVars, connVars, nodeVars, pcVars, closed, uses>>

-----------------------------------------------------------------------------
(* Authenticate, then Serve, on the goroutine of the WebSocket handler.    *)

\* The RPC returns. An error is disconnected and not served; a rejected
\* session is served like an accepted one, until its close frame is written.
Authenticate ==
  /\ auth = "rpc"
  /\ auth' = "done"
  /\ \E ops \in {<<"setConnected", "text", "serve">>,
                 <<"text">> \o Disconnect \o <<"serve">>, Disconnect} :
       todo' = [todo EXCEPT !["auth"] = ops]
  /\ UNCHANGED <<chanVars, connVars, nodeVars, reader, writer, ping, closed, timer, uses>>

\* s.Connected = true, without s.mu; then the hub knows the session.
setConnected ==
  /\ Doing("auth", "setConnected")
  /\ connected' = TRUE /\ known' = TRUE
  /\ Continue("auth", <<>>)
  /\ UNCHANGED <<chanVars, connVars, told, pcVars, closed, timer, uses>>

Serve ==
  /\ Doing("auth", "serve")
  /\ reader' = "reading"
  /\ Continue("auth", <<>>)
  /\ UNCHANGED <<chanVars, connVars, nodeVars, writer, ping, auth, closed, timer, uses>>

-----------------------------------------------------------------------------
(* The reader. *)

Reading == reader = "reading" /\ todo["reader"] = <<>>

\* A message is read and handled, perhaps one that a client sent before it left;
\* the reply may ask for a disconnect.
ReadMessage ==
  /\ Reading /\ ~connClosed /\ uses < MaxUses
  /\ uses' = uses + 1
  /\ \E ops \in {<<"text">>, <<"text">> \o Disconnect} : todo' = [todo EXCEPT !["reader"] = ops]
  /\ UNCHANGED <<chanVars, connVars, nodeVars, pcVars, closed, timer>>

\* A message that cannot be decoded just ends the loop.
ReadGarbage ==
  /\ Reading /\ ~connClosed
  /\ reader' = "done"
  /\ UNCHANGED <<chanVars, connVars, nodeVars, writer, ping, auth, closed, timer, todo, uses>>

ReadError ==
  /\ Reading /\ (connClosed \/ clientGone)
  /\ reader' = "done"
  /\ todo' = [todo EXCEPT !["reader"] = disconnectNow]
  /\ UNCHANGED <<chanVars, connVars, nodeVars, writer, ping, auth, closed, timer, uses>>

-----------------------------------------------------------------------------
(* The writer. *)

\* range s.sendCh reads the field once; from a nil channel it waits for ever.
WriterStart ==
  /\ writer = "start"
  /\ writer' = IF sendCh THEN "range" ELSE "blocked"
  /\ UNCHANGED <<chanVars, connVars, nodeVars, reader, ping, auth, closed, timer, todo, uses>>

WriterWrite ==
  /\ writer = "range" /\ buffer # <<>> /\ Head(buffer) = "text" /\ ~connClosed
  /\ buffer' = Tail(buffer)
  /\ UNCHANGED <<sendCh, shut, panicked, connVars, nodeVars, pcVars, closed, timer, todo, uses>>

\* The write fails, or the frame was the close frame.
WriterFail ==
  /\ writer = "range" /\ buffer # <<>>
  /\ \/ /\ Head(buffer) = "text" /\ (connClosed \/ clientGone)
        /\ UNCHANGED connClosed
     \/ /\ Head(buffer) = "close"
        /\ connClosed' = TRUE
  /\ buffer' = Tail(buffer)
  /\ writer' = "done"
  /\ todo' = [todo EXCEPT !["writer"] = disconnectNow]
  /\ UNCHANGED <<sendCh, shut, panicked, clientGone, nodeVars, reader, ping, auth, closed, timer, uses>>

\* What SendMessages defers.
\* Mutation: nothing is deferred when the range ends.
onRangeEnd == <<>>
deferred == disconnectNow

WriterEnd ==
  /\ writer = "range" /\ buffer = <<>> /\ shut
  /\ writer' = "done"
  /\ todo' = [todo EXCEPT !["writer"] = deferred]
  /\ UNCHANGED <<chanVars, connVars, nodeVars, reader, ping, auth, closed, timer, uses>>

-----------------------------------------------------------------------------
(* The ping timer. *)

\* sendPing stops when it finds the session closed.
\* Mutation: it does not look.
pingAlways == TRUE
pingWanted == ~closed

PingDue ==
  /\ timer
  /\ timer' = FALSE
  /\ ping' = IF pingWanted THEN "write" ELSE "idle"
  /\ UNCHANGED <<chanVars, connVars, nodeVars, reader, writer, auth, closed, todo, uses>>

PingWrite ==
  /\ ping = "write" /\ ~connClosed
  /\ ping' = "add"
  /\ UNCHANGED <<chanVars, connVars, nodeVars, reader, writer, auth, closed, timer, todo, uses>>

\* What a ping that cannot be written leads to.
\* Mutation: the pings just end.
pingJustEnds == <<>>
onPingError == Disconnect

PingFail ==
  /\ ping = "write" /\ (connClosed \/ clientGone)
  /\ ping' = "idle"
  /\ todo' = [todo EXCEPT !["ping"] = onPingError]
  /\ UNCHANGED <<chanVars, connVars, nodeVars, reader, writer, auth, closed, timer, uses>>

addPing ==
  /\ ping = "add"
  /\ ping' = "idle" /\ timer' = TRUE
  /\ UNCHANGED <<chanVars, connVars, nodeVars, reader, writer, auth, closed, todo, uses>>

-----------------------------------------------------------------------------
(* The rest of the node, and the client. *)

\* A broadcast sends to the session, a command or Shutdown also disconnects it.
Use(p) ==
  /\ known /\ todo[p] = <<>> /\ uses < MaxUses
  /\ uses' = uses + 1
  /\ \E ops \in {<<"text">>, <<"text">> \o Disconnect} : todo' = [todo EXCEPT ![p] = ops]
  /\ UNCHANGED <<chanVars, connVars, nodeVars, pcVars, closed, timer>>

ClientLeaves ==
  /\ ~clientGone
  /\ clientGone' = TRUE
  /\ UNCHANGED <<chanVars, connClosed, nodeVars, pcVars, closed, timer, todo, uses>>

-----------------------------------------------------------------------------
Operation(t) ==
  \/ disconnectFromNode(t) \/ nodeDisconnect(t)
  \/ sendFrame(t, "text", "text") \/ sendFrame(t, "sendClose", "close")
  \/ connClose(t) \/ closeCh(t) \/ close(t) \/ stopTimer(t)

WriterStep == WriterStart \/ WriterWrite \/ WriterFail \/ WriterEnd
PingStep == PingDue \/ PingWrite \/ PingFail \/ addPing

Next ==
  \/ \E t \in Threads : Operation(t)
  \/ Authenticate \/ setConnected \/ Serve
  \/ ReadMessage \/ ReadGarbage \/ ReadError
  \/ WriterStep \/ PingStep
  \/ (\E p \in Peers : Use(p)) \/ ClientLeaves

Spec == Init /\ [][Next]_vars

\* Some goroutine that can go on does (less than fairness to each, and enough:
\* each has a finite list of operations), timers fire, reads of a dead connection
\* fail once what it has buffered is read, and pings to a client that is gone fail
\* in the end. Clients owe nothing.
Fairness ==
  /\ WF_vars((\E t \in Threads : Operation(t)) \/ setConnected \/ Serve)
  /\ WF_vars(ReadError)
  /\ WF_vars(WriterStep)
  /\ WF_vars(PingStep) /\ SF_vars(PingFail)

FairSpec == Spec /\ Fairness

-----------------------------------------------------------------------------
(* Properties. *)

Ops == {"fromNode", "node", "text", "sendClose", "connClose", "closeCh", "close",
        "stopTimer", "setConnected", "serve"}

\* The session's fields and its goroutines hold values of their types, and
\* s.sendCh never holds more than its capacity.
TypeOK ==
  /\ {connected, known, sendCh, shut, panicked, closed, timer, connClosed, clientGone} \subseteq BOOLEAN
  /\ buffer \in Seq({"text", "close"}) /\ Len(buffer) <= SendCap
  /\ reader \in {"none", "reading", "done"} /\ auth \in {"rpc", "done"}
  /\ writer \in {"start", "range", "blocked", "done"} /\ ping \in {"idle", "write", "add"}
  /\ todo \in [Threads -> Seq(Ops)]
  /\ {uses, told} \subseteq Nat

\* No goroutine closes a closed channel or sends on one, which would panic and
\* end the process, whichever of them finds the session broken first.
NoPanic == ~panicked

Pending(op) == {t \in Threads : \E i \in DOMAIN todo[t] : todo[t][i] = op}

\* An accepted session is connected, or exactly one goroutine is about to tell
\* the node, or the node has been told once.
ToldOnce ==
  known => \/ connected /\ told = 0 /\ Pending("node") = {}
           \/ ~connected /\ told = 0 /\ \E t \in Threads : Pending("node") = {t}
           \/ ~connected /\ told = 1 /\ Pending("node") = {}

\* A session that has been disconnected gets its connection closed, whichever
\* goroutine noticed first, unless its writer was started too late to range
\* over the channel.
ConnectionCloses == closed ~> (connClosed \/ writer = "blocked")

\* A client that is gone is noticed, by the reader or, if it has returned, by
\* the ping, and the node is told.
GoneIsNoticed == (known /\ clientGone) ~> (told = 1)

\* Pings end with the session, even if addPing runs after pingTimer.Stop.
PingStops == closed ~> [](~timer /\ ping = "idle")

=============================================================================
