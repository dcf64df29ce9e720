-------------------------------- MODULE Hub --------------------------------
(***************************************************************************)
(* The hub (node/hub.go) together with the node handlers that drive it     *)
(* (node/node.go): the registry of sessions, the index of stream           *)
(* subscriptions, the goroutine Hub.Run that serves the hub's channels,    *)
(* the pool tasks it schedules, and the connection goroutines that call    *)
(* the hub.                                                                *)
(*                                                                         *)
(* Every critical section of sessionsMu and streamsMu is one step, except  *)
(* the two loops that hold sessionsMu.RLock while they disconnect sessions *)
(* (disconnectSessions and Node.Shutdown): these take one step per         *)
(* session, and a writer of the registry waits for them.                   *)
(***************************************************************************)
EXTENDS Naturals, Sequences, FiniteSets

CONSTANTS
  Sessions,      \* session UIDs
  Channels,      \* subscription identifiers
  Streams,       \* stream names
  Idents,        \* connection identifiers
  IdentOf,       \* the identifiers the RPC server gives each session
  Replies,       \* the command replies the RPC server may give
  Broadcasts,    \* stream messages that may arrive from pub/sub
  Commands,      \* remote disconnect commands that may arrive from pub/sub
  Signals,       \* termination signals
  RegisterCap,   \* cap(h.register), 2048 in the code
  SubscribeCap,  \* cap(h.subscribe), 128
  PubSubCap,     \* cap(h.broadcast) and cap(h.disconnect), 256 and 128
  PoolWorkers,   \* size of the hub's GoPool
  PoolQueue,     \* length of the pool's task queue
  MaxInputs,     \* bound: client commands, pub/sub messages and signals, together
  NoSession, Orphan

Reply == [ok : BOOLEAN, stopAll : BOOLEAN, stopped : Seq(Streams),
          streams : Seq(Streams), disconnect : BOOLEAN]

ASSUME ConstantsAssumption ==
  /\ IdentOf \in [Sessions -> Idents]
  /\ Replies \subseteq Reply
  /\ RegisterCap \in Nat \ {0} /\ SubscribeCap \in Nat \ {0} /\ PubSubCap \in Nat \ {0}
  /\ PoolWorkers \in Nat \ {0} /\ PoolQueue \in Nat /\ MaxInputs \in Nat
  /\ NoSession \notin Sessions /\ Orphan \notin Idents \cup Streams
  /\ Broadcasts \cap (Commands \cup Signals) = {} /\ Commands \cap Signals = {}

Jobs == Broadcasts \cup Commands \cup Signals
Triples == Streams \X Sessions \X Channels

VARIABLES
  conn,            \* per session: the goroutine that authenticates, then reads
  connected,       \* Session.Connected
  leaving,         \* sessions with a goroutine of theirs inside node.Disconnect
  subscriptions,   \* Session.subscriptions
  calls,           \* hub calls left of the reply the reader is handling
  commands,        \* number of commands handled
  sessions,        \* keys of h.sessions
  identifiers,     \* h.identifiers, as the set of its <<identifiers, uid>> keys
  streams,         \* keys of h.streams
  streamSessions,  \* <<stream, sid>>: keys of the maps in h.streams
  streamIds,       \* <<stream, sid, identifier>>: keys of the innermost maps
  sessionsStreams, \* h.sessionsStreams, as <<sid, identifier, stream>>
  register, subscribe, broadcast, disconnect,  \* the hub's channels
  hubPc, hubSid,   \* Hub.Run: where it is, and the session it is removing
  at,              \* per job: its progress
  to,              \* per job: its stream or identifier (Orphan: a dropped map)
  snapshot,        \* per job: the <<sid, identifier>> pairs found when it started
  todo,            \* per job: the sessions it has still to visit
  kick,            \* per job: the session it is inside node.Disconnect for
  intended,        \* history: subscriptions as if commands took effect in order
  must, may,       \* history, per broadcast: who must and who may get it
  mustGo,          \* history, per command: who must be disconnected by it
  sent             \* history: <<broadcast, sid, identifier>> given to Session.Send

connVars == <<conn, connected, leaving>>
readerVars == <<subscriptions, calls, commands, intended>>
sessionSide == <<connVars, readerVars>>
registryVars == <<sessions, identifiers>>
indexVars == <<streams, streamSessions, streamIds, sessionsStreams>>
channelVars == <<register, subscribe, broadcast, disconnect>>
hubVars == <<hubPc, hubSid>>
jobVars == <<at, to, snapshot, todo, kick, sent>>
mapVars == <<registryVars, indexVars>>
hubSide == <<mapVars, channelVars, hubVars, jobVars>>
vars == <<sessionSide, hubSide, must, may, mustGo>>

Range(q) == {q[i] : i \in DOMAIN q}

Init ==
  /\ conn = [s \in Sessions |-> "auth"]
  /\ connected = [s \in Sessions |-> FALSE]
  /\ leaving = {}
  /\ subscriptions = [s \in Sessions |-> {}]
  /\ calls = [s \in Sessions |-> <<>>]
  /\ commands = 0
  /\ sessions = {} /\ identifiers = {}
  /\ streams = {} /\ streamSessions = {} /\ streamIds = {} /\ sessionsStreams = {}
  /\ register = <<>> /\ subscribe = <<>> /\ broadcast = <<>> /\ disconnect = <<>>
  /\ hubPc = "select" /\ hubSid = NoSession
  /\ at = [j \in Jobs |-> "idle"]
  /\ to = [j \in Jobs |-> Orphan]
  /\ snapshot = [j \in Jobs |-> {}]
  /\ todo = [j \in Jobs |-> {}]
  /\ kick = [j \in Jobs |-> NoSession]
  /\ intended = {}
  /\ must = [j \in Broadcasts |-> Triples]
  /\ may = [j \in Broadcasts |-> {}]
  /\ mustGo = [j \in Commands |-> Sessions]
  /\ sent = {}

\* The environment's next input is within the bound.
MoreInput == commands + Cardinality({j \in Jobs : at[j] # "idle"}) < MaxInputs

-----------------------------------------------------------------------------
(* Locks and the worker pool.                                              *)

\* Jobs that hold sessionsMu.RLock over several steps. A writer waits for them
\* at the step that takes the lock; until it has asked for the lock, which is no
\* step of its own, readers may still join.
ReadersOfSessionsMu == {j \in Commands \cup Signals : at[j] = "running"}

Pooled == {j \in Broadcasts \cup Commands : at[j] \in {"pooled", "running"}}

\* GoPool, as the hub uses it: a free worker takes a scheduled task.
WorkerFree == Cardinality({j \in Pooled : at[j] = "running"}) < PoolWorkers
PoolHasRoom == Cardinality(Pooled) < PoolWorkers + PoolQueue

-----------------------------------------------------------------------------
(* History: what each message in flight owes to whom.                      *)

\* The subscriptions a broadcast can reach: those of registered sessions.
Live == {t \in streamIds : t[2] \in sessions}

\* A removal of t is on its way: still to be sent by the reader, or in h.subscribe.
Covers(call, s, t) ==
  /\ t[2] = s /\ t[3] = call.identifier
  /\ call.event = "removeAll" \/ (call.event = "remove" /\ call.stream = t[1])
Doomed(t) ==
  \/ \E i \in DOMAIN calls[t[2]] : Covers(calls[t[2]][i], t[2], t)
  \/ \E i \in DOMAIN subscribe : Covers(subscribe[i].call, subscribe[i].session, t)
Wanted == {t \in Triples : t \in intended \/ Doomed(t)}

Track ==
  /\ must' = [j \in Broadcasts |->
       IF at'[j] = "idle" \/ at[j] = "done" THEN must[j] ELSE must[j] \cap Live']
  /\ may' = [j \in Broadcasts |->
       IF at'[j] = "idle" \/ at[j] = "done" THEN may[j] ELSE may[j] \cup Wanted']
  /\ mustGo' = [j \in Commands |->
       IF at'[j] = "idle" \/ at[j] = "done" THEN mustGo[j]
       ELSE mustGo[j] \cap {s \in sessions' : IdentOf[s] = to'[j]}]

-----------------------------------------------------------------------------
(* Sessions: Node.Authenticate and the ways a session is disconnected.     *)

\* Session.Serve is reading; a rejected connection is read until it is closed.
Serving(s) == conn[s] \in {"serve", "rejected"}

\* session.disconnectFromNode: the first caller that finds the session
\* connected goes on to node.Disconnect.
disconnectFromNode(s) ==
  /\ connected' = [connected EXCEPT ![s] = FALSE]
  /\ leaving' = IF connected[s] THEN leaving \cup {s} ELSE leaving

AuthenticateSuccess(s) ==
  /\ conn[s] = "auth"
  /\ conn' = [conn EXCEPT ![s] = "add"]
  /\ connected' = [connected EXCEPT ![s] = TRUE]
  /\ UNCHANGED <<leaving, readerVars, hubSide>>
  /\ Track

\* The direct call of hub.addSession, then Session.Serve starts the reader.
addSession(s) ==
  /\ conn[s] = "add"
  /\ ReadersOfSessionsMu = {}
  /\ sessions' = sessions \cup {s}
  /\ identifiers' = identifiers \cup {<<IdentOf[s], s>>}
  /\ conn' = [conn EXCEPT ![s] = "serve"]
  /\ UNCHANGED <<connected, leaving, readerVars, indexVars, channelVars, hubVars, jobVars>>
  /\ Track

\* An RPC error ends the connection; a rejected one is still served until the
\* close frame has been written.
AuthenticateFailure(s) ==
  /\ conn[s] = "auth"
  /\ \E next \in {"gone", "rejected"} : conn' = [conn EXCEPT ![s] = next]
  /\ UNCHANGED <<connected, leaving, readerVars, hubSide>>
  /\ Track

\* A ping, a write or a full send buffer fails on a goroutine of the session.
\* The ping timer runs from NewSession on, so this may also happen while
\* Authenticate is between s.Connected = true and hub.addSession.
Drop(s) ==
  /\ connected[s]
  /\ disconnectFromNode(s)
  /\ UNCHANGED <<conn, readerVars, hubSide>>
  /\ Track

\* The reader's loop ends: on a read error it disconnects the session, on a
\* message it cannot decode it just returns.
ReaderExit(s) ==
  /\ Serving(s) /\ calls[s] = <<>>
  /\ conn' = [conn EXCEPT ![s] = IF @ = "serve" THEN "gone" ELSE "refused"]
  /\ disconnectFromNode(s) \/ UNCHANGED <<connected, leaving>>
  /\ UNCHANGED <<readerVars, hubSide>>
  /\ Track

\* node.Disconnect: hub.RemoveSession, a blocking send on h.register. The call
\* of disconnector.Enqueue that follows is in module DisconnectQueue, and
\* always returns there.
RemoveSession(s) ==
  /\ s \in leaving
  /\ Len(register) < RegisterCap
  /\ register' = Append(register, s)
  /\ leaving' = leaving \ {s}
  /\ UNCHANGED <<conn, connected, readerVars, mapVars, subscribe, broadcast,
                 disconnect, hubVars, jobVars>>
  /\ Track

-----------------------------------------------------------------------------
(* Client commands: Node.Subscribe, Unsubscribe, Perform and, step by step, *)
(* the hub calls of handleCommandReply.                                     *)

\* What handleCommandReply does with a reply, in its order.
callsFor(event, ch, q) ==
  [i \in 1..Len(q) |-> [event |-> event, identifier |-> ch, stream |-> q[i]]]
stopCalls(ch, r) ==
  IF r.stopAll THEN <<[event |-> "removeAll", identifier |-> ch, stream |-> Orphan]>>
               ELSE callsFor("remove", ch, r.stopped)
startCalls(ch, r) == callsFor("add", ch, r.streams)
closeCalls(ch, r) ==
  IF r.disconnect THEN <<[event |-> "disconnect", identifier |-> ch, stream |-> Orphan]>> ELSE <<>>
hubCalls(ch, r) == (stopCalls(ch, r) \o startCalls(ch, r)) \o closeCalls(ch, r)

\* What the same reply means for the subscriptions of s.
Stopped(s, ch, r) ==
  {t \in Triples : t[2] = s /\ t[3] = ch /\ (r.stopAll \/ t[1] \in Range(r.stopped))}
Started(s, ch, r) == {<<st, s, ch>> : st \in Range(r.streams)}

\* A command's RPC has returned r; the reader handles one command at a time.
Command(s, ch, r) ==
  /\ Serving(s) /\ calls[s] = <<>>
  /\ MoreInput
  /\ commands' = commands + 1
  /\ calls' = [calls EXCEPT ![s] = hubCalls(ch, r)]
  /\ intended' = (intended \ Stopped(s, ch, r)) \cup Started(s, ch, r)
  /\ UNCHANGED <<connVars, hubSide>>
  /\ Track

Subscribe(s, ch, r) ==
  /\ ch \notin subscriptions[s]
  /\ subscriptions' = IF r.ok THEN [subscriptions EXCEPT ![s] = @ \cup {ch}]
                              ELSE subscriptions
  /\ Command(s, ch, r)

Unsubscribe(s, ch, r) ==
  /\ ch \in subscriptions[s]
  /\ subscriptions' = IF r.ok THEN [subscriptions EXCEPT ![s] = @ \ {ch}]
                              ELSE subscriptions
  /\ Command(s, ch, IF r.ok THEN [r EXCEPT !.stopAll = TRUE] ELSE r)

Perform(s, ch, r) ==
  /\ ch \in subscriptions[s]
  /\ UNCHANGED subscriptions
  /\ Command(s, ch, r)

\* h.sessionsStreams[sid][identifier] with the stream appended.
listAppended(s, ch, st) == sessionsStreams \cup {<<s, ch, st>>}

\* The direct call of hub.subscribeSession for each stream of the reply.
subscribeSession(s) ==
  /\ calls[s] # <<>> /\ Head(calls[s]).event = "add"
  /\ LET st == Head(calls[s]).stream
         ch == Head(calls[s]).identifier
     IN  /\ streams' = streams \cup {st}
         /\ streamSessions' = streamSessions \cup {<<st, s>>}
         /\ streamIds' = streamIds \cup {<<st, s, ch>>}
         /\ sessionsStreams' = listAppended(s, ch, st)
  /\ calls' = [calls EXCEPT ![s] = Tail(@)]
  /\ UNCHANGED <<connVars, subscriptions, commands, intended, registryVars,
                 channelVars, hubVars, jobVars>>
  /\ Track

\* hub.RemoveSubscription, hub.RemoveAllSubscriptions: a send on h.subscribe.
RemoveSubscription(s) ==
  /\ calls[s] # <<>> /\ Head(calls[s]).event \in {"remove", "removeAll"}
  /\ Len(subscribe) < SubscribeCap
  /\ subscribe' = Append(subscribe, [session |-> s, call |-> Head(calls[s])])
  /\ calls' = [calls EXCEPT ![s] = Tail(@)]
  /\ UNCHANGED <<connVars, subscriptions, commands, intended, mapVars, register,
                 broadcast, disconnect, hubVars, jobVars>>
  /\ Track

\* The deferred Session.Disconnect of a reply that asks for it.
ReplyDisconnect(s) ==
  /\ calls[s] # <<>> /\ Head(calls[s]).event = "disconnect"
  /\ disconnectFromNode(s)
  /\ calls' = [calls EXCEPT ![s] = Tail(@)]
  /\ UNCHANGED <<conn, subscriptions, commands, intended, hubSide>>
  /\ Track

-----------------------------------------------------------------------------
(* Hub.Run: one case of its select per action.                             *)

\* What is left of h.streams when the streams listed for the channels Cs of
\* session s are dropped, level by level.
Listed(s, Cs) == {st \in Streams : \E ch \in Cs : <<s, ch, st>> \in sessionsStreams}
idsWithout(s, Cs) ==
  {t \in streamIds : ~(t[2] = s /\ t[3] \in Cs /\ <<s, t[3], t[1]>> \in sessionsStreams)}
sessionsWithout(s, Cs) ==
  {p \in streamSessions :
     \/ p[2] # s \/ p[1] \notin Listed(s, Cs)
     \/ \E ch \in Channels : <<p[1], s, ch>> \in idsWithout(s, Cs)}
streamsWithout(s, Cs) ==
  {st \in streams :
     \/ st \notin Listed(s, Cs)
     \/ \E p \in sessionsWithout(s, Cs) : p[1] = st}

dropFromStreams(s, Cs) ==
  /\ streamIds' = idsWithout(s, Cs)
  /\ streamSessions' = sessionsWithout(s, Cs)
  /\ streams' = streamsWithout(s, Cs)

unsubscribeSessionFromChannel(s, ch) ==
  /\ dropFromStreams(s, {ch})
  /\ UNCHANGED sessionsStreams

\* Mutation: only the channels the session lists as its subscriptions.
unsubscribeSessionFromListed(s) ==
  /\ dropFromStreams(s, subscriptions[s])
  /\ sessionsStreams' = {t \in sessionsStreams : t[1] # s}

unsubscribeSessionFromAllChannels(s) ==
  /\ dropFromStreams(s, Channels)
  /\ sessionsStreams' = {t \in sessionsStreams : t[1] # s}

\* Mutation: the wrong map loses the subscription.
unsubscribeSessionReverse(s, st, ch) ==
  /\ sessionsStreams' = sessionsStreams \ {<<s, ch, st>>}
  /\ UNCHANGED <<streams, streamSessions, streamIds>>

unsubscribeSession(s, st, ch) ==
  /\ streamIds' = streamIds \ {<<st, s, ch>>}
  /\ UNCHANGED <<streams, streamSessions, sessionsStreams>>

\* case subinfo := <-h.subscribe (its "add" event has no caller).
RunSubscribe ==
  /\ hubPc = "select" /\ subscribe # <<>>
  /\ LET info == Head(subscribe)
     IN  IF info.call.event = "removeAll"
         THEN unsubscribeSessionFromChannel(info.session, info.call.identifier)
         ELSE unsubscribeSession(info.session, info.call.stream, info.call.identifier)
  /\ subscribe' = Tail(subscribe)
  /\ UNCHANGED <<sessionSide, registryVars, register, broadcast, disconnect, hubVars,
                 jobVars>>
  /\ Track

\* The test at the start of removeSession.
registered(s) == s \in sessions

\* case r := <-h.register (its "add" event has no caller): removeSession up to
\* the point where it takes sessionsMu.
RunRegister ==
  /\ hubPc = "select" /\ register # <<>>
  /\ register' = Tail(register)
  /\ IF registered(Head(register))
     THEN /\ unsubscribeSessionFromAllChannels(Head(register))
          /\ hubPc' = "remove" /\ hubSid' = Head(register)
     ELSE UNCHANGED <<indexVars, hubVars>>
  /\ UNCHANGED <<sessionSide, registryVars, subscribe, broadcast, disconnect, jobVars>>
  /\ Track

identifiersWithout(s) == identifiers \ {<<IdentOf[s], s>>}

\* The rest of removeSession. A scheduled disconnect command keeps the map of
\* its identifier even after that map has been dropped from h.identifiers.
removeSession ==
  /\ hubPc = "remove"
  /\ ReadersOfSessionsMu = {}
  /\ sessions' = sessions \ {hubSid}
  /\ identifiers' = identifiersWithout(hubSid)
  /\ to' = [j \in Jobs |->
              IF /\ j \in Commands /\ at[j] \in {"schedule", "pooled"}
                 /\ to[j] = IdentOf[hubSid]
                 /\ ~\E s \in sessions' : <<to[j], s>> \in identifiers'
              THEN Orphan ELSE to[j]]
  /\ hubPc' = "select" /\ hubSid' = NoSession
  /\ UNCHANGED <<sessionSide, indexVars, channelVars, at, snapshot, todo, kick, sent>>
  /\ Track

\* case message := <-h.broadcast: broadcastToStream up to pool.Schedule.
RunBroadcast ==
  /\ hubPc = "select" /\ broadcast # <<>>
  /\ broadcast' = Tail(broadcast)
  /\ LET j == Head(broadcast)
     IN  IF to[j] \in streams
         THEN at' = [at EXCEPT ![j] = "schedule"] /\ hubPc' = "schedule"
         ELSE at' = [at EXCEPT ![j] = "done"] /\ UNCHANGED hubPc
  /\ UNCHANGED <<sessionSide, mapVars, register, subscribe, disconnect, hubSid, to,
                 snapshot, todo, kick, sent>>
  /\ Track

\* case command := <-h.disconnect: disconnectSessions up to pool.Schedule.
RunDisconnect ==
  /\ hubPc = "select" /\ disconnect # <<>>
  /\ disconnect' = Tail(disconnect)
  /\ LET j == Head(disconnect)
     IN  IF \E s \in Sessions : <<to[j], s>> \in identifiers
         THEN at' = [at EXCEPT ![j] = "schedule"] /\ hubPc' = "schedule"
         ELSE at' = [at EXCEPT ![j] = "done"] /\ UNCHANGED hubPc
  /\ UNCHANGED <<sessionSide, mapVars, register, subscribe, broadcast, hubSid, to,
                 snapshot, todo, kick, sent>>
  /\ Track

\* h.pool.Schedule, which blocks Hub.Run while the pool is full.
RunSchedule(j) ==
  /\ hubPc = "schedule" /\ at[j] = "schedule"
  /\ PoolHasRoom
  /\ at' = [at EXCEPT ![j] = "pooled"]
  /\ hubPc' = "select"
  /\ UNCHANGED <<sessionSide, mapVars, channelVars, hubSid, to, snapshot, todo, kick, sent>>
  /\ Track

\* case <-h.shutdown: the rendezvous with Hub.Shutdown.
RunShutdown(j) ==
  /\ hubPc = "select" /\ at[j] = "shutdown"
  /\ hubPc' = "stopped"
  /\ at' = [at EXCEPT ![j] = "stopped"]
  /\ UNCHANGED <<sessionSide, mapVars, channelVars, hubSid, to, snapshot, todo, kick, sent>>
  /\ Track

-----------------------------------------------------------------------------
(* Pub/sub messages, termination signals, and the tasks of the pool.        *)

\* HandlePubSub of a stream message: Node.Broadcast, hub.BroadcastMessage. The
\* broadcasts a command's reply carries arrive here too, at any time.
Broadcast(j, st) ==
  /\ at[j] = "idle" /\ MoreInput /\ Len(broadcast) < PubSubCap
  /\ at' = [at EXCEPT ![j] = "queued"]
  /\ to' = [to EXCEPT ![j] = st]
  /\ broadcast' = Append(broadcast, j)
  /\ UNCHANGED <<sessionSide, mapVars, register, subscribe, disconnect, hubVars,
                 snapshot, todo, kick, sent>>
  /\ Track

\* HandlePubSub of a disconnect command: Node.RemoteDisconnect.
RemoteDisconnect(j, id) ==
  /\ at[j] = "idle" /\ MoreInput /\ Len(disconnect) < PubSubCap
  /\ at' = [at EXCEPT ![j] = "queued"]
  /\ to' = [to EXCEPT ![j] = id]
  /\ disconnect' = Append(disconnect, j)
  /\ UNCHANGED <<sessionSide, mapVars, register, subscribe, broadcast, hubVars,
                 snapshot, todo, kick, sent>>
  /\ Track

\* Node.Shutdown up to the send on h.shutdown.
Shutdown(j) ==
  /\ at[j] = "idle" /\ MoreInput
  /\ at' = [at EXCEPT ![j] = "shutdown"]
  /\ UNCHANGED <<sessionSide, mapVars, channelVars, hubVars, to, snapshot, todo, kick,
                 sent>>
  /\ Track

\* Node.Shutdown once the hub has stopped: the test of hub.Size.
ShutdownSize(j) ==
  /\ at[j] = "stopped"
  /\ at' = [at EXCEPT ![j] = IF sessions = {} THEN "done" ELSE "closing"]
  /\ UNCHANGED <<sessionSide, mapVars, channelVars, hubVars, to, snapshot, todo, kick,
                 sent>>
  /\ Track

\* Node.Shutdown locks sessionsMu for reading and ranges over h.sessions.
StartClosing(j) ==
  /\ at[j] = "closing"
  /\ at' = [at EXCEPT ![j] = "running"]
  /\ todo' = [todo EXCEPT ![j] = sessions]
  /\ UNCHANGED <<sessionSide, mapVars, channelVars, hubVars, to, snapshot, kick, sent>>
  /\ Track

\* A worker starts a broadcast: streamSessionsSnapshot under streamsMu.RLock.
StartBroadcast(j) ==
  /\ at[j] = "pooled" /\ WorkerFree
  /\ at' = [at EXCEPT ![j] = "running"]
  /\ snapshot' = [snapshot EXCEPT ![j] =
       {p \in Sessions \X Channels : <<to[j], p[1], p[2]>> \in streamIds}]
  /\ todo' = [todo EXCEPT ![j] = {s \in Sessions : <<to[j], s>> \in streamSessions}]
  /\ UNCHANGED <<sessionSide, mapVars, channelVars, hubVars, to, kick, sent>>
  /\ Track

\* Mutation: a session that is not registered ends the loop.
restOrReturn(j, s) == IF s \in sessions THEN todo[j] \ {s} ELSE {}
restAfter(j, s) == todo[j] \ {s}

\* One round of the broadcast's loop: Session.Send for every identifier, unless
\* the session is no longer registered. A send that finds the buffer full
\* disconnects the session on the worker.
SendTo(j, s) ==
  /\ at[j] = "running" /\ s \in todo[j] /\ kick[j] = NoSession
  /\ todo' = [todo EXCEPT ![j] = restAfter(j, s)]
  /\ IF s \in sessions
     THEN /\ sent' = sent \cup {<<j, s, ch>> : ch \in {c \in Channels : <<s, c>> \in snapshot[j]}}
          /\ \/ UNCHANGED <<connected, kick>>
             \/ /\ connected[s] /\ \E c \in Channels : <<s, c>> \in snapshot[j]
                /\ connected' = [connected EXCEPT ![s] = FALSE]
                /\ kick' = [kick EXCEPT ![j] = s]
     ELSE UNCHANGED <<sent, connected, kick>>
  /\ UNCHANGED <<conn, leaving, readerVars, mapVars, channelVars, hubVars, at, to,
                 snapshot>>
  /\ Track

\* Mutation: one session of the identifiers, as findByIdentifier returns it.
oneSessionOf(id) ==
  {CHOOSE s \in Sessions : <<id, s>> \in identifiers \/ ~\E u \in Sessions : <<id, u>> \in identifiers}
sessionsOf(id) == {s \in Sessions : <<id, s>> \in identifiers}

\* A worker starts a disconnect command: it locks sessionsMu for reading and
\* ranges over the map it was given.
StartDisconnect(j) ==
  /\ at[j] = "pooled" /\ WorkerFree
  /\ at' = [at EXCEPT ![j] = "running"]
  /\ todo' = [todo EXCEPT ![j] = sessionsOf(to[j])]
  /\ UNCHANGED <<sessionSide, mapVars, channelVars, hubVars, to, snapshot, kick, sent>>
  /\ Track

\* Who is passed on to node.Disconnect.
\* Mutation: the session is marked as disconnected, the node is not told.
disconnectQuietly(s) == NoSession
disconnectIfConnected(s) == IF connected[s] THEN s ELSE NoSession

\* One round of the loops of disconnectSessions and Node.Shutdown:
\* Session.Send, then Session.Disconnect.
Kick(j, s) ==
  /\ at[j] = "running" /\ s \in todo[j] /\ kick[j] = NoSession
  /\ todo' = [todo EXCEPT ![j] = restAfter(j, s)]
  /\ connected' = [connected EXCEPT ![s] = FALSE]
  /\ kick' = [kick EXCEPT ![j] = disconnectIfConnected(s)]
  /\ UNCHANGED <<conn, leaving, readerVars, mapVars, channelVars, hubVars, at, to,
                 snapshot, sent>>
  /\ Track

disconnecting(j) == kick[j] # NoSession

\* The hub.RemoveSession of that Session.Disconnect, on the job's goroutine.
RemoveKicked(j) ==
  /\ disconnecting(j)
  /\ Len(register) < RegisterCap
  /\ register' = Append(register, kick[j])
  /\ kick' = [kick EXCEPT ![j] = NoSession]
  /\ UNCHANGED <<sessionSide, mapVars, subscribe, broadcast, disconnect, hubVars, at,
                 to, snapshot, todo, sent>>
  /\ Track

loopOver(j) == todo[j] = {} /\ kick[j] = NoSession

\* The loop is over; a deferred RUnlock releases the registry.
Finish(j) ==
  /\ at[j] = "running" /\ loopOver(j)
  /\ at' = [at EXCEPT ![j] = "done"]
  /\ UNCHANGED <<sessionSide, mapVars, channelVars, hubVars, to, snapshot, todo, kick,
                 sent>>
  /\ Track

-----------------------------------------------------------------------------
SessionStep(s) ==
  \/ AuthenticateSuccess(s) \/ addSession(s) \/ AuthenticateFailure(s)
  \/ Drop(s) \/ ReaderExit(s) \/ RemoveSession(s)
  \/ subscribeSession(s) \/ RemoveSubscription(s) \/ ReplyDisconnect(s)
  \/ \E ch \in Channels, r \in Replies :
       Subscribe(s, ch, r) \/ Unsubscribe(s, ch, r) \/ Perform(s, ch, r)

RunStep ==
  \/ RunSubscribe \/ RunRegister \/ removeSession \/ RunBroadcast \/ RunDisconnect
  \/ \E j \in Jobs : RunSchedule(j)
  \/ \E j \in Signals : RunShutdown(j)

\* The goroutine of each job: a pool worker, or the signal handler.
BroadcastStep(j) ==
  StartBroadcast(j) \/ (\E s \in Sessions : SendTo(j, s)) \/ RemoveKicked(j) \/ Finish(j)
CommandStep(j) ==
  StartDisconnect(j) \/ (\E s \in Sessions : Kick(j, s)) \/ RemoveKicked(j) \/ Finish(j)
SignalStep(j) ==
  \/ ShutdownSize(j) \/ StartClosing(j)
  \/ (\E s \in Sessions : Kick(j, s)) \/ RemoveKicked(j) \/ Finish(j)

Arrival ==
  \/ \E j \in Broadcasts, st \in Streams : Broadcast(j, st)
  \/ \E j \in Commands, id \in Idents : RemoteDisconnect(j, id)
  \/ \E j \in Signals : Shutdown(j)

Next ==
  \/ RunStep \/ Arrival
  \/ \E j \in Broadcasts : BroadcastStep(j)
  \/ \E j \in Commands : CommandStep(j)
  \/ \E j \in Signals : SignalStep(j)
  \/ \E s \in Sessions : SessionStep(s)

Spec == Init /\ [][Next]_vars

\* A ready goroutine is scheduled, a select with a ready case takes one, senders
\* blocked on a channel are served in order, and a wait for a lock ends when it
\* is free. Clients, the RPC server and pub/sub owe nothing.
Fairness ==
  /\ WF_vars(RunStep)
  /\ WF_vars(RunRegister)
  /\ \A s \in Sessions :
       /\ WF_vars((addSession(s) \/ subscribeSession(s) \/ RemoveSubscription(s)
                   \/ ReplyDisconnect(s)))
       /\ SF_vars(RemoveSession(s))
  /\ \A j \in Broadcasts : WF_vars(BroadcastStep(j))
  /\ \A j \in Commands : WF_vars(CommandStep(j))
  /\ \A j \in Signals : WF_vars(SignalStep(j))
  /\ \A j \in Jobs : SF_vars(RemoveKicked(j))

FairSpec == Spec /\ Fairness

-----------------------------------------------------------------------------
(* Properties.                                                             *)

Call == [event : {"add", "remove"}, identifier : Channels, stream : Streams]
        \cup [event : {"removeAll", "disconnect"}, identifier : Channels, stream : {Orphan}]
Stage == {"idle", "queued", "schedule", "pooled", "shutdown", "stopped",
          "closing", "running", "done"}

SessionsTypeOK ==
  /\ conn \in [Sessions -> {"auth", "add", "serve", "gone", "rejected", "refused"}]
  /\ connected \in [Sessions -> BOOLEAN]
  /\ leaving \subseteq Sessions
  /\ subscriptions \in [Sessions -> SUBSET Channels]
  /\ calls \in [Sessions -> Seq(Call)]
  /\ commands \in Nat
  /\ intended \subseteq Triples

MapsTypeOK ==
  /\ sessions \subseteq Sessions /\ identifiers \subseteq Idents \X Sessions
  /\ streams \subseteq Streams /\ streamSessions \subseteq Streams \X Sessions
  /\ streamIds \subseteq Triples
  /\ sessionsStreams \subseteq Sessions \X Channels \X Streams

ChannelsTypeOK ==
  /\ register \in Seq(Sessions)
  /\ subscribe \in Seq([session : Sessions, call : Call])
  /\ broadcast \in Seq(Broadcasts) /\ disconnect \in Seq(Commands)

JobsTypeOK ==
  /\ hubPc \in {"select", "remove", "schedule", "stopped"}
  /\ hubSid \in Sessions \cup {NoSession}
  /\ at \in [Jobs -> Stage]
  /\ to \in [Jobs -> Streams \cup Idents \cup {Orphan}]
  /\ snapshot \in [Jobs -> SUBSET (Sessions \X Channels)]
  /\ todo \in [Jobs -> SUBSET Sessions]
  /\ kick \in [Jobs -> Sessions \cup {NoSession}]
  /\ sent \subseteq Broadcasts \X Sessions \X Channels

HistoryTypeOK ==
  /\ must \in [Broadcasts -> SUBSET Triples]
  /\ may \in [Broadcasts -> SUBSET Triples]
  /\ mustGo \in [Commands -> SUBSET Sessions]

\* The sessions, and the hub's maps, channels and goroutines, hold values of
\* their types.
TypeOK == SessionsTypeOK /\ MapsTypeOK /\ ChannelsTypeOK /\ JobsTypeOK /\ HistoryTypeOK

\* Every key of the nested maps of h.streams can be found again from
\* h.sessionsStreams, and a stream keeps its key only while some session has one
\* in it: otherwise removing a session or a channel would leave entries behind
\* for good. (A session's own map of identifiers may be empty: unsubscribeSession
\* leaves it so.)
IndexCoherent ==
  /\ \A t \in streamIds : <<t[1], t[2]>> \in streamSessions /\ <<t[2], t[3], t[1]>> \in sessionsStreams
  /\ \A p \in streamSessions :
       p[1] \in streams /\ \E ch \in Channels : <<p[2], ch, p[1]>> \in sessionsStreams
  /\ \A st \in streams : \E s \in Sessions : <<st, s>> \in streamSessions

\* Hub.Run, when it removes a session, leaves no entry of it in the index, no
\* matter how its subscribe and unsubscribe calls were interleaved before.
RemovalCleansIndex ==
  [][hubSid' # NoSession /\ hubSid' # hubSid =>
       /\ ~\E st \in Streams : <<st, hubSid'>> \in streamSessions'
       /\ ~\E t \in sessionsStreams' : t[1] = hubSid']_vars

\* The hub holds no subscription that the client has given up: one that is not
\* intended any more has a removal on its way. Removals travel through
\* h.subscribe while additions are direct calls, so they may be reordered, but
\* never so that a cancelled subscription survives.
NoGhostSubscription == \A t \in streamIds : t \in intended \/ Doomed(t)

\* A broadcast goes only to subscriptions that the client wanted, or whose
\* removal was still on its way, while the message was in flight.
NoUnwantedDelivery ==
  \A x \in sent : <<to[x[1]], x[2], x[3]>> \in may[x[1]]

\* A subscription held by a registered session from the moment a message is
\* published until its task has finished gets the message, whatever the other
\* sessions of the stream do in between.
BroadcastComplete ==
  \A j \in Broadcasts : at[j] = "done" =>
    \A t \in must[j] : t[1] = to[j] => <<j, t[2], t[3]>> \in sent

\* A session that carried the identifier of a disconnect command from its
\* arrival until its task has finished is no longer connected.
RemoteDisconnectComplete ==
  \A j \in Commands : at[j] = "done" => \A s \in mustGo[j] : ~connected[s]

RemovalPending(s) ==
  \/ s \in leaving \/ s \in Range(register) \/ (hubPc = "remove" /\ hubSid = s)
  \/ \E j \in Jobs : kick[j] = s

\* Registered, though disconnected, and nothing will remove it any more.
Zombie(s) == s \in sessions /\ ~connected[s] /\ ~RemovalPending(s)

\* A registered session is connected, or its removal is on its way: no
\* "registration is added after disconnection".
NoZombieSession == \A s \in Sessions : ~Zombie(s)

\* Nothing but addSession, called for a session that has been disconnected
\* meanwhile, makes such a session: once a session is registered and connected,
\* whoever disconnects it, a reader, a ping, a worker or Node.Shutdown, and
\* however they interleave with Hub.Run, the hub gets its removal.
ZombiesAreBornLate ==
  [][\A s \in Sessions :
       Zombie(s)' => Zombie(s) \/ (conn[s] = "add" /\ conn'[s] = "serve" /\ ~connected[s])]_vars

\* The reader of s has no hub call left and none of its calls is in h.subscribe.
Quiet(s) == calls[s] = <<>> /\ \A i \in DOMAIN subscribe : subscribe[i].session # s

\* The hub applies the calls of a session in the order the session made them:
\* once nothing is on its way, a connected session holds exactly the
\* subscriptions its commands asked for.
CallsInOrder ==
  \A s \in sessions : connected[s] /\ Quiet(s) =>
    \A t \in Triples : t[2] = s => (t \in streamIds <=> t \in intended)

\* Nobody who disconnects sessions with sessionsMu held is kept for ever in
\* hub.RemoveSession: neither a worker, while Hub.Run, which empties h.register,
\* may itself be waiting for sessionsMu, nor Node.Shutdown, which visits the
\* sessions when it has stopped Hub.Run.
RemoveSessionReturns == \A j \in Jobs : disconnecting(j) ~> ~disconnecting(j)

=============================================================================
