------------------------------- MODULE Runner -------------------------------
(***************************************************************************)
(* The life of the process (cli/cli.go, cmd/anycable-go/main.go): Run      *)
(* builds the components and starts their goroutines, waits for the first  *)
(* error or the end of the signal handler, and returns. With it, what the  *)
(* components share: the HTTP servers (server/server.go) that metrics,     *)
(* HTTP subscriber (pubsub/http.go) and WebSocket endpoint may have in     *)
(* common, and the fields of node and RPC controller that are still being  *)
(* set while their users already run.                                      *)
(*                                                                         *)
(* What the components do inside is in their own modules; here a started   *)
(* component runs until it fails or is shut down.                          *)
(***************************************************************************)
EXTENDS Naturals, Sequences

CONSTANTS
  Ports, WsPort, None,
  Configs,     \* [metrics : Ports \cup {None}, pubsub : Ports \cup {None}]; None: no HTTP
  MaxSignals   \* bound, per configuration: signals sent to the process

\* Components that may serve HTTP; a server is named after the one that made it.
Servers == {"metrics", "subscriber", "ws"}
Goroutines == Servers \cup {"controller"}

ASSUME RunnerAssumption ==
  /\ WsPort \in Ports /\ None \notin Ports \cup Servers
  /\ Configs \subseteq [metrics : Ports \cup {None}, pubsub : Ports \cup {None}]
  /\ MaxSignals \in [Configs -> Nat]

VARIABLES
  config,
  status,      \* "running", or how the process has ended
  main,        \* where Run is
  pc,          \* per goroutine: where it is
  allServers,  \* per port: the server ForPort knows
  portOf,      \* per server: its port, None until it is made
  server,      \* per component: the server it uses
  started, stopped,  \* servers that have been started, and told to shut down
  listening,   \* servers that accept connections
  closed,      \* servers whose http.Server has been shut down
  writing,     \* the goroutine inside a write of the map allServers, or None
  disconnector,  \* whether n.disconnector is set
  nodeDown,    \* whether Node.Shutdown has been called
  reserved,    \* functions reserved with the signal handler
  exec, step,  \* the function the handler is running (0: none), and its progress
  pending,     \* signals waiting in the handler's channel
  term, termSig,  \* the goroutine waiting for a second signal, and its channel
  signals,     \* signals sent so far
  failed       \* history: what has failed of itself, a goroutine or Run

serverVars == <<allServers, portOf, server, started, stopped, listening, closed, writing>>
nodeVars == <<disconnector, nodeDown>>
signalVars == <<reserved, exec, step, pending, term, termSig, signals>>
vars == <<config, status, main, pc, serverVars, nodeVars, signalVars, failed>>

Init ==
  /\ config \in Configs
  /\ status = "running" /\ main = "metrics"
  /\ pc = [g \in Goroutines |-> "none"]
  /\ allServers = [p \in Ports |-> None]
  /\ portOf = [o \in Servers |-> None] /\ server = portOf
  /\ started = {} /\ stopped = {} /\ listening = {} /\ closed = {}
  /\ writing = None
  /\ disconnector = FALSE /\ nodeDown = FALSE
  /\ reserved = 0 /\ exec = 0 /\ step = "call" /\ pending = 0
  /\ term = "none" /\ termSig = 0 /\ signals = 0
  /\ failed = {}

\* Nothing happens in a process that has ended.
Running == status = "running"

\* What a goroutine does with an error: r.errChan is not buffered.
\* Mutation: an error nobody waits for is dropped.
sendOrDrop == IF main = "wait" THEN "send" ELSE "done"
report == "send"

Goes(g, from, to) == pc[g] = from /\ pc' = [pc EXCEPT ![g] = to]

-----------------------------------------------------------------------------
(* server.ForPort, whose map is not locked: a look-up, the creation and    *)
(* store of a server, and a second look-up. For the run-time system a      *)
(* write of a map that meets another access is fatal, if it is noticed.    *)

wanted(g) == IF g = "ws" THEN WsPort ELSE config.pubsub

\* Where the caller g is inside ForPort; main calls it for the WebSocket server.
at(g) == IF g = "ws" THEN main ELSE pc[g]
Advance(g, to) ==
  IF g = "ws" THEN main' = to /\ UNCHANGED pc ELSE pc' = [pc EXCEPT ![g] = to] /\ UNCHANGED main
InForPort(g) == at(g) \in {"check", "store", "stored", "load"}
other(g) == IF g = "ws" THEN "subscriber" ELSE "ws"

MapAccess(g) ==
  /\ Running
  /\ writing # None => writing = g

ForPortCheck(g) ==
  /\ at(g) = "check" /\ MapAccess(g)
  /\ Advance(g, IF allServers[wanted(g)] = None THEN "store" ELSE "load")
  /\ UNCHANGED <<config, status, allServers, portOf, server, started, stopped, listening,
                 closed, writing, nodeVars, signalVars, failed>>

\* NewServer, then the write of the map begins and ends.
ForPortStore(g) ==
  /\ at(g) = "store" /\ MapAccess(g)
  /\ portOf' = [portOf EXCEPT ![g] = wanted(g)]
  /\ writing' = g
  /\ Advance(g, "stored")
  /\ UNCHANGED <<config, status, allServers, server, started, stopped, listening,
                 closed, nodeVars, signalVars, failed>>

ForPortStored(g) ==
  /\ at(g) = "stored" /\ MapAccess(g)
  /\ allServers' = [allServers EXCEPT ![wanted(g)] = g]
  /\ writing' = None
  /\ Advance(g, "load")
  /\ UNCHANGED <<config, status, portOf, server, started, stopped, listening,
                 closed, nodeVars, signalVars, failed>>

\* Two accesses meet: the process dies, or nothing is noticed and each goes on.
ForPortFatal(g) ==
  /\ Running /\ InForPort(g) /\ writing = other(g)
  /\ status' = "crashed"
  /\ UNCHANGED <<config, main, pc, allServers, portOf, server, started, stopped, listening,
                 closed, writing, nodeVars, signalVars, failed>>

\* The server is known, with its handlers.
ForPortLoad(g) ==
  /\ at(g) = "load" /\ MapAccess(g)
  /\ server' = [server EXCEPT ![g] = allServers[wanted(g)]]
  /\ Advance(g, IF g = "ws" THEN "serve" ELSE "start")
  /\ UNCHANGED <<config, status, allServers, portOf, started, stopped, listening,
                 closed, writing, nodeVars, signalVars, failed>>

\* NewServer cannot load its certificate: Run, or Subscriber.Start, returns the error.
ForPortFail(g) ==
  /\ Running /\ at(g) = "store"
  /\ failed' = failed \cup {g}
  /\ IF g = "ws" THEN status' = "error" /\ UNCHANGED pc
                 ELSE pc' = [pc EXCEPT ![g] = report] /\ UNCHANGED status
  /\ UNCHANGED <<config, main, serverVars, nodeVars, signalVars>>

-----------------------------------------------------------------------------
(* HTTPServer.StartAndAnnounce, for each of the components that serve      *)
(* HTTP, and what its caller does with its error.                          *)

\* Whether the server is running, so that the component's handler is mounted.
\* StartAndAnnounce looks, lets go of the lock, and Start looks again: the
\* second look decides.
\* Mutation: the first look marks the server as started, so the second finds it so.
markedRunning(g) == TRUE
running(g) == server[g] \in started

Start(g) ==
  /\ Running
  /\ Goes(g, "start", IF running(g) THEN "done" ELSE "listen")
  /\ started' = started \cup {server[g]}
  /\ UNCHANGED <<config, status, main, allServers, portOf, server, stopped, listening, closed,
                 writing, nodeVars, signalVars, failed>>

\* The port is taken by another server of this process.
Taken(g) == \E o \in listening : portOf[o] = portOf[server[g]]

\* net.Listen, then Serve, which returns at once if Shutdown was first.
Listen(g) ==
  /\ Running
  /\ Goes(g, "listen", "serving") /\ ~Taken(g)
  /\ listening' = IF server[g] \in closed THEN listening ELSE listening \cup {server[g]}
  /\ UNCHANGED <<config, status, main, allServers, portOf, server, started, stopped, closed,
                 writing, nodeVars, signalVars, failed>>

ListenFails(g) ==
  /\ Running
  /\ Goes(g, "listen", "ended")
  /\ failed' = IF Taken(g) THEN failed ELSE failed \cup {g}
  /\ UNCHANGED <<config, status, main, serverVars, nodeVars, signalVars>>

\* Serve returns because the server was shut down, or because it fails.
ServeClosed(g) ==
  /\ Running /\ server[g] \in closed
  /\ Goes(g, "serving", "ended")
  /\ UNCHANGED <<config, status, main, serverVars, nodeVars, signalVars, failed>>

ServeFails(g) ==
  /\ Running /\ server[g] \notin closed
  /\ Goes(g, "serving", "ended")
  /\ listening' = listening \ {server[g]} /\ failed' = failed \cup {g}
  /\ UNCHANGED <<config, status, main, allServers, portOf, server, started, stopped, closed,
                 writing, nodeVars, signalVars>>

\* The caller of StartAndAnnounce asks Stopped before it reports the error.
Ended(g) ==
  /\ Running
  /\ Goes(g, "ended", IF server[g] \in stopped THEN "done" ELSE report)
  /\ UNCHANGED <<config, status, main, serverVars, nodeVars, signalVars, failed>>

HttpGoroutine(g) ==
  \/ Start(g) \/ Listen(g) \/ ListenFails(g) \/ ServeClosed(g) \/ Ended(g)

-----------------------------------------------------------------------------
(* The other goroutines. *)

\* The Redis subscriber runs until it gives up.
SubscriberFails ==
  /\ Running /\ Goes("subscriber", "redis", report)
  /\ failed' = failed \cup {"subscriber"}
  /\ UNCHANGED <<config, status, main, serverVars, nodeVars, signalVars>>

\* Controller.Start: after the dial the semaphore is made, then client and
\* clientState are set; after a failed dial they are nil, and the error is returned.
ControllerStart ==
  /\ Running
  /\ \/ Goes("controller", "dial", "sem") /\ UNCHANGED failed
     \/ Goes("controller", "sem", "ready") /\ UNCHANGED failed
     \/ Goes("controller", "dial", report) /\ failed' = failed \cup {"controller"}
  /\ UNCHANGED <<config, status, main, serverVars, nodeVars, signalVars>>

\* A round of collectStats, which Node.Start has started, asks the
\* disconnector for its size.
CollectStats ==
  /\ Running /\ main \notin {"metrics", "node"}
  /\ status' = IF disconnector THEN status ELSE "crashed"
  /\ UNCHANGED <<config, main, pc, serverVars, nodeVars, signalVars, failed>>

\* A WebSocket connection is accepted and authenticated. Before initSemaphore
\* its goroutine waits for ever, on a nil channel; a nil clientState is a panic.
Connect ==
  /\ Running /\ pc["ws"] # "none" /\ server["ws"] \in listening
  /\ status' = IF pc["controller"] \in {"dial", "ready"} THEN status ELSE "crashed"
  /\ UNCHANGED <<config, main, pc, serverVars, nodeVars, signalVars, failed>>

-----------------------------------------------------------------------------
(* Runner.Run. *)

\* initMetrics, initSubscriber: a configuration that cannot be used.
InitFails ==
  /\ Running /\ main \in {"metrics", "subscriber"}
  /\ status' = "error" /\ failed' = failed \cup {"main"}
  /\ UNCHANGED <<config, main, pc, serverVars, nodeVars, signalVars>>

\* FromConfig, which calls ForPort while nothing else runs.
InitMetrics ==
  /\ Running /\ main = "metrics" /\ main' = "node"
  /\ IF config.metrics = None THEN UNCHANGED <<allServers, portOf, server>>
     ELSE /\ allServers' = [allServers EXCEPT ![config.metrics] = "metrics"]
          /\ portOf' = [portOf EXCEPT !["metrics"] = config.metrics]
          /\ server' = [server EXCEPT !["metrics"] = "metrics"]
  /\ UNCHANGED <<config, status, pc, started, stopped, listening, closed, writing,
                 nodeVars, signalVars, failed>>

\* NewNode and Node.Start, then the disconnector is made and set.
StartNode ==
  /\ Running /\ main = "node" /\ main' = "disconnector"
  /\ UNCHANGED <<config, status, pc, serverVars, nodeVars, signalVars, failed>>

SetDisconnector ==
  /\ Running /\ main = "disconnector" /\ main' = "subscriber"
  /\ disconnector' = TRUE
  /\ UNCHANGED <<config, status, pc, serverVars, nodeDown, signalVars, failed>>

\* The go statements, with what Run does up to the next of them: the handlers
\* are mounted before the WebSocket server is started.
Spawn ==
  /\ Running
  /\ \/ /\ main = "subscriber" /\ main' = "controller"
        /\ Goes("subscriber", "none", IF config.pubsub = None THEN "redis" ELSE "check")
     \/ main = "controller" /\ main' = "check" /\ Goes("controller", "none", "dial")
     \/ main = "serve" /\ main' = "metricsRun" /\ Goes("ws", "none", "start")
     \/ /\ main = "metricsRun" /\ main' = "signals"
        /\ Goes("metrics", "none", IF server["metrics"] = None THEN "done" ELSE "start")
  /\ UNCHANGED <<config, status, serverVars, nodeVars, signalVars, failed>>

\* setupSignalHandlers: tebata.New, then one Reserve per function. Reserve
\* waits while the handler runs.
\* Mutation: the node comes first.
NodeFirst == <<"announce", "node", "metrics", "subscriber", "ws", "finish">>
Functions == <<"announce", "metrics", "subscriber", "ws", "node", "finish">>

Reserve ==
  /\ Running
  /\ \/ main = "signals" /\ main' = "reserve" /\ UNCHANGED reserved
     \/ /\ main = "reserve" /\ exec = 0
        /\ reserved' = reserved + 1
        /\ main' = IF reserved' = Len(Functions) THEN "wait" ELSE "reserve"
  /\ UNCHANGED <<config, status, pc, serverVars, nodeVars, exec, step, pending, term,
                 termSig, signals, failed>>

\* A goroutine's error meets the receive at the end of Run.
ErrorReceived(g) ==
  /\ Running /\ main = "wait" /\ pc[g] = "send"
  /\ status' = "error"
  /\ UNCHANGED <<config, main, pc, serverVars, nodeVars, signalVars, failed>>

Main == InitMetrics \/ StartNode \/ SetDisconnector \/ Spawn \/ Reserve

-----------------------------------------------------------------------------
(* Signals, from the time they are handled: they are put in channels of    *)
(* one place, the second one only when it is notified.                     *)

Signal ==
  /\ Running /\ signals < MaxSignals[config]
  /\ main \in {"reserve", "wait"}
  /\ signals' = signals + 1
  /\ pending' = 1 /\ termSig' = IF term = "waiting" THEN 1 ELSE termSig
  /\ UNCHANGED <<config, status, main, pc, serverVars, nodeVars, reserved, exec, step, term, failed>>

HandlerStart ==
  /\ Running /\ exec = 0 /\ pending = 1
  /\ pending' = 0 /\ exec' = IF reserved = 0 THEN 0 ELSE 1
  /\ UNCHANGED <<config, status, main, pc, serverVars, nodeVars, reserved, step, term,
                 termSig, signals, failed>>

Executing(f) == Running /\ exec > 0 /\ Functions[exec] = f

\* Mutation: the end of the list is not noticed.
endless == exec + 1
following == IF exec = reserved THEN 0 ELSE exec + 1

Return == exec' = following /\ step' = "call"

HandlerAnnounce ==
  /\ Executing("announce") /\ Return
  /\ term' = IF term = "none" THEN "started" ELSE term
  /\ UNCHANGED <<config, status, main, pc, serverVars, nodeVars, reserved, pending,
                 termSig, signals, failed>>

\* HTTPServer.Shutdown, if the component has a server by now: its flag is
\* set, then the http.Server is closed.
\* Mutation: the flag is forgotten.
noFlag(o) == stopped
flagSet(o) == stopped \cup {o}

ShutdownServer(c) ==
  /\ Executing(c) /\ step = "call"
  /\ IF server[c] \in stopped \cup {None} THEN Return /\ UNCHANGED stopped
     ELSE stopped' = flagSet(server[c]) /\ step' = "close" /\ UNCHANGED exec
  /\ UNCHANGED <<config, status, main, pc, allServers, portOf, server, started, listening, closed,
                 writing, nodeVars, reserved, pending, term, termSig, signals, failed>>

ShutdownClose(c) ==
  /\ Executing(c) /\ step = "close" /\ step' = "drain"
  /\ closed' = closed \cup {server[c]} /\ listening' = listening \ {server[c]}
  /\ UNCHANGED <<config, status, main, pc, allServers, portOf, server, started, stopped, writing, nodeVars, reserved, exec, pending, term, termSig, signals, failed>>

\* http.Server.Shutdown waits for the requests in flight, without a deadline.
ShutdownDrained(c) ==
  /\ Executing(c) /\ step = "drain"
  /\ Return
  /\ UNCHANGED <<config, status, main, pc, serverVars, nodeVars, reserved, pending, term,
                 termSig, signals, failed>>

\* Node.Shutdown, whose hub, disconnect queue and controller have modules of
\* their own; a second call returns at once.
NodeShutdown ==
  /\ Executing("node") /\ Return
  /\ nodeDown' = TRUE
  /\ UNCHANGED <<config, status, main, pc, serverVars, disconnector, reserved, pending, term,
                 termSig, signals, failed>>

\* Run receives nil from the handler, or from the goroutine of the second signal.
NilReceived ==
  /\ Running /\ main = "wait"
  /\ Executing("finish") \/ term = "send"
  /\ status' = "ok"
  /\ UNCHANGED <<config, main, pc, serverVars, nodeVars, signalVars, failed>>

\* It sends nil to errChan, like the last function of the handler.
termSpeaks == "send"

TermStep ==
  /\ Running
  /\ \/ term = "started" /\ term' = "waiting"
     \/ term = "waiting" /\ termSig = 1 /\ term' = termSpeaks
  /\ UNCHANGED <<config, status, main, pc, serverVars, nodeVars, reserved, exec, step,
                 pending, termSig, signals, failed>>

Handler ==
  \/ HandlerStart \/ HandlerAnnounce
  \/ \E c \in Servers : ShutdownServer(c) \/ ShutdownClose(c)
  \/ NodeShutdown

-----------------------------------------------------------------------------
ForPort(g) ==
  ForPortCheck(g) \/ ForPortStore(g) \/ ForPortStored(g) \/ ForPortLoad(g)

Next ==
  \/ Main \/ InitFails \/ Handler \/ NilReceived \/ TermStep \/ Signal
  \/ \E g \in {"subscriber", "ws"} : ForPort(g) \/ ForPortFail(g) \/ ForPortFatal(g)
  \/ \E g \in Servers : HttpGoroutine(g) \/ ServeFails(g) \/ ShutdownDrained(g)
  \/ \E g \in Goroutines : ErrorReceived(g)
  \/ SubscriberFails \/ ControllerStart \/ CollectStats \/ Connect

Spec == Init /\ [][Next]_vars

\* Some goroutine that can go on does: less than fairness to each, and enough,
\* for none of them can go on for ever by itself. Nothing obliges a component
\* to fail, a client to connect, a request to end or a signal to be sent.
Internal ==
  \/ Main \/ Handler \/ NilReceived \/ TermStep
  \/ \E g \in {"subscriber", "ws"} : ForPort(g)
  \/ \E g \in Servers : HttpGoroutine(g)
  \/ \E g \in Goroutines : ErrorReceived(g)

Fairness == WF_vars(Internal)

FairSpec == Spec /\ Fairness

-----------------------------------------------------------------------------
(* Properties. *)

\* The process, its goroutines and its servers are in states they can have.
TypeOK ==
  /\ config \in Configs
  /\ status \in {"running", "ok", "error", "crashed"}
  /\ main \in {"metrics", "node", "disconnector", "subscriber", "controller", "check", "store",
               "stored", "load", "serve", "metricsRun", "signals", "reserve", "wait"}
  /\ pc \in [Goroutines -> {"none", "redis", "check", "store", "stored", "load",
                            "start", "listen", "serving", "ended", "done", "send", "dial",
                            "sem", "ready"}]
  /\ allServers \in [Ports -> Servers \cup {None}]
  /\ portOf \in [Servers -> Ports \cup {None}] /\ server \in [Servers -> Servers \cup {None}]
  /\ started \subseteq Servers /\ stopped \subseteq Servers /\ listening \subseteq started
  /\ closed \subseteq Servers
  /\ writing \in {None, "subscriber", "ws"}
  /\ {disconnector, nodeDown} \subseteq BOOLEAN /\ failed \subseteq Goroutines \cup {"main"}
  /\ reserved \in 0..Len(Functions) /\ exec \in 0..reserved
  /\ step \in {"call", "close", "drain"} /\ {pending, termSig} \subseteq {0, 1}
  /\ term \in {"none", "started", "waiting", "send", "done"} /\ signals \in 0..MaxSignals[config]

\* "ForPort creates new or returns the existing server for the specified port",
\* which "could be the same port as the main HTTP server listens to".
OneServerPerPort ==
  \A o1, o2 \in Servers : o1 # o2 /\ portOf[o1] # None => portOf[o1] # portOf[o2]

\* The process reports an error only if some component failed of itself: a
\* shutdown in whatever state the servers are, or components that share a
\* server, never look like a failure (unless ForPort made two servers).
NoFalseAlarm == status = "error" => failed # {} \/ ~OneServerPerPort

\* The node is shut down after the servers: from then on no connection or
\* scrape can reach it, even through a server that is started late.
NodeStopsLast == nodeDown => {server["ws"], server["metrics"]} \cap listening = {}

\* Unless something fails or a signal comes, every server a component uses is
\* listened to, whoever of those that share it gets there first.
ServersComeUp ==
  (main = "wait") ~> \/ \A c \in Servers : server[c] # None => server[c] \in listening
                     \/ failed # {} \/ signals > 0 \/ status # "running"

\* No server is shut down that waits for its requests for ever.
RequestsEnd == []<>(step # "drain")

\* What has failed and would report it: nothing is reported of a server that was
\* told to stop before its component looked.
Unreported == {g \in failed : g \in Servers => server[g] \notin stopped}

\* If requests in flight end, a component that fails ends the process, also one
\* that fails before Run waits for errors, while an early signal keeps Run from
\* it, or during the shutdown of the others.
FailureEndsProcess ==
  RequestsEnd => (Unreported # {} ~> (status # "running" \/ Unreported = {}))


=============================================================================
