---------------------------- MODULE RunnerProofs ----------------------------
(* Theorems about the life of the process, for any ports, configurations   *)
(* and numbers of signals.                                                 *)
EXTENDS Runner, TLAPS

\* Where Run is before it knows the server of the WebSocket endpoint.
BeforeServe == {"metrics", "node", "disconnector", "subscriber", "controller", "check", "store",
                "stored", "load"}
Booting == BeforeServe \cup {"serve", "metricsRun", "signals"}
InMap == {"check", "store", "stored", "load"}

\* What the flow of main and of the goroutines says of the servers made so far.
FlowInv ==
  /\ main = "metrics" => portOf["metrics"] = None
  /\ main \in BeforeServe \ {"stored", "load"} => portOf["ws"] = None
  /\ pc["subscriber"] \in {"none", "check", "store"} => portOf["subscriber"] = None
  /\ main \in BeforeServe => pc["ws"] = "none"
  /\ main \notin BeforeServe => server["ws"] # None
  /\ main \in Booting \ {"signals"} => pc["metrics"] = "none"
  /\ pc["subscriber"] \in InMap => config.pubsub # None
  /\ pc["subscriber"] \in InMap \cup {"none"} => server["subscriber"] = None

\* What the caller g of ForPort has done already.
Walked(g) ==
  /\ at(g) = "stored" => portOf[g] # None
  /\ at(g) = "load" => allServers[wanted(g)] # None

\* The map and the components refer to servers that were made.
MadeInv ==
  /\ \A p \in Ports : allServers[p] # None => portOf[allServers[p]] # None
  /\ \A g \in Servers : server[g] # None => portOf[server[g]] # None

\* The server of a component is set once, to one that ForPort knows.
ForPortInv == FlowInv /\ Walked("subscriber") /\ Walked("ws") /\ MadeInv

\* Where a goroutine has started a server, until Serve returns.
Serving == {"listen", "serving"}

\* A server is started by one goroutine, and listened to while it serves.
OneServes ==
  \A g, h \in Servers : pc[g] \in Serving /\ pc[h] \in Serving /\ server[g] = server[h] => g = h
Listened == \A o \in listening : \E g \in Servers : pc[g] = "serving" /\ server[g] = o
HttpInv ==
  /\ \A g \in Servers : pc[g] \in {"start", "listen", "serving", "ended"} => server[g] # None
  /\ \A g \in Servers : pc[g] \in Serving => server[g] \in started
  /\ OneServes /\ Listened
  /\ closed \cap listening = {}
  /\ closed \subseteq stopped

\* The server that the signal handler is shutting down.
Closing == IF exec > 0 /\ step = "close" THEN {server[Functions[exec]]} ELSE {}

\* The handler has closed the servers whose functions have returned.
HandlerInv ==
  /\ main \in Booting => reserved = 0 /\ ~nodeDown
  /\ main = "reserve" => reserved < Len(Functions)
  /\ exec = 0 => step = "call"
  /\ step # "call" => Functions[exec] \in Servers /\ server[Functions[exec]] \in stopped
  /\ step = "drain" => server[Functions[exec]] \in closed
  /\ stopped \subseteq closed \cup Closing
  /\ exec > 2 \/ nodeDown => server["metrics"] \in closed \cup {None}
  /\ exec > 4 \/ nodeDown => server["ws"] \in closed

\* A goroutine has an error to report only if something has failed.
AlarmInv ==
  /\ \A g \in Goroutines : pc[g] = "send" => failed # {} \/ ~OneServerPerPort
  /\ \A g \in Servers : pc[g] = "ended" => failed # {} \/ server[g] \in stopped \/ ~OneServerPerPort
  /\ NoFalseAlarm

Places == {"none", "redis", "check", "store", "stored", "load", "start", "listen", "serving",
           "ended", "done", "send", "dial", "sem", "ready"}

FlowOK ==
  /\ config \in Configs
  /\ status \in {"running", "ok", "error", "crashed"}
  /\ main \in Booting \cup {"reserve", "wait"}
  /\ pc \in [Goroutines -> Places]

MapOK ==
  /\ allServers \in [Ports -> Servers \cup {None}]
  /\ portOf \in [Servers -> Ports \cup {None}] /\ server \in [Servers -> Servers \cup {None}]

ServersOK ==
  /\ started \subseteq Servers /\ stopped \subseteq Servers /\ closed \subseteq Servers
  /\ listening \subseteq started
  /\ writing \in {None, "subscriber", "ws"}

FlagsOK ==
  {disconnector, nodeDown} \subseteq BOOLEAN /\ failed \subseteq Goroutines \cup {"main"}

SignalsOK ==
  /\ reserved \in 0..Len(Functions) /\ exec \in 0..reserved
  /\ step \in {"call", "close", "drain"} /\ {pending, termSig} \subseteq {0, 1}
  /\ term \in {"none", "started", "waiting", "send", "done"} /\ signals \in 0..MaxSignals[config]

\* The type invariant of the process, in the parts that its steps change.
LEMMA Types == TypeOK <=> FlowOK /\ MapOK /\ ServersOK /\ FlagsOK /\ SignalsOK
<1>1. FlowOK <=> /\ config \in Configs
                 /\ status \in {"running", "ok", "error", "crashed"}
                 /\ main \in {"metrics", "node", "disconnector", "subscriber", "controller", "check",
                              "store", "stored", "load", "serve", "metricsRun", "signals", "reserve",
                              "wait"}
                 /\ pc \in [Goroutines -> Places]
  BY DEF FlowOK, Booting, BeforeServe
<1>2. QED
  BY <1>1, Zenon DEF TypeOK, MapOK, ServersOK, FlagsOK, SignalsOK, Places

\* The functions of the signal handler, in their order.
LEMMA FunctionList ==
  /\ Len(Functions) = 6
  /\ Functions[1] = "announce" /\ Functions[2] = "metrics" /\ Functions[3] = "subscriber"
  /\ Functions[4] = "ws" /\ Functions[5] = "node" /\ Functions[6] = "finish"
BY DEF Functions

\* The signal handler, the goroutine of the second signal and the signals.
Signalling ==
  \/ Signal \/ HandlerStart \/ HandlerAnnounce \/ NodeShutdown \/ TermStep
  \/ \E c \in Servers : ShutdownServer(c) \/ ShutdownClose(c) \/ ShutdownDrained(c)

\* The steps that end the process, or find that it cannot be ended.
Ending ==
  \/ InitFails \/ NilReceived \/ CollectStats \/ Connect
  \/ \E g \in {"subscriber", "ws"} : ForPortFatal(g)
  \/ \E g \in Goroutines : ErrorReceived(g)

\* A goroutine goes on, without the map of servers.
Working ==
  \/ \E g \in Servers : HttpGoroutine(g) \/ ServeFails(g)
  \/ SubscriberFails \/ ControllerStart

\* ForPort is called by Run and by the HTTP subscriber.
Looking == \E g \in {"subscriber", "ws"} : ForPort(g) \/ ForPortFail(g)

\* The kinds of steps.
LEMMA Kinds ==
  ASSUME [Next]_vars
  PROVE  Main \/ Looking \/ Working \/ Signalling \/ Ending \/ UNCHANGED vars
BY DEF Next, Handler, Signalling, Ending, Working, Looking

\* What the steps of these kinds leave alone.
LEMMA SignallingFrame ==
  ASSUME Signalling
  PROVE  UNCHANGED <<config, status, main, pc, allServers, portOf, server, started, writing,
                     disconnector, failed>>
<1>1. CASE Signal
  BY <1>1 DEF Signal, serverVars, nodeVars
<1>2. CASE HandlerStart
  BY <1>2 DEF HandlerStart, serverVars, nodeVars
<1>3. CASE HandlerAnnounce
  BY <1>3 DEF HandlerAnnounce, serverVars, nodeVars
<1>4. CASE NodeShutdown
  BY <1>4 DEF NodeShutdown, serverVars
<1>5. CASE TermStep
  BY <1>5 DEF TermStep, serverVars, nodeVars
<1>6. ASSUME NEW c \in Servers, ShutdownServer(c)
      PROVE  UNCHANGED <<config, status, main, pc, allServers, portOf, server, started, writing,
                         disconnector, failed>>
  BY <1>6 DEF ShutdownServer, nodeVars
<1>7. ASSUME NEW c \in Servers, ShutdownClose(c)
      PROVE  UNCHANGED <<config, status, main, pc, allServers, portOf, server, started, writing,
                         disconnector, failed>>
  BY <1>7 DEF ShutdownClose, nodeVars
<1>8. ASSUME NEW c \in Servers, ShutdownDrained(c)
      PROVE  UNCHANGED <<config, status, main, pc, allServers, portOf, server, started, writing,
                         disconnector, failed>>
  BY <1>8 DEF ShutdownDrained, serverVars, nodeVars
<1>9. QED
  BY <1>1, <1>2, <1>3, <1>4, <1>5, <1>6, <1>7, <1>8 DEF Signalling

\* A step that ends the process, or finds that it cannot be ended,
\* changes nothing else.
LEMMA EndingFrame ==
  ASSUME Ending
  PROVE  UNCHANGED <<config, main, pc, serverVars, nodeVars, signalVars>>
BY DEF Ending, InitFails, NilReceived, CollectStats, Connect, ForPortFatal, ErrorReceived, serverVars

\* A goroutine moves between places outside ForPort.
LEMMA WorkingFrame ==
  ASSUME Working
  PROVE  /\ UNCHANGED <<config, status, main, allServers, portOf, server, stopped, closed, writing,
                        nodeVars, signalVars>>
         /\ \E g \in Goroutines :
              \E from \in {"start", "listen", "serving", "ended", "redis", "dial", "sem"},
                 to \in {"done", "listen", "serving", "ended", "send", "sem", "ready"} :
                   Goes(g, from, to)
<1>1. ASSUME NEW g \in Servers, HttpGoroutine(g) \/ ServeFails(g)
      PROVE  /\ UNCHANGED <<config, status, main, allServers, portOf, server, stopped, closed, writing,
                            nodeVars, signalVars>>
             /\ \E from \in {"start", "listen", "serving", "ended"},
                   to \in {"done", "listen", "serving", "ended", "send"} : Goes(g, from, to)
  <2>1. CASE Start(g)
    BY <2>1 DEF Start
  <2>2. CASE Listen(g)
    BY <2>2 DEF Listen
  <2>3. CASE ListenFails(g)
    BY <2>3 DEF ListenFails, serverVars
  <2>4. CASE ServeClosed(g)
    BY <2>4 DEF ServeClosed, serverVars
  <2>5. CASE ServeFails(g)
    BY <2>5 DEF ServeFails
  <2>6. CASE Ended(g)
    BY <2>6 DEF Ended, serverVars, report
  <2>7. QED
    BY <1>1, <2>1, <2>2, <2>3, <2>4, <2>5, <2>6 DEF HttpGoroutine
<1>2. CASE SubscriberFails
  BY <1>2 DEF SubscriberFails, serverVars, report, Goroutines, Servers
<1>3. CASE ControllerStart
  BY <1>3 DEF ControllerStart, serverVars, report, Goroutines
<1>4. QED
  BY <1>1, <1>2, <1>3 DEF Working, Goroutines

\* Calls of ForPort concern the map, and the servers it makes and finds.
LEMMA LookingFrame ==
  ASSUME Looking
  PROVE  UNCHANGED <<config, started, stopped, listening, closed, nodeVars, signalVars>>
BY DEF Looking, ForPort, ForPortCheck, ForPortStore, ForPortStored, ForPortLoad, ForPortFail, serverVars

\* Run starts its goroutines, and calls ForPort before anything else runs.
LEMMA MainFrame ==
  ASSUME Main
  PROVE  UNCHANGED <<config, status, started, stopped, listening, closed, writing, nodeDown, exec,
                     step, pending, term, termSig, signals, failed>>
BY DEF Main, InitMetrics, StartNode, SetDisconnector, Spawn, Reserve, serverVars, nodeVars, signalVars

-----------------------------------------------------------------------------
(* Types. *)

\* The places of main and of the goroutines keep their types.
LEMMA FlowStep ==
  ASSUME FlowOK, [Next]_vars
  PROVE  FlowOK'
<1> USE DEF FlowOK, Goroutines, Servers, Places, Booting, BeforeServe
<1>1. CASE Main
  BY <1>1 DEF Main, InitMetrics, StartNode, SetDisconnector, Spawn, Reserve, Goes
<1>2. CASE Looking
  BY <1>2 DEF Looking, ForPort, ForPortCheck, ForPortStore, ForPortStored, ForPortLoad, ForPortFail,
              Advance, report
<1>3. CASE Working
  BY <1>3, WorkingFrame DEF Goes
<1>4. CASE Signalling
  BY <1>4, SignallingFrame
<1>5. CASE Ending
  BY <1>5, EndingFrame DEF Ending, InitFails, NilReceived, CollectStats, Connect, ForPortFatal,
                           ErrorReceived
<1>6. CASE UNCHANGED vars
  BY <1>6 DEF vars
<1>7. QED
  BY <1>1, <1>2, <1>3, <1>4, <1>5, <1>6, Kinds

\* The ports of a configuration.
LEMMA ConfigPorts ==
  ASSUME config \in Configs
  PROVE  config.metrics \in Ports \cup {None} /\ config.pubsub \in Ports \cup {None}
BY RunnerAssumption

\* Who is inside ForPort asks for a port.
LEMMA WantedPort ==
  ASSUME FlowOK, ForPortInv, NEW g \in {"subscriber", "ws"}, at(g) \in InMap
  PROVE  wanted(g) \in Ports
BY RunnerAssumption, ConfigPorts DEF FlowOK, ForPortInv, FlowInv, at, wanted

\* ForPort's map and the servers made keep their types: a port is stored only by a
\* component that has one.
LEMMA MapStep ==
  ASSUME FlowOK, MapOK, ForPortInv, [Next]_vars
  PROVE  MapOK'
<1> USE DEF MapOK
<1>1. CASE Main
  <2>1. config.metrics \in Ports \cup {None}
    BY ConfigPorts DEF FlowOK
  <2>2. QED
    BY <1>1, <2>1 DEF Main, InitMetrics, StartNode, SetDisconnector, Spawn, Reserve, serverVars, Servers
<1>2. ASSUME NEW g \in {"subscriber", "ws"}, ForPort(g) \/ ForPortFail(g) PROVE MapOK'
  <2>1. g \in Servers
    BY DEF Servers
  <2>2. CASE ForPortFail(g) \/ ForPortCheck(g)
    BY <2>2 DEF ForPortFail, ForPortCheck, serverVars
  <2>3. at(g) \in InMap => wanted(g) \in Ports
    BY WantedPort
  <2>4. CASE ForPortStore(g)
    BY <2>1, <2>3, <2>4 DEF ForPortStore, InMap
  <2>5. CASE ForPortStored(g)
    BY <2>1, <2>3, <2>5 DEF ForPortStored, InMap
  <2>6. CASE ForPortLoad(g)
    BY <2>1, <2>3, <2>6 DEF ForPortLoad, InMap
  <2>7. QED
    BY <1>2, <2>2, <2>4, <2>5, <2>6 DEF ForPort
<1>3. CASE Working
  BY <1>3, WorkingFrame
<1>4. CASE Signalling
  BY <1>4, SignallingFrame
<1>5. CASE Ending
  BY <1>5, EndingFrame DEF serverVars
<1>6. CASE UNCHANGED vars
  BY <1>6 DEF vars, serverVars
<1>7. QED
  BY <1>1, <1>2, <1>3, <1>4, <1>5, <1>6, Kinds DEF Looking

\* The sets of servers that were started, listen, stop and are closed keep their types.
LEMMA ServersStep ==
  ASSUME MapOK, ServersOK, HttpInv, HandlerInv, [Next]_vars
  PROVE  ServersOK'
<1> USE DEF ServersOK
<1>1. CASE Main
  BY <1>1, MainFrame
<1>2. CASE Looking
  <2>1. writing' \in {None, "subscriber", "ws"}
    BY <1>2 DEF Looking, ForPort, ForPortCheck, ForPortStore, ForPortStored, ForPortLoad, ForPortFail,
                serverVars
  <2>2. QED
    BY <1>2, <2>1, LookingFrame
<1>3. CASE Working
  <2>1. ASSUME NEW g \in Servers, HttpGoroutine(g) \/ ServeFails(g)
        PROVE  started' \subseteq Servers /\ listening' \subseteq started'
    <3>1. CASE Start(g)
      <4>1. server[g] \in Servers
        BY <3>1 DEF Start, Goes, HttpInv, MapOK
      <4>2. started' = started \cup {server[g]} /\ listening' = listening
        BY <3>1 DEF Start
      <4>3. started \subseteq Servers /\ listening \subseteq started
        BY DEF ServersOK
      <4>4. QED
        BY <4>1, <4>2, <4>3
    <3>2. CASE Listen(g)
      <4>1. server[g] \in started
        BY <3>2 DEF Listen, Goes, HttpInv, Serving
      <4>2. QED
        BY <3>2, <4>1 DEF Listen
    <3>3. CASE ListenFails(g) \/ ServeClosed(g) \/ ServeFails(g) \/ Ended(g)
      BY <3>3 DEF ListenFails, ServeClosed, ServeFails, Ended, serverVars
    <3>4. QED
      BY <2>1, <3>1, <3>2, <3>3 DEF HttpGoroutine
  <2>2. CASE SubscriberFails \/ ControllerStart
    BY <2>2 DEF SubscriberFails, ControllerStart, serverVars
  <2>3. QED
    BY <1>3, <2>1, <2>2, WorkingFrame DEF Working
<1>4. CASE Signalling
  <2>1. ASSUME NEW c \in Servers, ShutdownServer(c) \/ ShutdownClose(c) \/ ShutdownDrained(c)
        PROVE  /\ stopped' \subseteq Servers /\ closed' \subseteq Servers
               /\ listening' \subseteq listening
    <3>1. CASE ShutdownServer(c)
      BY <3>1 DEF ShutdownServer, flagSet, MapOK
    <3>2. CASE ShutdownClose(c)
      <4>1. server[c] \in stopped
        BY <3>2 DEF ShutdownClose, Executing, HandlerInv
      <4>2. QED
        BY <3>2, <4>1 DEF ShutdownClose
    <3>3. CASE ShutdownDrained(c)
      BY <3>3 DEF ShutdownDrained, serverVars
    <3>4. QED
      BY <2>1, <3>1, <3>2, <3>3
  <2>2. CASE Signal \/ HandlerStart \/ HandlerAnnounce \/ NodeShutdown \/ TermStep
    BY <2>2 DEF Signal, HandlerStart, HandlerAnnounce, NodeShutdown, TermStep, serverVars
  <2>3. QED
    BY <1>4, <2>1, <2>2, SignallingFrame DEF Signalling
<1>5. CASE Ending
  BY <1>5, EndingFrame DEF serverVars
<1>6. CASE UNCHANGED vars
  BY <1>6 DEF vars, serverVars
<1>7. QED
  BY <1>1, <1>2, <1>3, <1>4, <1>5, <1>6, Kinds

\* The flags of the disconnector and the node stay Boolean, and what fails is
\* Run or a goroutine.
LEMMA FlagsStep ==
  ASSUME FlagsOK, [Next]_vars
  PROVE  FlagsOK'
<1> USE DEF FlagsOK
<1>1. CASE Main
  <2>1. disconnector' \in {disconnector, TRUE}
    BY <1>1 DEF Main, InitMetrics, StartNode, SetDisconnector, Spawn, Reserve, nodeVars
  <2>2. nodeDown' = nodeDown /\ failed' = failed
    BY <1>1, MainFrame
  <2>3. QED
    BY <2>1, <2>2, Zenon
<1>2. CASE Looking
  <2>1. failed' \subseteq failed \cup Goroutines
    BY <1>2 DEF Looking, ForPort, ForPortCheck, ForPortStore, ForPortStored, ForPortLoad, ForPortFail,
                Goroutines, Servers
  <2>2. disconnector' = disconnector /\ nodeDown' = nodeDown
    BY <1>2, LookingFrame DEF nodeVars
  <2>3. QED
    BY <2>1, <2>2, Zenon
<1>3. CASE Working
  <2>1. failed' \subseteq failed \cup Goroutines
    BY <1>3 DEF Working, HttpGoroutine, Start, Listen, ListenFails, ServeClosed, ServeFails, Ended,
                SubscriberFails, ControllerStart, Goroutines, Servers
  <2>2. disconnector' = disconnector /\ nodeDown' = nodeDown
    BY <1>3, WorkingFrame DEF nodeVars
  <2>3. QED
    BY <2>1, <2>2, Zenon
<1>4. CASE Signalling
  <2>1. nodeDown' \in {nodeDown, TRUE}
    BY <1>4 DEF Signalling, Signal, HandlerStart, HandlerAnnounce, NodeShutdown, TermStep,
                ShutdownServer, ShutdownClose, ShutdownDrained, nodeVars
  <2>2. disconnector' = disconnector /\ failed' = failed
    BY <1>4, SignallingFrame
  <2>3. QED
    BY <2>1, <2>2, Zenon
<1>5. CASE Ending
  <2>1. failed' \subseteq failed \cup {"main"}
    BY <1>5 DEF Ending, InitFails, NilReceived, CollectStats, Connect, ForPortFatal, ErrorReceived
  <2>2. disconnector' = disconnector /\ nodeDown' = nodeDown
    BY <1>5, EndingFrame DEF nodeVars
  <2>3. QED
    BY <2>1, <2>2, Zenon
<1>6. CASE UNCHANGED vars
  BY <1>6 DEF vars, nodeVars
<1>7. QED
  BY <1>1, <1>2, <1>3, <1>4, <1>5, <1>6, Kinds

\* A failure is not forgotten.
LEMMA FailedStays ==
  ASSUME [Next]_vars, failed # {}
  PROVE  failed' # {}
<1>1. CASE Main \/ Signalling \/ UNCHANGED vars
  BY <1>1, MainFrame, SignallingFrame DEF vars
<1>2. CASE Looking
  BY <1>2 DEF Looking, ForPort, ForPortCheck, ForPortStore, ForPortStored, ForPortLoad, ForPortFail
<1>3. CASE Working
  BY <1>3 DEF Working, HttpGoroutine, Start, Listen, ListenFails, ServeClosed, ServeFails, Ended,
              SubscriberFails, ControllerStart
<1>4. CASE Ending
  BY <1>4 DEF Ending, InitFails, NilReceived, CollectStats, Connect, ForPortFatal, ErrorReceived
<1>5. QED
  BY <1>1, <1>2, <1>3, <1>4, Kinds

\* The function that follows is one that has been reserved.
LEMMA Follows ==
  ASSUME SignalsOK, exec > 0
  PROVE  following \in 0..reserved /\ following # exec /\ (following > 0 => following = exec + 1)
BY FunctionList DEF SignalsOK, following

\* The list of shutdown functions and the signals keep their types: the handler
\* never runs past what has been reserved.
LEMMA SignalsStep ==
  ASSUME FlowOK, SignalsOK, HandlerInv, [Next]_vars
  PROVE  SignalsOK'
<1>0. MaxSignals[config] \in Nat /\ Len(Functions) = 6
  BY RunnerAssumption, FunctionList DEF FlowOK
<1>1. CASE Main
  <2>1. reserved' \in 0..Len(Functions) /\ reserved' >= reserved
    <3>1. reserved' = reserved \/ (main = "reserve" /\ reserved' = reserved + 1)
      <4>1. InitMetrics \/ StartNode \/ SetDisconnector \/ Spawn => reserved' = reserved
        BY DEF InitMetrics, StartNode, SetDisconnector, Spawn, signalVars
      <4>2. Reserve => reserved' = reserved \/ (main = "reserve" /\ reserved' = reserved + 1)
        BY DEF Reserve
      <4>3. QED
        BY <1>1, <4>1, <4>2 DEF Main
    <3>2. main = "reserve" => reserved < Len(Functions)
      BY DEF HandlerInv
    <3>3. QED
      BY <1>0, <3>1, <3>2 DEF SignalsOK
  <2>2. QED
    BY <1>0, <1>1, <2>1, MainFrame DEF SignalsOK
<1>2. CASE Looking
  BY <1>2, LookingFrame DEF SignalsOK, signalVars
<1>3. CASE Working
  BY <1>3, WorkingFrame DEF SignalsOK, signalVars
<1>4. CASE Signalling
  <2>1. CASE Signal
    BY <1>0, <2>1 DEF Signal, SignalsOK
  <2>2. CASE HandlerStart
    BY <1>0, <2>2 DEF HandlerStart, SignalsOK
  <2>3. CASE HandlerAnnounce
    BY <1>0, <2>3, Follows DEF HandlerAnnounce, Executing, Return, SignalsOK
  <2>4. CASE NodeShutdown
    BY <1>0, <2>4, Follows DEF NodeShutdown, Executing, Return, SignalsOK
  <2>5. CASE TermStep
    BY <1>0, <2>5 DEF TermStep, SignalsOK, termSpeaks
  <2>6. ASSUME NEW c \in Servers, ShutdownServer(c) PROVE SignalsOK'
    BY <1>0, <2>6, Follows DEF ShutdownServer, Executing, Return, SignalsOK
  <2>7. ASSUME NEW c \in Servers, ShutdownClose(c) PROVE SignalsOK'
    BY <1>0, <2>7 DEF ShutdownClose, SignalsOK
  <2>8. ASSUME NEW c \in Servers, ShutdownDrained(c) PROVE SignalsOK'
    BY <1>0, <2>8, Follows DEF ShutdownDrained, Executing, Return, SignalsOK
  <2>9. QED
    BY <1>4, <2>1, <2>2, <2>3, <2>4, <2>5, <2>6, <2>7, <2>8 DEF Signalling
<1>5. CASE Ending
  BY <1>5, EndingFrame DEF SignalsOK, signalVars
<1>6. CASE UNCHANGED vars
  BY <1>6 DEF vars, SignalsOK, signalVars
<1>7. QED
  BY <1>1, <1>2, <1>3, <1>4, <1>5, <1>6, Kinds

-----------------------------------------------------------------------------
(* ForPort and its servers. *)

\* A step that leaves Run, the map and the servers alone, and moves no
\* goroutine into ForPort or back to where it has not started.
LEMMA ForPortKept ==
  ASSUME ForPortInv, UNCHANGED <<config, main, allServers, portOf, server>>,
         \A g \in Servers : pc'[g] = pc[g]
            \/ (pc[g] # "none" /\ pc'[g] \notin InMap \cup {"none"})
  PROVE  ForPortInv'
<1>1. \A g \in {"subscriber", "ws"} :
        /\ at(g)' = "stored" => at(g) = "stored"
        /\ at(g)' = "load" => at(g) = "load"
        /\ wanted(g)' = wanted(g)
  BY DEF at, wanted, Servers, InMap
<1>2. \A g \in {"subscriber", "ws"} :
       /\ at(g)' = "stored" => portOf'[g] # None
       /\ at(g)' = "load" => allServers'[wanted(g)'] # None
  BY <1>1 DEF ForPortInv, FlowInv, Walked, MadeInv
<1>3. QED
  BY <1>2 DEF ForPortInv, FlowInv, Walked, MadeInv, Servers, InMap

\* Every step keeps ForPortInv, ForPort's two callers interleaved as they may be.
LEMMA ForPortStep ==
  ASSUME FlowOK, MapOK, ForPortInv, [Next]_vars
  PROVE  ForPortInv'
<1>0. /\ pc \in [Goroutines -> Places] /\ {"subscriber", "ws", "metrics"} \subseteq Goroutines
      /\ None \notin Ports \cup Servers
      /\ allServers \in [Ports -> Servers \cup {None}]
      /\ portOf \in [Servers -> Ports \cup {None}] /\ server \in [Servers -> Servers \cup {None}]
  BY RunnerAssumption DEF FlowOK, MapOK, Goroutines, Servers
<1>1. CASE InitMetrics
  <2>1. CASE config.metrics = None
    <3>1. main = "metrics" /\ main' = "node" /\ UNCHANGED <<config, pc, allServers, portOf, server>>
      BY <1>1, <2>1 DEF InitMetrics
    <3>2. QED
      BY <3>1 DEF ForPortInv, FlowInv, Walked, MadeInv, at, wanted, BeforeServe, Booting
  <2>2. CASE config.metrics # None
    <3>1. /\ main = "metrics" /\ main' = "node" /\ UNCHANGED <<config, pc>>
          /\ allServers' = [allServers EXCEPT ![config.metrics] = "metrics"]
          /\ portOf' = [portOf EXCEPT !["metrics"] = config.metrics]
          /\ server' = [server EXCEPT !["metrics"] = "metrics"]
      BY <1>1, <2>2 DEF InitMetrics
    <3>2. config.metrics \in Ports
      BY <2>2, ConfigPorts DEF FlowOK
    <3>3. /\ portOf'["metrics"] # None /\ portOf'["ws"] = portOf["ws"]
          /\ portOf'["subscriber"] = portOf["subscriber"]
          /\ server'["subscriber"] = server["subscriber"]
      BY <1>0, <2>2, <3>1, <3>2 DEF Servers
    <3>4. \A o \in Servers : portOf[o] # None => portOf'[o] # None
      BY <1>0, <2>2, <3>1 DEF Servers
    <3>5. \A p \in Ports : allServers'[p] # None => portOf'[allServers'[p]] # None
      BY <1>0, <3>1, <3>3, <3>4 DEF ForPortInv, MadeInv
    <3>6. \A g \in Servers : server'[g] # None => portOf'[server'[g]] # None
      BY <1>0, <3>1, <3>3, <3>4 DEF ForPortInv, MadeInv
    <3>7. \A g \in {"subscriber", "ws"} :
            /\ wanted(g)' = wanted(g) /\ at(g)' \in {at(g), "node"}
            /\ allServers[wanted(g)] # None => allServers'[wanted(g)] # None
      BY <1>0, <3>1, <3>2 DEF wanted, at, Servers
    <3>8. \A g \in {"subscriber", "ws"} :
            /\ at(g)' = "stored" => portOf'[g] # None
            /\ at(g)' = "load" => allServers'[wanted(g)'] # None
      BY <3>3, <3>7 DEF ForPortInv, Walked
    <3>9. QED
      BY <3>1, <3>3, <3>5, <3>6, <3>8 DEF ForPortInv, FlowInv, Walked, MadeInv, BeforeServe, Booting
  <2>3. QED
    BY <2>1, <2>2
<1>2. CASE StartNode \/ SetDisconnector \/ Reserve
  <2>1. /\ UNCHANGED <<config, pc, allServers, portOf, server>>
        /\ main \in {"node", "disconnector", "signals", "reserve"}
        /\ main' = CASE main = "node" -> "disconnector" [] main = "disconnector" -> "subscriber"
                     [] main = "signals" -> "reserve" [] main = "reserve" -> main'
        /\ main = "reserve" => main' \in {"reserve", "wait"}
    BY <1>2 DEF StartNode, SetDisconnector, Reserve, serverVars
  <2>2. QED
    BY <2>1 DEF ForPortInv, FlowInv, Walked, MadeInv, at, wanted, BeforeServe, Booting
<1>3. CASE Spawn
  <2>0. UNCHANGED <<config, allServers, portOf, server>>
    BY <1>3 DEF Spawn, serverVars
  <2>1. CASE main = "subscriber"
    <3>1. /\ main' = "controller" /\ pc["subscriber"] = "none"
          /\ pc' = [pc EXCEPT !["subscriber"] = IF config.pubsub = None THEN "redis" ELSE "check"]
      BY <1>3, <2>1 DEF Spawn, Goes
    <3>2. /\ pc'["ws"] = pc["ws"] /\ pc'["metrics"] = pc["metrics"]
          /\ pc'["subscriber"] = IF config.pubsub = None THEN "redis" ELSE "check"
      BY <1>0, <3>1
    <3>3. QED
      <4>1. FlowInv'
        BY <2>0, <2>1, <3>1, <3>2 DEF ForPortInv, FlowInv, BeforeServe, Booting, InMap
      <4>2. Walked("subscriber")' /\ Walked("ws")' /\ MadeInv'
        BY <2>0, <2>1, <3>1, <3>2 DEF ForPortInv, Walked, MadeInv, at, wanted
      <4>3. QED
        BY <4>1, <4>2 DEF ForPortInv
  <2>2. CASE main = "controller"
    <3>1. main' = "check" /\ pc' = [pc EXCEPT !["controller"] = "dial"]
      BY <1>3, <2>2 DEF Spawn, Goes
    <3>2. \A g \in Servers : pc'[g] = pc[g]
      BY <1>0, <3>1 DEF Servers, Goroutines
    <3>3. QED
      BY <2>0, <2>2, <3>1, <3>2 DEF ForPortInv, FlowInv, Walked, MadeInv, at, wanted, BeforeServe, Booting, Servers
  <2>3. CASE main = "serve"
    <3>1. main' = "metricsRun" /\ pc' = [pc EXCEPT !["ws"] = "start"]
      BY <1>3, <2>3 DEF Spawn, Goes
    <3>2. pc'["subscriber"] = pc["subscriber"] /\ pc'["metrics"] = pc["metrics"]
      BY <1>0, <3>1
    <3>3. QED
      BY <2>0, <2>3, <3>1, <3>2 DEF ForPortInv, FlowInv, Walked, MadeInv, at, wanted, BeforeServe, Booting
  <2>4. CASE main = "metricsRun"
    <3>1. main' = "signals" /\ \E p : pc' = [pc EXCEPT !["metrics"] = p]
      BY <1>3, <2>4 DEF Spawn, Goes
    <3>2. pc'["subscriber"] = pc["subscriber"] /\ pc'["ws"] = pc["ws"]
      BY <1>0, <3>1
    <3>3. QED
      BY <2>0, <2>4, <3>1, <3>2 DEF ForPortInv, FlowInv, Walked, MadeInv, at, wanted, BeforeServe, Booting
  <2>5. QED
    BY <1>3, <2>1, <2>2, <2>3, <2>4 DEF Spawn
<1>4. ASSUME NEW g \in {"subscriber", "ws"}, ForPort(g) \/ ForPortFail(g) PROVE ForPortInv'
  <2>0. at(g) \in InMap /\ config' = config /\ wanted(g) \in Ports /\ \A h : wanted(h)' = wanted(h)
    BY <1>4, WantedPort DEF ForPort, ForPortCheck, ForPortStore, ForPortStored, ForPortLoad,
                            ForPortFail, wanted, InMap
  <2>1. ASSUME NEW to, Advance(g, to)
        PROVE  /\ at(g)' = to /\ at(other(g))' = at(other(g)) /\ pc'["metrics"] = pc["metrics"]
               /\ g = "ws" => main' = to /\ pc' = pc
               /\ g = "subscriber" => main' = main /\ pc'["ws"] = pc["ws"] /\ pc'["subscriber"] = to
    BY <1>0, <2>1 DEF Advance, at, other
  <2>2. /\ Walked(g) /\ Walked(other(g)) /\ FlowInv /\ MadeInv
        /\ FlowInv' /\ Walked(g)' /\ Walked(other(g))' /\ MadeInv' => ForPortInv'
    BY DEF ForPortInv, other
  <2>3. /\ g = "ws" => main \in InMap /\ main = at(g)
        /\ g = "subscriber" => pc["subscriber"] \in InMap /\ pc["subscriber"] = at(g)
    BY <2>0 DEF at
  <2>4. CASE ForPortCheck(g)
    <3> DEFINE to == IF allServers[wanted(g)] = None THEN "store" ELSE "load"
    <3>1. UNCHANGED <<allServers, portOf, server>> /\ at(g) = "check" /\ Advance(g, to)
      BY <2>4 DEF ForPortCheck
    <3>2. to \in {"store", "load"} /\ (to = "load" => allServers[wanted(g)] # None)
      OBVIOUS
    <3> HIDE DEF to
    <3>3. /\ at(g)' = to /\ at(other(g))' = at(other(g)) /\ pc'["metrics"] = pc["metrics"]
          /\ g = "ws" => main' = to /\ pc' = pc
          /\ g = "subscriber" => main' = main /\ pc'["ws"] = pc["ws"] /\ pc'["subscriber"] = to
      BY <2>1, <3>1
    <3>4. Walked(g)' /\ Walked(other(g))'
      BY <2>0, <2>2, <3>1, <3>2, <3>3 DEF Walked
    <3>5. FlowInv'
      BY <2>0, <2>2, <2>3, <3>1, <3>2, <3>3 DEF FlowInv, BeforeServe, Booting, InMap
    <3>6. MadeInv'
      BY <2>2, <3>1 DEF MadeInv
    <3>7. QED
      BY <2>2, <3>4, <3>5, <3>6
  <2>5. CASE ForPortStore(g)
    <3>1. /\ UNCHANGED <<allServers, server>> /\ at(g) = "store" /\ Advance(g, "stored")
          /\ portOf' = [portOf EXCEPT ![g] = wanted(g)]
      BY <2>5 DEF ForPortStore
    <3>2. portOf'[g] # None /\ \A o \in Servers : o # g => portOf'[o] = portOf[o]
      BY <1>0, <2>0, <3>1 DEF Servers
    <3>3. /\ at(g)' = "stored" /\ at(other(g))' = at(other(g)) /\ pc'["metrics"] = pc["metrics"]
          /\ g = "ws" => main' = "stored" /\ pc' = pc
          /\ g = "subscriber" => main' = main /\ pc'["ws"] = pc["ws"] /\ pc'["subscriber"] = "stored"
      BY <2>1, <3>1
    <3>4. other(g) # g /\ other(g) \in Servers
      BY DEF other, Servers
    <3>5. Walked(g)' /\ Walked(other(g))'
      BY <2>0, <2>2, <3>1, <3>2, <3>3, <3>4 DEF Walked
    <3>6. FlowInv'
      <4>1. /\ portOf'["metrics"] = portOf["metrics"]
            /\ g = "ws" => portOf'["subscriber"] = portOf["subscriber"]
            /\ g = "subscriber" => portOf'["ws"] = portOf["ws"]
        BY <3>2 DEF Servers
      <4>2. QED
        BY <2>0, <2>2, <2>3, <3>1, <3>3, <4>1 DEF FlowInv, BeforeServe, Booting, InMap
    <3>7. MadeInv'
      BY <1>0, <2>2, <3>1, <3>2 DEF MadeInv
    <3>8. QED
      BY <2>2, <3>5, <3>6, <3>7
  <2>6. CASE ForPortStored(g)
    <3>1. /\ UNCHANGED <<portOf, server>> /\ at(g) = "stored" /\ Advance(g, "load")
          /\ allServers' = [allServers EXCEPT ![wanted(g)] = g]
      BY <2>6 DEF ForPortStored
    <3>2. g \in Servers /\ g # None /\ portOf[g] # None
      BY <1>0, <2>2, <3>1 DEF Walked, Servers
    <3>3. /\ allServers'[wanted(g)] = g
          /\ \A p \in Ports : allServers'[p] \in {allServers[p], g}
      BY <1>0, <2>0, <3>1
    <3>4. at(other(g)) = "load" => wanted(other(g)) \in Ports
      BY WantedPort DEF other, InMap
    <3>5. /\ at(g)' = "load" /\ at(other(g))' = at(other(g)) /\ pc'["metrics"] = pc["metrics"]
          /\ g = "ws" => main' = "load" /\ pc' = pc
          /\ g = "subscriber" => main' = main /\ pc'["ws"] = pc["ws"] /\ pc'["subscriber"] = "load"
      BY <2>1, <3>1
    <3>6. Walked(g)'
      BY <2>0, <3>2, <3>3, <3>5 DEF Walked
    <3>7. Walked(other(g))'
      BY <2>0, <2>2, <3>1, <3>2, <3>3, <3>4, <3>5 DEF Walked
    <3>8. FlowInv'
      BY <2>0, <2>2, <2>3, <3>1, <3>5 DEF FlowInv, BeforeServe, Booting, InMap
    <3>9. MadeInv'
      BY <2>2, <3>1, <3>2, <3>3 DEF MadeInv
    <3>10. QED
      BY <2>2, <3>6, <3>7, <3>8, <3>9
  <2>7. CASE ForPortLoad(g)
    <3> DEFINE to == IF g = "ws" THEN "serve" ELSE "start"
    <3>1. /\ UNCHANGED <<allServers, portOf>> /\ at(g) = "load" /\ Advance(g, to)
          /\ server' = [server EXCEPT ![g] = allServers[wanted(g)]]
      BY <2>7 DEF ForPortLoad
    <3>2. /\ server'[g] = allServers[wanted(g)] /\ server'[g] # None
          /\ \A o \in Servers : o # g => server'[o] = server[o]
      BY <1>0, <2>0, <2>2, <3>1 DEF Walked, Servers
    <3>3. (g = "ws" => to = "serve") /\ (g = "subscriber" => to = "start") /\ to \notin {"stored", "load"}
      OBVIOUS
    <3> HIDE DEF to
    <3>4. /\ at(g)' = to /\ at(other(g))' = at(other(g)) /\ pc'["metrics"] = pc["metrics"]
          /\ g = "ws" => main' = to /\ pc' = pc
          /\ g = "subscriber" => main' = main /\ pc'["ws"] = pc["ws"] /\ pc'["subscriber"] = to
      BY <2>1, <3>1
    <3>5. Walked(g)' /\ Walked(other(g))'
      BY <2>0, <2>2, <3>1, <3>3, <3>4 DEF Walked
    <3>6. MadeInv'
      BY <2>0, <2>2, <3>1, <3>2 DEF MadeInv
    <3>7. CASE g = "ws"
      <4>1. main = "load" /\ main' = "serve" /\ pc' = pc /\ portOf' = portOf /\ config' = config
        BY <2>0, <2>3, <3>1, <3>3, <3>4, <3>7
      <4>2. server'["ws"] # None /\ server'["subscriber"] = server["subscriber"]
        BY <3>2, <3>7 DEF Servers
      <4>3. FlowInv'
        BY <2>2, <4>1, <4>2 DEF FlowInv, BeforeServe, Booting, InMap
      <4>4. QED
        BY <2>2, <3>5, <3>6, <4>3
    <3>8. CASE g = "subscriber"
      <4>1. /\ main' = main /\ pc'["ws"] = pc["ws"] /\ pc'["metrics"] = pc["metrics"]
            /\ pc'["subscriber"] = "start" /\ portOf' = portOf /\ config' = config
        BY <2>0, <3>1, <3>3, <3>4, <3>8
      <4>2. server'["ws"] = server["ws"]
        BY <3>2, <3>8 DEF Servers
      <4>3. FlowInv'
        BY <2>2, <4>1, <4>2 DEF FlowInv, BeforeServe, Booting, InMap
      <4>4. QED
        BY <2>2, <3>5, <3>6, <4>3
    <3>9. QED
      BY <3>7, <3>8
  <2>8. CASE ForPortFail(g)
    <3>1. /\ UNCHANGED <<main, allServers, portOf, server>> /\ at(g) = "store"
          /\ pc' = IF g = "ws" THEN pc ELSE [pc EXCEPT ![g] = "send"]
      BY <2>8 DEF ForPortFail, serverVars, report
    <3>2. \A h \in Servers : pc'[h] = pc[h] \/ (pc[h] # "none" /\ pc'[h] \notin InMap \cup {"none"})
      BY <1>0, <3>1 DEF at, InMap, Servers, Goroutines
    <3>3. QED
      BY <2>0, <3>1, <3>2, ForPortKept
  <2>9. QED
    BY <1>4, <2>4, <2>5, <2>6, <2>7, <2>8 DEF ForPort
<1>5. CASE Working
  <2>1. \A h \in Servers : pc'[h] = pc[h] \/ (pc[h] # "none" /\ pc'[h] \notin InMap \cup {"none"})
    BY <1>0, <1>5, WorkingFrame DEF Goes, InMap, Goroutines
  <2>2. QED
    BY <1>5, <2>1, WorkingFrame, ForPortKept
<1>6. CASE Signalling \/ Ending \/ UNCHANGED vars
  <2>1. UNCHANGED <<config, main, pc, allServers, portOf, server>>
    BY <1>6, SignallingFrame, EndingFrame DEF serverVars, vars
  <2>2. QED
    BY <2>1, ForPortKept
<1>7. QED
  BY <1>1, <1>2, <1>3, <1>4, <1>5, <1>6, Kinds DEF Main, Looking

-----------------------------------------------------------------------------
(* The servers. *)

\* A step that starts and stops no server, and moves no goroutine to where it
\* serves.
LEMMA HttpKept ==
  ASSUME HttpInv, UNCHANGED <<started, listening, closed, stopped>>,
         \A g \in Servers :
           \/ pc'[g] = pc[g] /\ server'[g] = server[g]
           \/ /\ pc[g] \notin {"listen", "serving"}
              /\ pc'[g] \notin {"listen", "serving"}
              /\ pc'[g] \in {"start", "ended"} => server'[g] # None
  PROVE  HttpInv'
<1>0. OneServes /\ Listened
  BY DEF HttpInv
<1>1. \A g \in Servers : pc'[g] \in {"listen", "serving"} => pc'[g] = pc[g] /\ server'[g] = server[g]
  OBVIOUS
<1>2. \A g \in Servers : pc[g] = "serving" => pc'[g] = pc[g] /\ server'[g] = server[g]
  OBVIOUS
<1>3. \A g \in Servers : pc'[g] \in {"start", "listen", "serving", "ended"} => server'[g] # None
  BY DEF HttpInv
<1>4. \A g \in Servers : pc'[g] \in Serving => server'[g] \in started'
  BY <1>1 DEF HttpInv, Serving
<1>5. OneServes'
  <2>1. \A g \in Servers : pc'[g] \in Serving => pc[g] \in Serving /\ server'[g] = server[g]
    BY <1>1 DEF Serving
  <2>2. QED
    BY <1>0, <2>1 DEF OneServes
<1>6. Listened'
  BY <1>0, <1>2 DEF Listened
<1>7. QED
  BY <1>3, <1>4, <1>5, <1>6 DEF HttpInv

\* Start is the only way to a server, and finds it started by nobody else.
LEMMA HttpStep ==
  ASSUME FlowOK, MapOK, ServersOK, ForPortInv, HttpInv, HandlerInv, [Next]_vars
  PROVE  HttpInv'
<1>0. /\ pc \in [Goroutines -> Places] /\ Servers \subseteq Goroutines
      /\ server \in [Servers -> Servers \cup {None}] /\ OneServes /\ Listened
  BY DEF FlowOK, MapOK, Goroutines, HttpInv
<1>1. CASE Main
  <2>1. UNCHANGED <<started, listening, closed, stopped>>
    BY <1>1, MainFrame
  <2>2. CASE InitMetrics
    <3>1. /\ pc' = pc /\ main = "metrics"
          /\ server' = server \/ server' = [server EXCEPT !["metrics"] = "metrics"]
      BY <2>2 DEF InitMetrics
    <3>2. pc["metrics"] = "none"
      BY <3>1 DEF ForPortInv, FlowInv, Booting, BeforeServe
    <3>3. QED
      BY <1>0, <2>1, <3>1, <3>2, HttpKept
  <2>3. CASE StartNode \/ SetDisconnector \/ Reserve
    <3>1. UNCHANGED <<pc, server>>
      BY <2>3 DEF StartNode, SetDisconnector, Reserve, serverVars
    <3>2. QED
      BY <2>1, <3>1, HttpKept
  <2>4. CASE Spawn
    <3>1. server' = server /\ \E g \in Goroutines :
            /\ pc[g] = "none" /\ \E p \in Places \ {"listen", "serving", "ended"} :
                                   /\ pc' = [pc EXCEPT ![g] = p]
                                   /\ p = "start" => g \in Servers /\ server[g] # None
      <4>1. server' = server /\ (main \notin BeforeServe => server["ws"] # None)
        BY <2>4 DEF Spawn, serverVars, ForPortInv, FlowInv
      <4>2. /\ main = "subscriber" => \E p \in {"redis", "check"} : Goes("subscriber", "none", p)
            /\ main = "controller" => Goes("controller", "none", "dial")
            /\ main = "serve" => Goes("ws", "none", "start")
            /\ main = "metricsRun" => \E p \in {"start", "done"} :
                                        /\ Goes("metrics", "none", p)
                                        /\ p = "start" => server["metrics"] # None
            /\ main \in {"subscriber", "controller", "serve", "metricsRun"}
        BY <2>4 DEF Spawn
      <4>3. CASE main \in {"subscriber", "controller"}
        BY <4>1, <4>2, <4>3 DEF Goes, Goroutines, Servers, Places
      <4>4. CASE main = "serve"
        BY <4>1, <4>2, <4>4 DEF Goes, Goroutines, Servers, Places, BeforeServe
      <4>5. CASE main = "metricsRun"
        BY <4>1, <4>2, <4>5 DEF Goes, Goroutines, Servers, Places
      <4>6. QED
        BY <4>2, <4>3, <4>4, <4>5
    <3>2. QED
      BY <1>0, <2>1, <3>1, HttpKept
  <2>5. QED
    BY <1>1, <2>2, <2>3, <2>4 DEF Main
<1>2. ASSUME NEW g \in {"subscriber", "ws"}, ForPort(g) \/ ForPortFail(g) PROVE HttpInv'
  <2>1. UNCHANGED <<started, listening, closed, stopped>>
    BY <1>2, LookingFrame DEF Looking
  <2>2. at(g) \in InMap /\ pc[g] \in InMap \cup {"none"} /\ g \in Servers
    BY <1>2 DEF ForPort, ForPortCheck, ForPortStore, ForPortStored, ForPortLoad, ForPortFail, at,
                InMap, ForPortInv, FlowInv, BeforeServe, Servers
  <2>3. CASE ForPortLoad(g)
    <3>1. /\ server' = [server EXCEPT ![g] = allServers[wanted(g)]]
          /\ pc' = pc \/ pc' = [pc EXCEPT ![g] = "start"]
          /\ allServers[wanted(g)] # None
      BY <2>3 DEF ForPortLoad, Advance, ForPortInv, Walked
    <3>2. QED
      BY <1>0, <2>1, <2>2, <3>1, HttpKept DEF InMap
  <2>4. CASE ~ForPortLoad(g)
    <3>1. server' = server /\ \E p \in {"store", "stored", "load", "send"} :
            pc' = pc \/ pc' = [pc EXCEPT ![g] = p]
      BY <1>2, <2>4 DEF ForPort, ForPortCheck, ForPortStore, ForPortStored, ForPortFail, serverVars,
                        Advance, report
    <3>2. QED
      BY <1>0, <2>1, <2>2, <3>1, HttpKept DEF InMap
  <2>5. QED
    BY <2>3, <2>4
<1>3. ASSUME NEW g \in Servers, Start(g) PROVE HttpInv'
  <2>1. /\ pc[g] = "start" /\ server' = server /\ UNCHANGED <<listening, closed, stopped>>
        /\ pc' = [pc EXCEPT ![g] = IF server[g] \in started THEN "done" ELSE "listen"]
        /\ started' = started \cup {server[g]}
    BY <1>3 DEF Start, Goes, running
  <2>2. /\ pc'[g] \in {"done", "listen"} /\ (pc'[g] = "listen" => server[g] \notin started)
        /\ \A h \in Servers : h # g => pc'[h] = pc[h]
    BY <1>0, <2>1
  <2>3. \A h \in Servers : pc'[h] \in Serving => server'[h] \in started'
    BY <2>1, <2>2 DEF HttpInv
  <2>4. OneServes'
    <3>1. \A h \in Servers : h # g /\ pc'[h] \in Serving => pc[h] \in Serving /\ server[h] \in started
      BY <2>2 DEF HttpInv
    <3>2. pc'[g] \in Serving => server[g] \notin started
      BY <2>2 DEF Serving
    <3>3. QED
      BY <1>0, <2>1, <3>1, <3>2 DEF OneServes
  <2>5. Listened'
    <3>1. \A h \in Servers : pc[h] = "serving" => pc'[h] = "serving" /\ server'[h] = server[h]
      BY <2>1, <2>2
    <3>2. QED
      BY <1>0, <2>1, <3>1 DEF Listened
  <2>6. QED
    BY <2>1, <2>2, <2>3, <2>4, <2>5 DEF HttpInv
<1>4. ASSUME NEW g \in Servers, Listen(g) PROVE HttpInv'
  <2>1. /\ pc[g] = "listen" /\ UNCHANGED <<server, started, closed, stopped>>
        /\ pc' = [pc EXCEPT ![g] = "serving"]
        /\ listening' = IF server[g] \in closed THEN listening ELSE listening \cup {server[g]}
    BY <1>4 DEF Listen, Goes
  <2>2. pc'[g] = "serving" /\ \A h \in Servers : h # g => pc'[h] = pc[h]
    BY <1>0, <2>1
  <2>3. Listened'
    <3>1. \A h \in Servers : pc[h] = "serving" => pc'[h] = "serving"
      BY <2>2
    <3>2. \A o \in listening : \E h \in Servers : pc'[h] = "serving" /\ server'[h] = o
      BY <1>0, <2>1, <3>1 DEF Listened
    <3>3. listening' \subseteq listening \cup {server[g]}
      BY <2>1
    <3>4. QED
      BY <2>1, <2>2, <3>2, <3>3 DEF Listened
  <2>4. \A h \in Servers : pc'[h] \in Serving => pc[h] \in Serving
    BY <2>1, <2>2 DEF Serving
  <2>5. OneServes'
    BY <1>0, <2>1, <2>4 DEF OneServes
  <2>6. \A h \in Servers : pc'[h] \in {"start", "listen", "serving", "ended"} => server'[h] # None
    BY <2>1, <2>2 DEF HttpInv
  <2>7. QED
    BY <2>1, <2>3, <2>4, <2>5, <2>6 DEF HttpInv
<1>5. ASSUME NEW g \in Servers, ListenFails(g) \/ ServeClosed(g) \/ ServeFails(g) PROVE HttpInv'
  <2>1. /\ pc[g] \in {"listen", "serving"} /\ UNCHANGED <<server, started, closed, stopped>>
        /\ pc' = [pc EXCEPT ![g] = "ended"] /\ listening' \subseteq listening
        /\ pc[g] = "listen" \/ server[g] \in closed \/ server[g] \notin listening'
    BY <1>5 DEF ListenFails, ServeClosed, ServeFails, Goes, serverVars
  <2>2. pc'[g] = "ended" /\ \A h \in Servers : h # g => pc'[h] = pc[h]
    BY <1>0, <2>1
  <2>3. Listened'
    <3>1. ASSUME NEW o \in listening' PROVE \E h \in Servers : pc'[h] = "serving" /\ server'[h] = o
      <4>1. PICK h \in Servers : pc[h] = "serving" /\ server[h] = o
        BY <1>0, <2>1 DEF Listened
      <4>2. h # g
        BY <2>1, <4>1 DEF HttpInv
      <4>3. QED
        BY <2>1, <2>2, <4>1, <4>2
    <3>2. QED
      BY <3>1 DEF Listened
  <2>4. \A h \in Servers : pc'[h] \in Serving => pc[h] \in Serving
    BY <2>1, <2>2 DEF Serving
  <2>5. OneServes'
    BY <1>0, <2>1, <2>4 DEF OneServes
  <2>6. \A h \in Servers : pc'[h] \in {"start", "listen", "serving", "ended"} => server'[h] # None
    BY <2>1, <2>2 DEF HttpInv
  <2>7. QED
    BY <2>1, <2>3, <2>4, <2>5, <2>6 DEF HttpInv
<1>6. CASE SubscriberFails \/ ControllerStart \/ \E g \in Servers : Ended(g)
  <2>1. UNCHANGED <<server, started, listening, closed, stopped>>
    BY <1>6 DEF SubscriberFails, ControllerStart, Ended, serverVars
  <2>2. PICK g \in Goroutines, from \in {"redis", "dial", "sem", "ended"},
             to \in {"send", "sem", "ready", "done"} : Goes(g, from, to)
    BY <1>6 DEF SubscriberFails, ControllerStart, Ended, report, Goroutines, Servers
  <2>3. QED
    BY <1>0, <2>1, <2>2, HttpKept DEF Goes
<1>7. CASE Signalling
  <2>1. UNCHANGED <<pc, server, started>>
    BY <1>7, SignallingFrame
  <2>2. CASE UNCHANGED <<listening, closed>> /\ stopped \subseteq stopped'
    BY <2>1, <2>2 DEF HttpInv, OneServes, Listened, Serving
  <2>3. ASSUME NEW c \in Servers, ShutdownClose(c) PROVE HttpInv'
    <3>1. /\ listening' = listening \ {server[c]} /\ closed' = closed \cup {server[c]}
          /\ stopped' = stopped /\ server[c] \in stopped
      BY <2>3 DEF ShutdownClose, Executing, HandlerInv
    <3>2. QED
      BY <2>1, <3>1 DEF HttpInv, OneServes, Listened
  <2>4. ASSUME NEW c \in Servers, ShutdownServer(c) \/ ShutdownDrained(c)
        PROVE  UNCHANGED <<listening, closed>> /\ stopped \subseteq stopped'
    BY <2>4 DEF ShutdownServer, ShutdownDrained, flagSet, serverVars
  <2>5. CASE Signal \/ HandlerStart \/ HandlerAnnounce \/ NodeShutdown \/ TermStep
    <3>1. UNCHANGED <<listening, closed, stopped>>
      BY <2>5 DEF Signal, HandlerStart, HandlerAnnounce, NodeShutdown, TermStep, serverVars
    <3>2. QED
      BY <2>2, <3>1
  <2>6. QED
    BY <1>7, <2>2, <2>3, <2>4, <2>5 DEF Signalling
<1>8. CASE Ending \/ UNCHANGED vars
  <2>1. UNCHANGED <<pc, server, started, listening, closed, stopped>>
    BY <1>8, EndingFrame DEF serverVars, vars
  <2>2. QED
    BY <2>1, HttpKept
<1>9. QED
  BY <1>1, <1>2, <1>3, <1>4, <1>5, <1>6, <1>7, <1>8, Kinds DEF Looking, Working, HttpGoroutine

-----------------------------------------------------------------------------
(* The signal handler. *)

\* The functions of the handler that shut servers down.
LEMMA ServerFunctions ==
  ASSUME SignalsOK, NEW c \in Servers, Executing(c)
  PROVE  /\ exec \in 2..4 /\ exec \in Nat
         /\ c = "metrics" <=> exec = 2
         /\ c = "ws" <=> exec = 4
         /\ Functions[exec] = c
<1>1. exec \in 1..6 /\ Functions[exec] = c
  BY FunctionList DEF SignalsOK, Executing
<1>2. QED
  BY <1>1, FunctionList DEF Servers

\* A function returns when its server, if there is one, has been closed.
LEMMA ReturnKeeps ==
  ASSUME SignalsOK, HandlerInv, exec > 0, Return, step # "close",
         exec = 2 => server["metrics"] \in closed \cup {None},
         exec = 4 => server["ws"] \in closed,
         UNCHANGED <<main, server, reserved, stopped, closed>>,
         nodeDown' => nodeDown \/ exec > 4
  PROVE  HandlerInv'
<1>1. /\ exec \in Nat /\ exec' \in Nat /\ step' = "call" /\ exec' # exec
      /\ exec' > 0 => exec' = exec + 1
  BY Follows, FunctionList DEF Return, SignalsOK
<1>2. stopped \subseteq closed /\ main \notin Booting
  BY <1>1 DEF HandlerInv, Closing, SignalsOK
<1>3. /\ exec' > 2 => server["metrics"] \in closed \cup {None}
      /\ exec' > 4 => server["ws"] \in closed
  BY <1>1 DEF HandlerInv
<1>4. nodeDown' => server["metrics"] \in closed \cup {None} /\ server["ws"] \in closed
  BY <1>1 DEF HandlerInv
<1>5. main' = "reserve" => reserved' < Len(Functions)
  BY DEF HandlerInv
<1>6. QED
  BY <1>1, <1>2, <1>3, <1>4, <1>5 DEF HandlerInv

\* While the handler runs nothing, the invariant says little.
LEMMA HandlerIdle ==
  ASSUME exec' = 0, step' = "call", ~nodeDown', stopped' \subseteq closed',
         main' \in Booting => reserved' = 0,
         main' = "reserve" => reserved' < Len(Functions)
  PROVE  HandlerInv'
BY DEF HandlerInv, Closing

\* Every step keeps HandlerInv: each function closes its server before the next is run.
LEMMA HandlerStep ==
  ASSUME FlowOK, MapOK, ServersOK, SignalsOK, ForPortInv, HandlerInv, [Next]_vars
  PROVE  HandlerInv'
<1>0. /\ None \notin Servers /\ server \in [Servers -> Servers \cup {None}] /\ exec \in Nat
      /\ exec \in 0..reserved /\ reserved \in 0..6 /\ Len(Functions) = 6
  BY RunnerAssumption, FunctionList DEF MapOK, SignalsOK
<1>1. ASSUME UNCHANGED <<server, exec, step, stopped, closed, nodeDown>>,
             main' \in Booting => reserved' = 0 /\ main \in Booting,
             main' = "reserve" => reserved' < Len(Functions)
      PROVE  HandlerInv'
  BY <1>1 DEF HandlerInv, Closing
<1>2. CASE Main
  <2>1. UNCHANGED <<exec, step, stopped, closed, nodeDown>>
    BY <1>2, MainFrame
  <2>2. CASE InitMetrics
    <3>1. main = "metrics" /\ main' = "node" /\ reserved' = reserved
      BY <2>2 DEF InitMetrics, signalVars
    <3>2. exec = 0 /\ ~nodeDown /\ reserved = 0 /\ step = "call"
      BY <1>0, <3>1 DEF HandlerInv, Booting, BeforeServe
    <3>3. stopped \subseteq closed
      BY <3>2 DEF HandlerInv, Closing
    <3>4. QED
      BY <2>1, <3>1, <3>2, <3>3, HandlerIdle
  <2>3. CASE StartNode \/ SetDisconnector \/ Spawn
    <3>1. UNCHANGED <<server, reserved>> /\ main \in Booting /\ main' # "reserve"
      BY <2>3 DEF StartNode, SetDisconnector, Spawn, serverVars, signalVars, Booting, BeforeServe
    <3>2. QED
      BY <1>1, <2>1, <3>1 DEF HandlerInv
  <2>4. CASE Reserve
    <3>1. /\ UNCHANGED server /\ main' \in {"reserve", "wait"}
          /\ \/ main = "signals" /\ reserved' = reserved
             \/ /\ main = "reserve" /\ reserved' = reserved + 1
                /\ main' = IF reserved' = Len(Functions) THEN "wait" ELSE "reserve"
      BY <2>4 DEF Reserve, serverVars
    <3>2. main' = "reserve" => reserved' < Len(Functions)
      BY <1>0, <3>1 DEF HandlerInv, Booting
    <3>3. QED
      BY <1>1, <2>1, <3>1, <3>2 DEF Booting, BeforeServe
  <2>5. QED
    BY <1>2, <2>2, <2>3, <2>4 DEF Main
<1>3. ASSUME NEW g \in {"subscriber", "ws"}, ForPort(g) \/ ForPortFail(g) PROVE HandlerInv'
  <2>1. UNCHANGED <<exec, step, stopped, closed, nodeDown, reserved>> /\ at(g) \in InMap
    BY <1>3, LookingFrame DEF Looking, nodeVars, signalVars, ForPort, ForPortCheck, ForPortStore,
                              ForPortStored, ForPortLoad, ForPortFail, InMap
  <2>2. main' = main \/ (main \in Booting /\ main' # "reserve")
    BY <1>3 DEF ForPort, ForPortCheck, ForPortStore, ForPortStored, ForPortLoad, ForPortFail,
                Advance, at, Booting, BeforeServe
  <2>3. CASE server' = server
    BY <1>1, <2>1, <2>2, <2>3 DEF HandlerInv
  <2>4. CASE server' # server
    <3>1. server' = [server EXCEPT ![g] = allServers[wanted(g)]]
      BY <1>3, <2>4 DEF ForPort, ForPortCheck, ForPortStore, ForPortStored, ForPortLoad, ForPortFail,
                        serverVars
    <3>2. CASE g = "ws"
      <4>1. main \in Booting
        BY <2>1, <3>2 DEF at, InMap, Booting, BeforeServe
      <4>2. exec = 0 /\ ~nodeDown /\ reserved = 0 /\ step = "call"
        BY <1>0, <4>1 DEF HandlerInv
      <4>3. stopped \subseteq closed
        BY <4>2 DEF HandlerInv, Closing
      <4>4. main' # "reserve" \/ reserved' < Len(Functions)
        BY <1>0, <2>1, <4>2
      <4>5. QED
        BY <2>1, <2>2, <4>1, <4>2, <4>3, <4>4, HandlerIdle
    <3>3. CASE g = "subscriber"
      <4>1. server["subscriber"] = None
        BY <2>1, <3>3 DEF at, ForPortInv, FlowInv
      <4>2. step # "call" => Functions[exec] # "subscriber"
        BY <1>0, <4>1 DEF HandlerInv, ServersOK
      <4>3. server'["ws"] = server["ws"] /\ server'["metrics"] = server["metrics"]
        BY <1>0, <3>1, <3>3 DEF Servers
      <4>4. step # "call" => server'[Functions[exec]] = server[Functions[exec]]
        BY <1>0, <3>1, <3>3, <4>2 DEF HandlerInv
      <4>5. Closing' = Closing
        BY <2>1, <4>4 DEF Closing
      <4>6. QED
        BY <2>1, <2>2, <4>3, <4>4, <4>5 DEF HandlerInv
    <3>4. QED
      BY <3>2, <3>3
  <2>5. QED
    BY <2>3, <2>4
<1>4. CASE Working
  <2>1. UNCHANGED <<main, reserved, server, exec, step, stopped, closed, nodeDown>>
    BY <1>4, WorkingFrame DEF nodeVars, signalVars
  <2>2. QED
    BY <1>1, <2>1 DEF HandlerInv
<1>5. CASE Signalling
  <2>1. UNCHANGED <<main, server>>
    BY <1>5, SignallingFrame
  <2>2. CASE Signal \/ TermStep
    <3>1. UNCHANGED <<reserved, exec, step, stopped, closed, nodeDown>>
      BY <2>2 DEF Signal, TermStep, serverVars, nodeVars
    <3>2. QED
      BY <1>1, <2>1, <3>1 DEF HandlerInv
  <2>3. CASE HandlerStart
    <3>1. UNCHANGED <<reserved, step, stopped, closed, nodeDown>> /\ exec = 0 /\ exec' \in {0, 1}
      BY <2>3 DEF HandlerStart, serverVars, nodeVars
    <3>2. step = "call" /\ Closing = {} /\ Closing' = {}
      BY <3>1 DEF HandlerInv, Closing
    <3>3. QED
      BY <2>1, <3>1, <3>2 DEF HandlerInv
  <2>4. CASE HandlerAnnounce \/ NodeShutdown
    <3>1. /\ UNCHANGED <<reserved, stopped, closed>> /\ Return /\ exec > 0
          /\ Functions[exec] \in {"announce", "node"}
      BY <2>4 DEF HandlerAnnounce, NodeShutdown, Executing, serverVars
    <3>2. exec \in 1..6 /\ exec # 2 /\ exec # 4 /\ step = "call"
      BY <1>0, <3>1, FunctionList DEF HandlerInv, Servers
    <3>3. nodeDown' => nodeDown \/ exec > 4
      <4>1. CASE HandlerAnnounce
        BY <4>1 DEF HandlerAnnounce, nodeVars
      <4>2. CASE NodeShutdown
        <5>1. Functions[exec] = "node" /\ nodeDown' = TRUE
          BY <4>2 DEF NodeShutdown, Executing
        <5>2. exec > 4
          BY <3>2, <5>1, FunctionList
        <5>3. QED
          BY <5>1, <5>2
      <4>3. QED
        BY <2>4, <4>1, <4>2
    <3>4. QED
      BY <2>1, <3>1, <3>2, <3>3, ReturnKeeps
  <2>5. ASSUME NEW c \in Servers, ShutdownServer(c) PROVE HandlerInv'
    <3>1. /\ UNCHANGED <<reserved, closed, nodeDown>> /\ Executing(c) /\ step = "call" /\ exec > 0
          /\ \/ server[c] \in stopped \cup {None} /\ Return /\ stopped' = stopped
             \/ /\ server[c] \notin stopped \cup {None} /\ stopped' = stopped \cup {server[c]}
                /\ step' = "close" /\ exec' = exec
      BY <2>5 DEF ShutdownServer, Executing, flagSet, nodeVars
    <3>2. /\ stopped \subseteq closed /\ Functions[exec] = c
          /\ (c = "metrics" <=> exec = 2) /\ (c = "ws" <=> exec = 4)
      BY <3>1, ServerFunctions DEF HandlerInv, Closing
    <3>3. CASE server[c] \in stopped \cup {None}
      <4>1. main \notin Booting
        BY <1>0, <3>1 DEF HandlerInv
      <4>2. server["ws"] # None
        BY <4>1 DEF ForPortInv, FlowInv, Booting
      <4>3. QED
        BY <2>1, <3>1, <3>2, <3>3, <4>2, ReturnKeeps
    <3>4. CASE server[c] \notin stopped \cup {None}
      <4>1. /\ stopped' = stopped \cup {server[c]} /\ step' = "close" /\ exec' = exec
            /\ Closing' = {server[c]}
        BY <2>1, <3>1, <3>2, <3>4 DEF Closing
      <4>2. /\ stopped' \subseteq closed' \cup Closing' /\ server'[Functions[exec']] \in stopped'
            /\ Functions[exec'] \in Servers /\ exec' # 0 /\ step' # "drain"
        BY <2>1, <3>1, <3>2, <4>1
      <4>3. /\ exec' > 2 \/ nodeDown' => server'["metrics"] \in closed' \cup {None}
            /\ exec' > 4 \/ nodeDown' => server'["ws"] \in closed'
        BY <2>1, <3>1, <4>1, Zenon DEF HandlerInv
      <4>4. /\ main' \in Booting => reserved' = 0 /\ ~nodeDown'
            /\ main' = "reserve" => reserved' < Len(Functions)
        BY <2>1, <3>1, Zenon DEF HandlerInv
      <4>5. QED
        BY <4>2, <4>3, <4>4, Zenon DEF HandlerInv
    <3>5. QED
      BY <3>3, <3>4
  <2>6. ASSUME NEW c \in Servers, ShutdownClose(c) PROVE HandlerInv'
    <3>1. /\ UNCHANGED <<reserved, exec, stopped, nodeDown>> /\ step = "close" /\ step' = "drain"
          /\ closed' = closed \cup {server[c]} /\ Functions[exec] = c
      BY <2>6 DEF ShutdownClose, Executing, nodeVars
    <3>2. Closing \subseteq {server[c]} /\ Closing' = {}
      BY <3>1 DEF Closing
    <3>3. QED
      BY <2>1, <3>1, <3>2 DEF HandlerInv
  <2>7. ASSUME NEW c \in Servers, ShutdownDrained(c) PROVE HandlerInv'
    <3>1. /\ UNCHANGED <<reserved, stopped, closed, nodeDown>> /\ Executing(c) /\ step = "drain"
          /\ Return /\ exec > 0
      BY <2>7 DEF ShutdownDrained, Executing, nodeVars, serverVars
    <3>2. /\ Functions[exec] = c /\ server[c] \in closed
          /\ (c = "metrics" <=> exec = 2) /\ (c = "ws" <=> exec = 4)
      BY <3>1, ServerFunctions DEF HandlerInv
    <3>3. QED
      BY <2>1, <3>1, <3>2, ReturnKeeps
  <2>8. QED
    BY <1>5, <2>2, <2>3, <2>4, <2>5, <2>6, <2>7 DEF Signalling
<1>6. CASE Ending \/ UNCHANGED vars
  <2>1. UNCHANGED <<main, reserved, server, exec, step, stopped, closed, nodeDown>>
    BY <1>6, EndingFrame DEF nodeVars, signalVars, serverVars, vars
  <2>2. QED
    BY <1>1, <2>1 DEF HandlerInv
<1>7. QED
  BY <1>2, <1>3, <1>4, <1>5, <1>6, Kinds DEF Looking

-----------------------------------------------------------------------------
(* Errors. *)

\* Two servers made for one port stay so.
LEMMA ClashStays ==
  ASSUME MapOK, ForPortInv, [Next]_vars, ~OneServerPerPort
  PROVE  ~OneServerPerPort'
<1>1. PICK o1 \in Servers, o2 \in Servers :
        o1 # o2 /\ portOf[o1] # None /\ portOf[o1] = portOf[o2]
  BY DEF OneServerPerPort
<1>2. \A o \in Servers : portOf[o] # None => portOf'[o] = portOf[o]
  <2>1. CASE Main
    <3>1. CASE InitMetrics
      BY <3>1 DEF InitMetrics, ForPortInv, FlowInv, MapOK
    <3>2. CASE ~InitMetrics
      BY <2>1, <3>2 DEF Main, StartNode, SetDisconnector, Spawn, Reserve, serverVars
    <3>3. QED
      BY <3>1, <3>2
  <2>2. ASSUME NEW g \in {"subscriber", "ws"}, ForPort(g) \/ ForPortFail(g)
        PROVE  \A o \in Servers : portOf[o] # None => portOf'[o] = portOf[o]
    <3>1. CASE ForPortStore(g)
      <4>1. portOf[g] = None
        BY <3>1 DEF ForPortStore, at, ForPortInv, FlowInv, BeforeServe
      <4>2. QED
        BY <3>1, <4>1 DEF ForPortStore, MapOK
    <3>2. CASE ~ForPortStore(g)
      BY <2>2, <3>2 DEF ForPort, ForPortCheck, ForPortStored, ForPortLoad, ForPortFail, serverVars
    <3>3. QED
      BY <3>1, <3>2
  <2>3. CASE Working \/ Signalling \/ Ending \/ UNCHANGED vars
    BY <2>3, WorkingFrame, SignallingFrame, EndingFrame DEF serverVars, vars
  <2>4. QED
    BY <2>1, <2>2, <2>3, Kinds DEF Looking
<1>3. QED
  BY <1>1, <1>2 DEF OneServerPerPort

\* A goroutine that starts a server finds its port taken only by another server.
LEMMA TakenByAnother ==
  ASSUME FlowOK, MapOK, ServersOK, ForPortInv, HttpInv, NEW g \in Servers, pc[g] = "listen", Taken(g)
  PROVE  ~OneServerPerPort
<1>1. PICK o \in listening : portOf[o] = portOf[server[g]]
  BY DEF Taken
<1>2. server[g] \in Servers /\ portOf[server[g]] # None /\ o \in Servers
  BY DEF HttpInv, MapOK, ForPortInv, MadeInv, ServersOK
<1>3. o # server[g]
  <2>1. PICK h \in Servers : pc[h] = "serving" /\ server[h] = o
    BY DEF HttpInv, Listened
  <2>2. QED
    BY <2>1 DEF HttpInv, OneServes, Listened, Serving
<1>4. QED
  BY <1>1, <1>2, <1>3 DEF OneServerPerPort

\* An error is reported only after a failure, or for a port with two servers.
Excused == failed # {} \/ ~OneServerPerPort

\* Every step keeps AlarmInv: Serve returns only from a failure, a shutdown or a
\* second server for the port.
LEMMA AlarmStep ==
  ASSUME FlowOK, MapOK, ServersOK, SignalsOK, ForPortInv, HttpInv, HandlerInv, AlarmInv, [Next]_vars
  PROVE  AlarmInv'
<1>0. /\ pc \in [Goroutines -> Places] /\ Servers \subseteq Goroutines
      /\ server \in [Servers -> Servers \cup {None}]
  BY DEF FlowOK, MapOK, Goroutines
<1>1. Excused => Excused'
  BY FailedStays, ClashStays DEF Excused
<1>2. /\ \A g \in Goroutines : pc[g] = "send" => Excused
      /\ \A g \in Servers : pc[g] = "ended" => Excused \/ server[g] \in stopped
      /\ status = "error" => Excused
  BY DEF AlarmInv, NoFalseAlarm, Excused
<1>3. SUFFICES ASSUME ~Excused'
               PROVE  /\ \A g \in Goroutines : pc'[g] # "send"
                      /\ \A g \in Servers : pc'[g] = "ended" => server'[g] \in stopped'
                      /\ status' # "error"
  BY DEF AlarmInv, NoFalseAlarm, Excused
<1>4. /\ failed' = {} /\ OneServerPerPort
      /\ \A g \in Goroutines : pc[g] # "send"
      /\ \A g \in Servers : pc[g] = "ended" => server[g] \in stopped
      /\ status # "error"
  BY <1>1, <1>2, <1>3 DEF Excused
<1> DEFINE Silent == /\ \A g \in Goroutines : pc'[g] # "send"
                     /\ \A g \in Servers : pc'[g] = "ended" => server'[g] \in stopped'
                     /\ status' # "error"
<1>5. CASE Main
  <2>1. UNCHANGED <<status, stopped>>
    BY <1>5, MainFrame
  <2>2. CASE InitMetrics
    <3>1. /\ pc' = pc /\ pc["metrics"] = "none"
          /\ server' = server \/ server' = [server EXCEPT !["metrics"] = "metrics"]
      BY <2>2 DEF InitMetrics, ForPortInv, FlowInv, Booting, BeforeServe
    <3>2. QED
      BY <1>0, <1>4, <2>1, <3>1
  <2>3. CASE StartNode \/ SetDisconnector \/ Reserve
    <3>1. UNCHANGED <<pc, server>>
      BY <2>3 DEF StartNode, SetDisconnector, Reserve, serverVars
    <3>2. QED
      BY <1>4, <2>1, <3>1
  <2>4. CASE Spawn
    <3>1. /\ server' = server
          /\ \E g \in Goroutines, p \in Places \ {"send", "ended"} : pc' = [pc EXCEPT ![g] = p]
      BY <2>4 DEF Spawn, Goes, serverVars, Goroutines, Servers, Places
    <3>2. QED
      BY <1>0, <1>4, <2>1, <3>1
  <2>5. QED
    BY <1>5, <2>2, <2>3, <2>4 DEF Main
<1>6. ASSUME NEW g \in {"subscriber", "ws"}, ForPort(g) \/ ForPortFail(g) PROVE Silent
  <2>1. ForPort(g)
    BY <1>4, <1>6 DEF ForPortFail
  <2>2. UNCHANGED <<status, stopped>> /\ pc[g] \in InMap \cup {"none"}
    BY <2>1 DEF ForPort, ForPortCheck, ForPortStore, ForPortStored, ForPortLoad, at, InMap,
                ForPortInv, FlowInv, BeforeServe
  <2>3. /\ server' = server \/ server' = [server EXCEPT ![g] = allServers[wanted(g)]]
        /\ \E p \in InMap \cup {"start"} : pc' = pc \/ pc' = [pc EXCEPT ![g] = p]
    BY <2>1 DEF ForPort, ForPortCheck, ForPortStore, ForPortStored, ForPortLoad, Advance, InMap
  <2>4. QED
    BY <1>0, <1>4, <2>2, <2>3 DEF InMap
<1>7. CASE Working
  <2>1. UNCHANGED <<status, server, stopped, closed>>
    BY <1>7, WorkingFrame
  <2>2. ASSUME NEW g \in Goroutines, NEW p, p \notin {"send", "ended"}, pc' = [pc EXCEPT ![g] = p]
        PROVE  Silent
    BY <1>0, <1>4, <2>1, <2>2
  <2>3. ASSUME NEW g \in Servers, server[g] \in stopped, pc' = [pc EXCEPT ![g] = "ended"]
        PROVE  Silent
    BY <1>0, <1>4, <2>1, <2>3
  <2>4. ASSUME NEW g \in Servers, HttpGoroutine(g) \/ ServeFails(g) PROVE Silent
    <3>1. CASE Start(g) \/ Listen(g)
      <4>1. \E p \in {"done", "listen", "serving"} : pc' = [pc EXCEPT ![g] = p]
        BY <3>1 DEF Start, Listen, Goes
      <4>2. QED
        BY <1>0, <2>2, <4>1
    <3>2. CASE ListenFails(g)
      <4>1. pc[g] = "listen" /\ Taken(g)
        BY <1>4, <3>2 DEF ListenFails, Goes
      <4>2. QED
        BY <1>4, <4>1, TakenByAnother
    <3>3. CASE ServeClosed(g)
      <4>1. server[g] \in stopped /\ pc' = [pc EXCEPT ![g] = "ended"]
        BY <3>3 DEF ServeClosed, Goes, HttpInv
      <4>2. QED
        BY <2>3, <4>1
    <3>4. CASE ServeFails(g)
      BY <1>4, <3>4 DEF ServeFails
    <3>5. CASE Ended(g)
      <4>1. pc' = [pc EXCEPT ![g] = "done"]
        BY <1>4, <3>5 DEF Ended, Goes
      <4>2. QED
        BY <1>0, <2>2, <4>1
    <3>6. QED
      BY <2>4, <3>1, <3>2, <3>3, <3>4, <3>5 DEF HttpGoroutine
  <2>5. CASE SubscriberFails
    BY <1>4, <2>5 DEF SubscriberFails
  <2>6. CASE ControllerStart
    <3>1. \E p \in {"sem", "ready"} : pc' = [pc EXCEPT !["controller"] = p]
      BY <1>4, <2>6 DEF ControllerStart, Goes
    <3>2. QED
      BY <2>2, <3>1 DEF Goroutines
  <2>7. QED
    BY <1>7, <2>4, <2>5, <2>6 DEF Working
<1>8. CASE Signalling
  <2>1. UNCHANGED <<status, pc, server>>
    BY <1>8, SignallingFrame
  <2>2. stopped \subseteq stopped'
    BY <1>8 DEF Signalling, Signal, HandlerStart, HandlerAnnounce, NodeShutdown, TermStep,
                ShutdownServer, ShutdownClose, ShutdownDrained, flagSet, serverVars
  <2>3. QED
    BY <1>4, <2>1, <2>2
<1>9. CASE Ending
  <2>1. UNCHANGED <<pc, server, stopped>>
    BY <1>9, EndingFrame DEF serverVars
  <2>2. status' # "error"
    BY <1>4, <1>9 DEF Ending, InitFails, NilReceived, CollectStats, Connect, ForPortFatal,
                      ErrorReceived
  <2>3. QED
    BY <1>4, <2>1, <2>2
<1>10. CASE UNCHANGED vars
  BY <1>4, <1>10 DEF vars, serverVars
<1>11. QED
  BY <1>5, <1>6, <1>7, <1>8, <1>9, <1>10, Kinds DEF Looking

-----------------------------------------------------------------------------
(* The theorems. *)

IInv == TypeOK /\ ForPortInv /\ HttpInv /\ HandlerInv /\ AlarmInv

\* The process starts in a state of the invariant.
LEMMA RunnerInit == Init => IInv
<1> SUFFICES ASSUME Init PROVE IInv
  OBVIOUS
<1>1. /\ FlowOK /\ MapOK /\ ServersOK
  BY DEF Init, FlowOK, MapOK, ServersOK, Booting, BeforeServe, Places
<1>2. FlagsOK
  BY DEF Init, FlagsOK
<1>3. SignalsOK
  <2>1. MaxSignals[config] \in Nat
    BY RunnerAssumption DEF Init
  <2>2. /\ reserved = 0 /\ exec = 0 /\ step = "call" /\ pending = 0
        /\ term = "none" /\ termSig = 0 /\ signals = 0
    BY DEF Init
  <2>3. QED
    BY <2>1, <2>2, FunctionList DEF SignalsOK
<1>4. ForPortInv
  BY DEF Init, ForPortInv, FlowInv, Walked, MadeInv, at, wanted, Servers, Goroutines, Booting, BeforeServe, InMap
<1>5. HttpInv
  BY DEF Init, HttpInv, OneServes, Listened, Serving, Goroutines
<1>6. HandlerInv
  <2>1. exec = 0 /\ step = "call" /\ nodeDown = FALSE /\ stopped = {} /\ reserved = 0 /\ main = "metrics"
    BY DEF Init
  <2>2. QED
    BY <2>1 DEF HandlerInv, Closing
<1>7. AlarmInv
  BY DEF Init, AlarmInv, NoFalseAlarm, Goroutines
<1>8. QED
  BY <1>1, <1>2, <1>3, <1>4, <1>5, <1>6, <1>7, Types DEF IInv

\* Every step keeps the invariant.
LEMMA RunnerStep == IInv /\ [Next]_vars => IInv'
<1> SUFFICES ASSUME IInv, [Next]_vars PROVE IInv'
  OBVIOUS
<1>1. FlowOK /\ MapOK /\ ServersOK /\ FlagsOK /\ SignalsOK
  BY Types DEF IInv
<1>2. FlowOK' /\ MapOK' /\ ServersOK' /\ FlagsOK' /\ SignalsOK'
  BY <1>1, FlowStep, MapStep, ServersStep, FlagsStep, SignalsStep DEF IInv
<1>3. TypeOK'
  BY <1>2, Types, PTL
<1>4. ForPortInv' /\ HttpInv' /\ HandlerInv' /\ AlarmInv'
  BY <1>1, ForPortStep, HttpStep, HandlerStep, AlarmStep DEF IInv
<1>5. QED
  BY <1>3, <1>4 DEF IInv

\* The invariant holds in every behaviour of the process.
LEMMA RunnerInvariant == Spec => []IInv
  BY RunnerInit, RunnerStep, PTL DEF Spec

\* The process, its goroutines, its servers and the signal handler keep the
\* types of their state; only servers that were started are listened to, and
\* the handler runs only functions that Run has reserved.
THEOREM TypeCorrect == Spec => []TypeOK
<1>1. IInv => TypeOK
  BY DEF IInv
<1>2. QED
  BY <1>1, RunnerInvariant, PTL

\* Run returns an error only if some component failed of itself, or if ForPort
\* made two servers for one port, whenever servers are started, shared by
\* components and shut down.
THEOREM AlarmsAreTrue == Spec => []NoFalseAlarm
<1>1. IInv => NoFalseAlarm
  BY DEF IInv, AlarmInv
<1>2. QED
  BY <1>1, RunnerInvariant, PTL

\* Once Node.Shutdown has been called, neither the WebSocket server nor that of
\* the metrics accepts connections, even if it is started late, and whether or
\* not all the functions were reserved when the signal came.
THEOREM NodeIsLast == Spec => []NodeStopsLast
<1>1. IInv => NodeStopsLast
  <2> SUFFICES ASSUME IInv, nodeDown PROVE {server["ws"], server["metrics"]} \cap listening = {}
    BY DEF NodeStopsLast
  <2>1. server["ws"] \in closed /\ server["metrics"] \in closed \cup {None}
    BY DEF IInv, HandlerInv
  <2>2. None \notin listening /\ closed \cap listening = {}
    BY RunnerAssumption, Types DEF IInv, ServersOK, HttpInv
  <2>3. QED
    BY <2>1, <2>2
<1>2. QED
  BY <1>1, RunnerInvariant, PTL

=============================================================================
